--------------------------- MODULE MCRoktStartup ----------------------------
(***************************************************************************)
(* RoktStartup with two servers, the settings of app/config.json and wrong *)
(* ones.                                                                   *)
(***************************************************************************)
EXTENDS RoktStartup, TLC

CONSTANTS p1, p2, r1, r2

MCSymmetry == Permutations({p1, p2}) \cup Permutations({r1, r2})

\* The texts of app/config.json, and another passphrase with the same first sixteen
\* bytes; the default IV is a short one.
App == "MaPassphraseSecretePourAES128"
AppLong == "MaPassphraseSecretePourAES128bis"
Iv == "0123456789ABCDEF"

MCStr == {"default_passphrase", "default_iv", "", App, AppLong, Iv}

MCSize == [s \in MCStr |->
    CASE s = "default_passphrase" -> 18 [] s = "default_iv" -> 10 [] s = "" -> 0
      [] s = App -> 29 [] s = AppLong -> 32 [] s = Iv -> 16]

MCHead == [s \in MCStr |->
    CASE s = "default_passphrase" -> "default_passphra"
      [] s \in {App, AppLong} -> "MaPassphraseSecr"
      [] OTHER -> s]

Keyed(passphrase) == [passphrase |-> passphrase, iv |-> Iv]

MCJson == {
    Keyed(App),
    [passphrase |-> AppLong, iv |-> Iv, port |-> 70000, maxWorkers |-> 100],
    [port |-> 0],
    [maxWorkers |-> -1, maxTaskQueueSize |-> 0]}

MCEnvironment == {
    [n \in {} |-> 0],
    [port |-> 70000, maxWorkers |-> 3, maxTaskQueueSize |-> 0]}
=============================================================================
