------------------------- MODULE RowCommandsProofs --------------------------
(***************************************************************************)
(* Proofs about RowCommands for every set of tables, texts and calls of    *)
(* clients.                                                                *)
(***************************************************************************)
EXTENDS RowCommands, ConditionsProofs, SelectionProofs

Parsing == {"head", "clauses", "where", "load"}
Stages == {"group", "order", "limit", "project", "answer"}
Writes == {"REMOVE", "CHANGE"}

-----------------------------------------------------------------------------
(* The text.                                                               *)

\* A number stands where LIMIT wants one, a field where GROUP and ORDER do, and a
\* field with its value where COUNT does.
LimitWords(s) == \A p \in 1..Len(s) : "limit" \in DOMAIN s[p] => s[p].limit \in Int
KeyWord(x) == "word" \in DOMAIN x /\ x.word \in Field
KeyWords(s) ==
    \A p \in 1..Len(s) :
        (s[p] \in {W("GROUP"), W("ORDER")} /\ p + 2 <= Len(s)) => KeyWord(s[p + 2])
CountWord(x) == "field" \in DOMAIN x => x.field \in Field
CountWords(s) ==
    (Len(s) >= 3 /\ s[1] = W("COUNT")) => CountWord(s[3])
Words(s) ==
    /\ \E C : s \in Seq(C)
    /\ LimitWords(s) /\ KeyWords(s) /\ CountWords(s)

\* No clause is left without its key.
Phrase(s) ==
    /\ Words(s)
    /\ \A p \in 1..Len(s) : s[p] \in {W("GROUP"), W("ORDER")} => p + 2 <= Len(s)
    /\ (Len(s) >= 1 /\ s[1] = W("COUNT")) => Len(s) >= 3

TextInv == Phrase(command) /\ Words(text) /\ (text = <<>> => place = "head")

-----------------------------------------------------------------------------
(* The parser.                                                             *)

Fits(cs) == cs # <<>> => Foldable(cs)

\* The handler holds nothing yet.
Fresh ==
    /\ table = <<>> /\ k = 1 /\ rows = <<>> /\ i = 0 /\ refused = FALSE
    /\ groups = NoGroups /\ ignored = 0 /\ reply = NoReply

Grouped == params.group # ""
Ordered == params.order # ""

\* Which commands come to a place.
KindFits(p, kind) ==
    /\ p = "load" => kind \in {"GET", "COUNT"} \cup Writes
    /\ p = "count" => kind = "COUNT"
    /\ p \in {"where", "rows"} => kind \in {"GET"} \cup Writes
    /\ p = "write" => kind \in Writes
    /\ p \in {"clauses"} \cup Stages => kind = "GET"

\* A parameter that names a field, if it is there.
Keyed(x) == x # "" => x \in Field

ParamsOK(ps) ==
    /\ DOMAIN ps = DOMAIN NoParams /\ ps.limit \in Int
    /\ Keyed(ps.group) /\ Keyed(ps.order)

ParserInv ==
    /\ pos \in Nat \ {0}
    /\ \E C : conds \in Seq(C)
    /\ Fits(conds) /\ ParamsOK(params)
    /\ place \in Parsing => Fresh
    /\ place = "head" => params = NoParams
    /\ place = "where" => conds # <<>>
    /\ KindFits(place, params.kind)

-----------------------------------------------------------------------------
(* The loop and the stages.                                                *)

Chosen == {n \in DOMAIN table : Selects(n)}

\* What GET is to answer when there is no GROUP BY and no LIMIT: the selected rows
\* that can be sorted, and of those the ones that have the field.
Listed == {n \in Chosen : Ordered => Sortable(n)}
Held == {n \in DOMAIN table : params.fields # "*" => Holds(table[n], params.fields)}

\* The order of the answer: that of ORDER BY, or of the table.
Comes(m, n) == IF Ordered THEN Before(m, n) ELSE m < n
InOrder(r) == \A m, n \in 1..Len(r) : m < n => ~Comes(r[n], r[m])
Rising(r) == \A m, n \in 1..Len(r) : m < n => r[m] < r[n]

\* L is what a limit lets through: as many as it says, and none of the others comes
\* before one of them.
Through(L) ==
    /\ L \subseteq Listed
    /\ IF params.limit > 0 /\ Cardinality(Listed) > params.limit
       THEN Cardinality(L) = params.limit ELSE L = Listed
    /\ \A m \in Listed \ L, n \in L : ~Comes(m, n)

\* The rows the limit has let through that are in X, in order.
BestOf(r, X) == InOrder(r) /\ \E L : Through(L) /\ Enumerates(r, L \cap X)

\* The loop has come to row k.
LoopInv ==
    /\ k \in 1..(Len(table) + 1)
    /\ item = IF k <= Len(table) THEN table[k] ELSE NoRow
    /\ conds # <<>> => IInv
    /\ Enumerates(rows, {n \in 1..(k - 1) : Selects(n)}) /\ Rising(rows)
    /\ ignored = 0 /\ reply = NoReply

GroupsInv ==
    LET key(n) == GroupKey(table[n], params.group) IN
    /\ ignored = 0
    /\ DOMAIN groups = {key(n) : n \in Chosen}
    /\ \A g \in DOMAIN groups :
          Enumerates(groups[g], {n \in Chosen : key(n) = g})

StageInv ==
    /\ place \in {"write", "group"} => Enumerates(rows, Chosen) /\ Rising(rows) /\ ignored = 0
    /\ Grouped /\ place \in Stages \ {"group"} => GroupsInv
    /\ ~Grouped =>
          /\ place = "order" => Enumerates(rows, Chosen) /\ Rising(rows) /\ ignored = 0
          /\ place = "limit" => Enumerates(rows, Listed) /\ InOrder(rows)
          /\ place = "project" => BestOf(rows, Listed)
          /\ place = "answer" => BestOf(rows, Held)
          /\ place \in {"limit", "project", "answer"} =>
                ignored = Cardinality(Chosen \ Listed)

CountInv ==
    /\ Colon
    /\ rows = Among(Positions, {n \in DOMAIN table : Len(text) = 2 \/
                                   Counted(table[n], text[3].field, text[3].value)})

HandlerInv ==
    /\ place \in {"rows", "count", "write"} \cup Stages => table \in Table
    /\ place = "rows" => LoopInv
    /\ StageInv
    /\ place = "end" /\ params.kind = "COUNT" /\ reply.code = 0 => table \in Table /\ CountInv
    /\ OnlyVerdictRowsChange

\* A COUNT is carried out for a text that says so.
Headed == params.kind = "COUNT" => WordAt(1, "COUNT")

CommandInv == TextInv /\ ParserInv /\ Headed /\ HandlerInv

-----------------------------------------------------------------------------
(* The text a client builds.                                               *)

\* Two phrases make one.
LEMMA PhraseConcat ==
    ASSUME NEW s, NEW t, Phrase(s), Phrase(t)
    PROVE  Phrase(s \o t)
<1>1. PICK C : s \in Seq(C)
    BY DEF Phrase, Words
<1>2. PICK D : t \in Seq(D)
    BY DEF Phrase, Words
<1> DEFINE r == s \o t
<1>3. /\ Len(s) \in Nat /\ Len(t) \in Nat /\ Len(r) = Len(s) + Len(t)
      /\ \A p \in 1..Len(s) : r[p] = s[p]
      /\ \A p \in 1..Len(t) : r[Len(s) + p] = t[p]
    BY <1>1, <1>2
<1>4. r \in Seq(C \cup D)
    <2>1. s \in Seq(C \cup D) /\ t \in Seq(C \cup D)
        BY <1>1, <1>2
    <2> QED
        BY <2>1
<1> HIDE DEF r
<1>5. \A p \in 1..Len(r) : \/ p \in 1..Len(s) /\ r[p] = s[p]
                           \/ p - Len(s) \in 1..Len(t) /\ r[p] = t[p - Len(s)]
    <2> SUFFICES ASSUME NEW p \in 1..Len(r), p \notin 1..Len(s)
                 PROVE  p - Len(s) \in 1..Len(t) /\ r[p] = t[p - Len(s)]
        BY <1>3
    <2>1. p - Len(s) \in 1..Len(t) /\ Len(s) + (p - Len(s)) = p
        BY <1>3
    <2> QED
        BY <1>3, <2>1
<1>6. LimitWords(r)
    BY <1>5 DEF LimitWords, Phrase, Words
<1>7. ASSUME NEW p \in 1..Len(r), r[p] \in {W("GROUP"), W("ORDER")}
      PROVE  p + 2 <= Len(r) /\ KeyWord(r[p + 2])
    <2>1. CASE p \in 1..Len(s) /\ r[p] = s[p]
        <3>1. p + 2 \in 1..Len(s) /\ KeyWord(s[p + 2])
            BY <1>3, <1>7, <2>1 DEF Phrase, Words, KeyWords
        <3> QED
            BY <1>3, <3>1
    <2>2. CASE p - Len(s) \in 1..Len(t) /\ r[p] = t[p - Len(s)]
        <3> DEFINE q == p - Len(s)
        <3>1. q + 2 \in 1..Len(t) /\ KeyWord(t[q + 2])
            BY <1>3, <1>7, <2>2 DEF Phrase, Words, KeyWords
        <3>2. Len(s) + (q + 2) = p + 2
            BY <1>3
        <3> QED
            BY <1>3, <3>1, <3>2
    <2> QED
        BY <1>5, <2>1, <2>2
<1>8. (Len(r) >= 1 /\ r[1] = W("COUNT")) => Len(r) >= 3 /\ CountWord(r[3])
    <2>1. CASE Len(s) = 0
        <3>1. Len(r) = Len(t) /\ \A p \in 1..Len(t) : r[p] = t[p]
            BY <1>3, <2>1
        <3> QED
            BY <1>3, <3>1 DEF Phrase, Words, CountWords
    <2>2. CASE Len(s) >= 1
        BY <1>3, <2>2 DEF Phrase, Words, CountWords
    <2> QED
        BY <1>3, <2>1, <2>2
<1>9. KeyWords(r) /\ CountWords(r)
    BY <1>3, <1>7, <1>8 DEF KeyWords, CountWords
<1> QED
    BY <1>4, <1>6, <1>7, <1>8, <1>9 DEF Phrase, Words, r

\* What a text is that is cut behind the words of s: its last word is the one of s or
\* a beginning of it.
Cuts(t, s) ==
    /\ Len(t) <= Len(s)
    /\ \A p \in 1..Len(t) : t[p] = s[p] \/ (p = Len(t) /\ t[p] \in Beginnings(s[p]))
Cut(t) ==
    \E n \in 1..Len(command) : \E w \in {command[n]} \cup Beginnings(command[n]) :
        t = Append(SubSeq(command, 1, n - 1), w)

\* What get() sends is such a text.
LEMMA CutCuts ==
    ASSUME NEW C, command \in Seq(C), NEW t, Cut(t)
    PROVE  Cuts(t, command) /\ t # <<>> /\ \E D : t \in Seq(D)
<1>0. PICK n \in 1..Len(command) : \E w \in {command[n]} \cup Beginnings(command[n]) :
         t = Append(SubSeq(command, 1, n - 1), w)
    BY DEF Cut
<1>1. PICK w \in {command[n]} \cup Beginnings(command[n]) :
         t = Append(SubSeq(command, 1, n - 1), w)
    BY <1>0
<1> DEFINE r == SubSeq(command, 1, n - 1)
<1>2. Len(command) \in Nat /\ n \in Nat /\ n - 1 \in 0..Len(command)
    BY <1>1
<1>3. r \in Seq(C \cup {w}) /\ Len(r) = n - 1 /\ \A p \in 1..(n - 1) : r[p] = command[p]
    <2>1. command \in Seq(C \cup {w})
        OBVIOUS
    <2> QED
        BY <1>2, <2>1
<1> HIDE DEF r
<1>4. t = Append(r, w)
    BY <1>1 DEF r
<1>5. t \in Seq(C \cup {w}) /\ Len(t) = n /\ t[n] = w /\ \A p \in 1..(n - 1) : t[p] = r[p]
    BY <1>2, <1>3, <1>4
<1>6. ASSUME NEW p \in 1..Len(t)
      PROVE  t[p] = command[p] \/ (p = Len(t) /\ t[p] \in Beginnings(command[p]))
    <2>1. p = n \/ p \in 1..(n - 1)
        BY <1>2, <1>5
    <2> QED
        BY <1>1, <1>3, <1>5, <2>1
<1>7. n <= Len(command) /\ Len(t) >= 1
    BY <1>2, <1>5
<1>8. t # <<>>
    BY <1>7
<1>9. Cuts(t, command)
    BY <1>5, <1>6, <1>7 DEF Cuts
<1> QED
    BY <1>5, <1>8, <1>9

\* A beginning of a word is no keyword, and of the same kind.
LEMMA BeginningFacts ==
    ASSUME NEW x, NEW w \in Beginnings(x)
    PROVE  /\ \A word \in {"GET", "COUNT", "WHERE", "GROUP", "ORDER", "LIMIT"} : w # W(word)
           /\ "limit" \in DOMAIN w => w.limit \in Int
           /\ CountWord(w) /\ (KeyWord(x) => KeyWord(w))
<1>1. PICK b \in Beginning : b[1] = x /\ b[2] = w
    BY DEF Beginnings
<1>2. \A word \in {"GET", "COUNT", "WHERE", "GROUP", "ORDER", "LIMIT"} : w # W(word)
    BY <1>1, NameAssumption
<1>3. /\ "limit" \in DOMAIN b[2] => b[2].limit \in Int
      /\ "field" \in DOMAIN b[2] => b[2].field \in Field
      /\ "word" \in DOMAIN b[1] =>
            "word" \in DOMAIN b[2] /\ (b[1].word \in Field => b[2].word \in Field)
    BY RowAssumption, Zenon
<1> QED
    BY <1>1, <1>2, <1>3 DEF CountWord, KeyWord

\* What arrives of a phrase that is cut.
LEMMA WordsPrefix ==
    ASSUME NEW s, Phrase(s), NEW r, Cuts(r, s), \E D : r \in Seq(D)
    PROVE  Words(r)
<1>1. PICK C : s \in Seq(C)
    BY DEF Phrase, Words
<1>2. /\ Len(r) \in Nat /\ Len(s) \in Nat /\ Len(r) <= Len(s)
      /\ \A p \in 1..Len(r) : \/ r[p] = s[p]
                              \/ p = Len(r) /\ r[p] \in Beginnings(s[p])
    BY <1>1 DEF Cuts
<1>3. ASSUME NEW p \in 1..Len(r), "limit" \in DOMAIN r[p]
      PROVE  r[p].limit \in Int
    <2>1. CASE r[p] = s[p]
        BY <1>2, <1>3, <2>1 DEF LimitWords, Phrase, Words
    <2>2. CASE r[p] \in Beginnings(s[p])
        BY <1>3, <2>2, BeginningFacts
    <2> QED
        BY <1>2, <2>1, <2>2
<1>4. ASSUME NEW p \in 1..Len(r), r[p] \in {W("GROUP"), W("ORDER")}, p + 2 <= Len(r)
      PROVE  KeyWord(r[p + 2])
    <2>1. p \in 1..Len(s) /\ p + 2 \in 1..Len(r) /\ p + 2 <= Len(s) /\ r[p] = s[p]
        BY <1>2, <1>4
    <2>2. KeyWord(s[p + 2])
        BY <1>4, <2>1 DEF Phrase, Words, KeyWords
    <2>3. r[p + 2] = s[p + 2] \/ r[p + 2] \in Beginnings(s[p + 2])
        BY <1>2, <2>1
    <2> QED
        BY <2>2, <2>3, BeginningFacts
<1>5. ASSUME Len(r) >= 3, r[1] = W("COUNT")
      PROVE  CountWord(r[3])
    <2>1. 1 \in 1..Len(r) /\ 3 \in 1..Len(r) /\ 1 # Len(r)
        BY <1>2, <1>5
    <2>2. r[1] = s[1] /\ Len(s) >= 3
        BY <1>2, <1>5, <2>1
    <2>3. CountWord(s[3])
        BY <1>5, <2>2 DEF CountWords, Phrase, Words
    <2>4. r[3] = s[3] \/ r[3] \in Beginnings(s[3])
        BY <1>2, <2>1
    <2> QED
        BY <2>3, <2>4, BeginningFacts
<1> QED
    BY <1>3, <1>4, <1>5 DEF Words, LimitWords, KeyWords, CountWords

\* A word that begins no clause with a key, and is no number.
Plain(x) == x \notin {W("GROUP"), W("ORDER"), W("COUNT")} /\ "limit" \notin DOMAIN x

\* The words differ as their names do, and from values.
LEMMA PlainWords ==
    /\ \A x : W(x).word = x /\ "limit" \notin DOMAIN W(x)
    /\ \A x, y : W(x) = W(y) => x = y
    /\ \A x : x \notin {"GROUP", "ORDER", "COUNT"} => Plain(W(x))
    /\ \A v : Plain(V(v))
<1>1. \A x : W(x).word = x /\ "limit" \notin DOMAIN W(x)
    BY DEF W
<1>2. \A x, y : W(x) = W(y) => x = y
    BY <1>1
<1>3. \A v, x : V(v) # W(x) /\ "limit" \notin DOMAIN V(v)
    <2> TAKE v, x
    <2>1. DOMAIN V(v) = {"value"} /\ DOMAIN W(x) = {"word"}
        BY DEF V, W
    <2> QED
        BY <2>1
<1>4. \A x : x \notin {"GROUP", "ORDER", "COUNT"} => Plain(W(x))
    BY <1>1, <1>2, Zenon DEF Plain
<1>5. \A v : Plain(V(v))
    BY <1>3 DEF Plain
<1> QED
    BY <1>1, <1>2, <1>4, <1>5

\* A sequence of plain words is a phrase.
LEMMA PlainPhrase ==
    ASSUME NEW C, NEW s \in Seq(C), \A p \in 1..Len(s) : Plain(s[p])
    PROVE  Phrase(s)
<1>1. LimitWords(s) /\ KeyWords(s)
    BY DEF Plain, LimitWords, KeyWords
<1>2. Len(s) >= 1 => s[1] # W("COUNT")
    BY DEF Plain
<1>3. \A p \in 1..Len(s) : s[p] \notin {W("GROUP"), W("ORDER")}
    BY DEF Plain
<1>4. CountWords(s)
    BY <1>2 DEF CountWords
<1> QED
    BY <1>1, <1>2, <1>3, <1>4 DEF Phrase, Words

\* A clause that GROUP or ORDER begins, with its key.
LEMMA KeyPhrase ==
    ASSUME NEW name \in {"GROUP", "ORDER"}, NEW key \in Field,
           key \notin {"GROUP", "ORDER", "COUNT"}
    PROVE  Phrase(<<W(name), W("BY"), W(key)>>)
<1> DEFINE s == <<W(name), W("BY"), W(key)>>
<1>1. Plain(W("BY")) /\ Plain(W(key)) /\ KeyWord(W(key)) /\ W(name) # W("COUNT")
    <2>1. "word" \in DOMAIN W(key)
        BY DEF W
    <2> QED
        BY <2>1, PlainWords DEF KeyWord
<1>2. s \in Seq({W(name), W("BY"), W(key)}) /\ Len(s) = 3
    OBVIOUS
<1>3. s[1] = W(name) /\ s[2] = W("BY") /\ s[3] = W(key)
    OBVIOUS
<1> HIDE DEF s
<1>4. \A p \in 1..Len(s) : p = 1 \/ p = 2 \/ p = 3
    BY <1>2
<1>5. \A p \in 1..Len(s) : "limit" \notin DOMAIN s[p]
    BY <1>3, <1>4, PlainWords
<1>6. \A p \in 1..Len(s) : s[p] \in {W("GROUP"), W("ORDER")} => p = 1
    BY <1>1, <1>3, <1>4 DEF Plain
<1>7. LimitWords(s) /\ KeyWords(s) /\ CountWords(s)
    BY <1>1, <1>2, <1>3, <1>5, <1>6 DEF LimitWords, KeyWords, CountWords
<1>8. \E C : s \in Seq(C)
    BY <1>2
<1> QED
    BY <1>1, <1>2, <1>3, <1>6, <1>7, <1>8 DEF Phrase, Words, s

\* LIMIT with its number.
LEMMA LimitPhrase ==
    ASSUME NEW n \in Int
    PROVE  Phrase(<<W("LIMIT"), [limit |-> n]>>)
<1> DEFINE s == <<W("LIMIT"), [limit |-> n]>>
<1>1. Plain(W("LIMIT"))
    BY PlainWords
<1>2. \A x : [limit |-> n] # W(x)
    <2> TAKE x
    <2>1. DOMAIN [limit |-> n] = {"limit"} /\ DOMAIN W(x) = {"word"}
        BY DEF W
    <2> QED
        BY <2>1
<1>3. s \in Seq({W("LIMIT"), [limit |-> n]}) /\ Len(s) = 2
    OBVIOUS
<1>4. s[1] = W("LIMIT") /\ s[2] = [limit |-> n]
    OBVIOUS
<1> HIDE DEF s
<1>5. \A p \in 1..Len(s) : p = 1 \/ p = 2
    BY <1>3
<1>6. LimitWords(s)
    BY <1>1, <1>4, <1>5 DEF LimitWords, Plain
<1>7. \A p \in 1..Len(s) : s[p] \notin {W("GROUP"), W("ORDER"), W("COUNT")}
    BY <1>1, <1>2, <1>4, <1>5 DEF Plain
<1>8. KeyWords(s) /\ CountWords(s)
    BY <1>3, <1>7 DEF KeyWords, CountWords
<1>9. \E C : s \in Seq(C)
    BY <1>3
<1>10. s[1] # W("COUNT")
    BY <1>3, <1>7
<1> QED
    BY <1>6, <1>7, <1>8, <1>9, <1>10 DEF Phrase, Words, s

\* COUNT with its table, field and value.
LEMMA CountPhrase ==
    ASSUME NEW f \in Field, NEW v, NEW t, t \notin {"GROUP", "ORDER", "COUNT"}
    PROVE  Phrase(<<W("COUNT"), W(t), [field |-> f, value |-> v]>>)
<1> DEFINE x == [field |-> f, value |-> v]
           s == <<W("COUNT"), W(t), x>>
<1>1. Plain(W(t)) /\ W("COUNT") \notin {W("GROUP"), W("ORDER")}
    BY PlainWords
<1>2. "limit" \notin DOMAIN x /\ x.field = f /\ \A y : x # W(y)
    <2>1. DOMAIN x = {"field", "value"} /\ x.field = f
        OBVIOUS
    <2>2. \A y : DOMAIN W(y) = {"word"}
        BY DEF W
    <2> QED
        BY <2>1, <2>2
<1> HIDE DEF x
<1>3. s \in Seq({W("COUNT"), W(t), x}) /\ Len(s) = 3
    OBVIOUS
<1>4. s[1] = W("COUNT") /\ s[2] = W(t) /\ s[3] = x
    OBVIOUS
<1> HIDE DEF s
<1>5. \A p \in 1..Len(s) : p = 1 \/ p = 2 \/ p = 3
    BY <1>3
<1>6. \A p \in 1..Len(s) : "limit" \notin DOMAIN s[p]
    BY <1>2, <1>4, <1>5, PlainWords
<1>7. \A p \in 1..Len(s) : s[p] \notin {W("GROUP"), W("ORDER")}
    BY <1>1, <1>2, <1>4, <1>5 DEF Plain
<1>8. LimitWords(s) /\ KeyWords(s) /\ CountWords(s)
    BY <1>2, <1>3, <1>4, <1>6, <1>7 DEF LimitWords, KeyWords, CountWords, CountWord
<1>9. \E C : s \in Seq(C)
    BY <1>3
<1>10. Phrase(s)
    BY <1>3, <1>7, <1>8, <1>9 DEF Phrase, Words
<1> QED
    BY <1>10 DEF s, x

\* A clause with one to four plain words.
LEMMA PlainClauses ==
    ASSUME NEW a, NEW b, NEW c, NEW d, Plain(a), Plain(b), Plain(c), Plain(d)
    PROVE  Phrase(<<>>) /\ Phrase(<<a>>) /\ Phrase(<<a, b>>) /\ Phrase(<<a, b, c>>)
           /\ Phrase(<<a, b, c, d>>)
<1> DEFINE C == {x \in {a, b, c, d} : Plain(x)}
<1>1. /\ <<>> \in Seq(C) /\ <<a>> \in Seq(C) /\ <<a, b>> \in Seq(C)
      /\ <<a, b, c>> \in Seq(C) /\ <<a, b, c, d>> \in Seq(C)
    OBVIOUS
<1>2. \A s \in Seq(C) : \A p \in 1..Len(s) : Plain(s[p])
    OBVIOUS
<1> HIDE DEF C
<1> QED
    BY <1>1, <1>2, PlainPhrase

\* Each call adds a phrase to the command, or sends it.
LEMMA BuilderSteps ==
    ASSUME BuilderNext
    PROVE  /\ text = <<>>
           /\ \/ text' = text /\ \E s : Phrase(s) /\ command' = command \o s
              \/ command' = command /\ Cut(text')
<1>s. ASSUME NEW call, NEW s, Phrase(s), Say(call, s)
      PROVE  text = <<>> /\ text' = text /\ command' = command \o s
    BY <1>s DEF Say
<1>w. \A x : x \notin {"GROUP", "ORDER", "COUNT"} => Plain(W(x))
    BY PlainWords
<1>v. \A v : Plain(V(v))
    BY PlainWords
<1>p. \A a, b, c, d : Plain(a) /\ Plain(b) /\ Plain(c) /\ Plain(d) =>
          /\ Phrase(<<>>) /\ Phrase(<<a>>) /\ Phrase(<<a, b>>) /\ Phrase(<<a, b, c>>)
          /\ Phrase(<<a, b, c, d>>)
    BY PlainClauses
<1> DEFINE Said == text = <<>> /\ text' = text /\ \E s : Phrase(s) /\ command' = command \o s
<1>1. ASSUME Select PROVE Said
    <2>1. PICK f \in SelectArg : Say([call |-> "select", fields |-> f], <<W("GET"), W(f)>>)
        BY <1>1, Zenon DEF Select
    <2>2. f \notin {"GROUP", "ORDER", "COUNT"}
        BY NameAssumption
    <2> QED
        BY <2>1, <2>2, <1>s, <1>w, <1>p
<1>2. ASSUME Change PROVE Said
    <2>1. Say([call |-> "change"], <<W("CHANGE")>>)
        BY <1>2, Zenon DEF Change
    <2>2. Plain(W("CHANGE"))
        BY <1>w
    <2>3. Phrase(<<W("CHANGE")>>)
        BY <2>2, <1>p
    <2> QED
        BY <2>1, <2>3, <1>s
<1>3. ASSUME Remove PROVE Said
    <2>1. Say([call |-> "remove"], <<W("REMOVE")>>)
        BY <1>3, Zenon DEF Remove
    <2>2. Plain(W("REMOVE"))
        BY <1>w
    <2>3. Phrase(<<W("REMOVE")>>)
        BY <2>2, <1>p
    <2> QED
        BY <2>1, <2>3, <1>s
<1>4. ASSUME From PROVE Said
    <2>1. PICK t \in TableArg : Say([call |-> "from", table |-> t], <<W("IN"), W(t)>>)
        BY <1>4, Zenon DEF From
    <2>2. t \notin {"GROUP", "ORDER", "COUNT"}
        BY NameAssumption
    <2>3. Plain(W("IN")) /\ Plain(W(t))
        BY <2>2, <1>w
    <2>4. Phrase(<<W("IN"), W(t)>>)
        BY <2>3, <1>p
    <2> QED
        BY <2>1, <2>4, <1>s
<1>5. ASSUME As PROVE Said
    <2>1. Say([call |-> "as"], <<W("AS"), W("alias")>>)
        BY <1>5, Zenon DEF As
    <2>2. Plain(W("AS")) /\ Plain(W("alias"))
        BY <1>w
    <2>3. Phrase(<<W("AS"), W("alias")>>)
        BY <2>2, <1>p
    <2> QED
        BY <2>1, <2>3, <1>s
<1>6. ASSUME NEW word \in {"WHERE", "AND", "OR"}, NEW a \in WhereArg \cup WriteArg,
             SayWhere(word, a)
      PROVE  Said
    <2>1. PICK call : Say(call, <<W(word), W(a[1]), W(a[2]), V(a[3])>>)
        BY <1>6, Zenon DEF SayWhere
    <2>2. /\ a[1] \notin {"GROUP", "ORDER", "COUNT"}
          /\ a[2] \notin {"GROUP", "ORDER", "COUNT"}
        BY NameAssumption
    <2>3. Plain(W(word)) /\ Plain(W(a[1])) /\ Plain(W(a[2])) /\ Plain(V(a[3]))
        BY <2>2, <1>w, <1>v
    <2> QED
        BY <2>1, <2>3, <1>s, <1>p
<1>7. ASSUME Where \/ WriteWhere PROVE Said
    <2>1. PICK word \in {"WHERE", "AND", "OR"}, a \in WhereArg \cup WriteArg :
             SayWhere(word, a)
        BY <1>7, Zenon DEF Where, WriteWhere
    <2> QED
        BY <2>1, <1>6
<1>8. ASSUME GroupBy PROVE Said
    <2>1. PICK f \in GroupArg : Say([call |-> "groupBy", field |-> f],
                                    <<W("GROUP"), W("BY"), W(f)>>)
        BY <1>8, Zenon DEF GroupBy
    <2>2. f \in Field /\ f \notin {"GROUP", "ORDER", "COUNT"}
        BY NameAssumption, RowAssumption
    <2> QED
        BY <2>1, <2>2, <1>s, KeyPhrase
<1>9. ASSUME OrderBy PROVE Said
    <2> DEFINE end(a) == IF a[2] = "" THEN <<>> ELSE <<W(a[2])>>
    <2>1. PICK a \in OrderArg : \E call : Say(call, <<W("ORDER"), W("BY"), W(a[1])>> \o end(a))
        BY <1>9, Zenon DEF OrderBy
    <2>2. a[1] \in Field /\ a[1] \notin {"GROUP", "ORDER", "COUNT"}
        BY NameAssumption, RowAssumption
    <2>3. end(a) = <<>> \/ end(a) = <<W("ASC")>> \/ end(a) = <<W("DESC")>>
        BY BuilderAssumption, Zenon
    <2> HIDE DEF end
    <2>4. Phrase(end(a))
        <3>1. Plain(W("ASC")) /\ Plain(W("DESC"))
            BY <1>w
        <3>2. Phrase(<<>>) /\ Phrase(<<W("ASC")>>) /\ Phrase(<<W("DESC")>>)
            BY <3>1, <1>p
        <3> QED
            BY <2>3, <3>2
    <2>5. Phrase(<<W("ORDER"), W("BY"), W(a[1])>>)
        BY <2>2, KeyPhrase
    <2> QED
        BY <2>1, <2>4, <2>5, <1>s, PhraseConcat
<1>10. ASSUME Limit PROVE Said
    <2>1. PICK n \in LimitArg : Say([call |-> "limit", limit |-> n],
                                    <<W("LIMIT"), [limit |-> n]>>)
        BY <1>10, Zenon DEF Limit
    <2>2. n \in Int
        BY BuilderAssumption, Zenon
    <2> QED
        BY <2>1, <2>2, <1>s, LimitPhrase
<1>11. ASSUME Set PROVE Said
    <2>1. PICK a \in SetArg : \E call : Say(call, <<W(a[1]), W("="), V(a[2])>>)
        BY <1>11, Zenon DEF Set
    <2>2. a[1] \notin {"GROUP", "ORDER", "COUNT"}
        BY NameAssumption
    <2>3. Plain(W(a[1])) /\ Plain(W("=")) /\ Plain(V(a[2]))
        BY <2>2, <1>w, <1>v
    <2> QED
        BY <2>1, <2>3, <1>s, <1>p
<1>12. ASSUME Value PROVE Said
    <2>1. PICK t \in ValueArg : \E call : Say(call, <<V(t)>>)
        BY <1>12, Zenon DEF Value
    <2>2. Phrase(<<V(t)>>)
        BY <1>v, <1>p
    <2> QED
        BY <2>1, <2>2, <1>s
<1>13. ASSUME Count PROVE Said
    <2>1. PICK a \in CountArg, t \in TableArg :
             \E call : Say(call, <<W("COUNT"), W(t), [field |-> a[1], value |-> a[2]]>>)
        BY <1>13, Zenon DEF Count
    <2>2. a[1] \in Field /\ t \notin {"GROUP", "ORDER", "COUNT"}
        BY RowAssumption, NameAssumption
    <2> QED
        BY <2>1, <2>2, <1>s, CountPhrase
<1>14. ASSUME Get
       PROVE  text = <<>> /\ command' = command /\ Cut(text')
    BY <1>14, Zenon DEF Get, Cut
<1> QED
    BY <1>1, <1>2, <1>3, <1>4, <1>5, <1>7, <1>8, <1>9, <1>10, <1>11, <1>12, <1>13, <1>14,
       Zenon DEF BuilderNext

\* Steps of the server do not touch what the client has built and sent.
LEMMA ServerKeepsText == Server \/ UNCHANGED commandVars => UNCHANGED builderVars
<1>1. Server => UNCHANGED builderVars
    BY Zenon DEF Server, Parser, Handler, GetHead, RemoveValue, RemoveWhere, ChangeAll,
       ChangeWhere, CountHead, WhereClause, MoreCondition, EndGetConditions, EndConditions,
       GroupClause, OrderClause, LimitClause, SkipWord, EndText, RefuseText, Parse, Answer,
       NoTable, Load, TakeAll, EvaluateRow, EndRow, RefuseRow, EndRows, Overwrite,
       RefuseCount, CountRows, GroupRows, OrderRows, LimitRows, ProjectRows, AnswerRows, builderVars
<1>2. UNCHANGED commandVars => UNCHANGED builderVars
    BY DEF commandVars
<1> QED
    BY <1>1, <1>2

\* TextInv is kept: the server does not touch the text, and works only on one that
\* has arrived.
LEMMA TextStep == TextInv /\ [CommandNext]_commandVars => TextInv'
<1> SUFFICES ASSUME TextInv, [CommandNext]_commandVars
             PROVE  TextInv'
    OBVIOUS
<1>1. CASE BuilderNext /\ UNCHANGED <<vars, parserVars, rowVars, answerVars>>
    <2>1. place' = "head"
        BY <1>1, BuilderSteps DEF TextInv, parserVars
    <2>2. CASE text' = text /\ \E s : Phrase(s) /\ command' = command \o s
        BY <2>1, <2>2, PhraseConcat DEF TextInv
    <2>3. CASE command' = command /\ Cut(text')
        <3>1. PICK C : command \in Seq(C)
            BY DEF TextInv, Phrase, Words
        <3>2. Cuts(text', command) /\ \E D : text' \in Seq(D)
            BY <2>3, <3>1, CutCuts
        <3>3. Words(text)'
            BY <3>2, WordsPrefix DEF TextInv
        <3> QED
            BY <2>1, <2>3, <3>3 DEF TextInv
    <2> QED
        BY <1>1, <2>2, <2>3, BuilderSteps
<1>2. CASE text # <<>> /\ UNCHANGED builderVars
    BY <1>2 DEF TextInv, builderVars
<1>3. text # <<>> /\ Server => UNCHANGED builderVars
    BY ServerKeepsText
<1>4. CASE UNCHANGED commandVars
    BY <1>4 DEF TextInv, commandVars, builderVars, parserVars
<1> QED
    BY <1>1, <1>2, <1>3, <1>4, Zenon DEF CommandNext

-----------------------------------------------------------------------------
(* The parser.                                                             *)

\* The parameters a command begins with.
LEMMA NoParamsFacts ==
    /\ DOMAIN NoParams = {"kind", "fields", "alias", "group", "order", "desc", "limit",
                          "field", "value"}
    /\ NoParams.kind \notin {"GET", "COUNT", "REMOVE", "CHANGE"}
    /\ NoParams.limit \in Int /\ Keyed(NoParams.group) /\ Keyed(NoParams.order)
<1> DEFINE R(e) == [kind |-> e, fields |-> "*", alias |-> FALSE, group |-> e, order |-> e,
                    desc |-> FALSE, limit |-> -1, field |-> e, value |-> 0]
<1>1. \A e : /\ DOMAIN R(e) = {"kind", "fields", "alias", "group", "order", "desc", "limit",
                               "field", "value"}
             /\ R(e).kind = e /\ R(e).group = e /\ R(e).order = e /\ R(e).limit \in Int
    OBVIOUS
<1>2. NoParams = R("")
    BY Zenon DEF NoParams
<1> HIDE DEF R
<1>3. "" \notin {"GET", "COUNT", "REMOVE", "CHANGE"}
    BY Zenon
<1> QED
    BY <1>1, <1>2, <1>3, Zenon DEF Keyed

\* A condition joins as the parser says.
LEMMA ConditionJoins ==
    /\ \A p, logic : ConditionFrom(p, logic).logic = logic
    /\ \A f, o, v, logic : [field |-> f, op |-> o, value |-> v, logic |-> logic].logic = logic
<1>1. \A p, logic : ConditionFrom(p, logic).logic = logic
    BY DEF ConditionFrom
<1> QED
    BY <1>1

\* The first condition, and one more.
LEMMA FitsFirst ==
    ASSUME NEW c, JoinsNothing(c)
    PROVE  <<c>> \in Seq({c}) /\ Fits(<<c>>)
<1>1. c.logic \in Logic
    BY Zenon DEF JoinsNothing, Logic
<1> QED
    BY <1>1 DEF Fits, Foldable

\* A condition more.
LEMMA FitsMore ==
    ASSUME NEW C, NEW cs \in Seq(C), Fits(cs), NEW c, c.logic \in Logic,
           cs # <<>> \/ JoinsNothing(c)
    PROVE  /\ \E D : Append(cs, c) \in Seq(D)
           /\ Fits(Append(cs, c)) /\ Append(cs, c) # <<>>
<1> DEFINE r == Append(cs, c)
<1>1. r \in Seq(C \cup {c}) /\ Len(r) = Len(cs) + 1 /\ Len(cs) \in Nat
    <2>1. cs \in Seq(C \cup {c})
        OBVIOUS
    <2> QED
        BY <2>1
<1>2. \A p \in 1..Len(r) : r[p] = IF p = Len(r) THEN c ELSE cs[p]
    BY <1>1
<1>3. Len(cs) = 0 <=> cs = <<>>
    OBVIOUS
<1> HIDE DEF r
<1>4. \A p \in 1..Len(r) : r[p].logic \in Logic
    <2> SUFFICES ASSUME NEW p \in 1..Len(r)
                 PROVE  r[p].logic \in Logic
        OBVIOUS
    <2>1. CASE p = Len(r)
        BY <1>2, <2>1
    <2>2. CASE p # Len(r)
        <3>1. p \in 1..Len(cs) /\ cs # <<>>
            BY <1>1, <1>3, <2>2
        <3> QED
            BY <1>2, <2>2, <3>1 DEF Fits, Foldable
    <2> QED
        BY <2>1, <2>2
<1>5. JoinsNothing(r[1])
    <2>1. CASE cs = <<>>
        BY <1>1, <1>2, <1>3, <2>1
    <2>2. CASE cs # <<>>
        <3>1. r[1] = cs[1]
            BY <1>1, <1>2, <1>3, <2>2
        <3> QED
            BY <2>2, <3>1 DEF Fits, Foldable
    <2> QED
        BY <2>1, <2>2
<1>6. r # <<>>
    BY <1>1
<1> QED
    BY <1>1, <1>4, <1>5, <1>6 DEF Fits, Foldable, r

\* What a step of the parser must give to keep the invariant.
LEMMA ParseKeeps ==
    ASSUME ParserInv, place \in Parsing,
           NEW np \in {"clauses", "where", "load"}, NEW q \in Nat \ {0}, NEW ps, NEW cs,
           Parse(np, q, ps, cs), \E C : cs \in Seq(C), Fits(cs), ParamsOK(ps),
           np = "where" => cs # <<>>, KindFits(np, ps.kind)
    PROVE  ParserInv'
<1>1. /\ place' = np /\ pos' = q /\ params' = ps /\ conds' = cs
      /\ UNCHANGED <<i, refused, rowVars, answerVars>>
    BY Zenon DEF Parse
<1>2. Fresh'
    BY <1>1 DEF ParserInv, Fresh, rowVars, answerVars
<1>3. place' # "head"
    BY <1>1
<1> QED
    BY <1>1, <1>2, <1>3, Zenon DEF ParserInv

\* The parameters that a head sets.
LEMMA HeadParams ==
    /\ \A ps, x, y : ps = [NoParams EXCEPT !.kind = "GET", !.fields = x, !.alias = y] =>
          ParamsOK(ps) /\ ps.kind = "GET"
    /\ \A ps, x, y : ps = [NoParams EXCEPT !.kind = "CHANGE", !.field = x, !.value = y] =>
          ParamsOK(ps) /\ ps.kind = "CHANGE"
    /\ \A ps, x : ps = [NoParams EXCEPT !.kind = x] => ParamsOK(ps) /\ ps.kind = x
<1>1. /\ NoParams.limit \in Int /\ Keyed(NoParams.group) /\ Keyed(NoParams.order)
      /\ {"kind", "fields", "alias", "group", "order", "limit", "field", "value"}
            \subseteq DOMAIN NoParams
    BY NoParamsFacts
<1>2. ASSUME NEW ps, DOMAIN ps = DOMAIN NoParams,
             ps.limit = NoParams.limit, ps.group = NoParams.group, ps.order = NoParams.order
      PROVE  ParamsOK(ps)
    BY <1>1, <1>2, Zenon DEF ParamsOK
<1>3. ASSUME NEW ps, NEW x, NEW y,
             ps = [NoParams EXCEPT !.kind = "GET", !.fields = x, !.alias = y]
      PROVE  ParamsOK(ps) /\ ps.kind = "GET"
    BY <1>1, <1>2, <1>3
<1>4. ASSUME NEW ps, NEW x, NEW y,
             ps = [NoParams EXCEPT !.kind = "CHANGE", !.field = x, !.value = y]
      PROVE  ParamsOK(ps) /\ ps.kind = "CHANGE"
    BY <1>1, <1>2, <1>4
<1>5. ASSUME NEW ps, NEW x, ps = [NoParams EXCEPT !.kind = x]
      PROVE  ParamsOK(ps) /\ ps.kind = x
    BY <1>1, <1>2, <1>5
<1> QED
    BY <1>3, <1>4, <1>5, Zenon

\* What GET sets.
LEMMA HeadOfGet ==
    ASSUME GetHead
    PROVE  \E q \in {3, 5} : \E ps : /\ place = "head" /\ Parse("clauses", q + 2, ps, <<>>)
                                     /\ ParamsOK(ps) /\ ps.kind = "GET"
<1>1. \E q \in {3, 5} : \E x, y :
         /\ place = "head"
         /\ Parse("clauses", q + 2,
                  [NoParams EXCEPT !.kind = "GET", !.fields = x, !.alias = y], <<>>)
    BY Zenon DEF GetHead
<1>2. PICK q \in {3, 5} : \E x, y :
         /\ place = "head"
         /\ Parse("clauses", q + 2,
                  [NoParams EXCEPT !.kind = "GET", !.fields = x, !.alias = y], <<>>)
    BY <1>1
<1>3. \E ps : /\ place = "head" /\ Parse("clauses", q + 2, ps, <<>>)
              /\ ParamsOK(ps) /\ ps.kind = "GET"
    BY <1>2, HeadParams, ZenonT(40)
<1> QED
    BY <1>3

\* The head of a GET, REMOVE, CHANGE or COUNT.
LEMMA HeadSteps ==
    ASSUME TextInv, ParserInv,
           GetHead \/ RemoveValue \/ RemoveWhere \/ ChangeAll \/ ChangeWhere \/ CountHead
    PROVE  ParserInv'
<1>2. Len(text) \in Nat
    BY DEF TextInv, Words
<1>3. Fits(<<>>) /\ \E C : <<>> \in Seq(C)
    BY DEF Fits
<1>4. ASSUME NEW c, JoinsNothing(c)
      PROVE  <<c>> # <<>> /\ Fits(<<c>>) /\ \E C : <<c>> \in Seq(C)
    BY <1>4, FitsFirst
<1>5. \A p, x, y, z : /\ JoinsNothing(ConditionFrom(p, ""))
                      /\ JoinsNothing([field |-> x, op |-> y, value |-> z, logic |-> ""])
    BY ConditionJoins, Zenon DEF JoinsNothing
<1>1. ASSUME NEW np \in {"where", "load"}, NEW q \in {5, 6, 7, 9}, NEW ps, NEW cs,
              place \in Parsing, Parse(np, q, ps, cs), \E C : cs \in Seq(C), Fits(cs),
              ParamsOK(ps), np = "where" => cs # <<>>, KindFits(np, ps.kind)
       PROVE  ParserInv'
    <2>1. q \in Nat \ {0} /\ np \in {"clauses", "where", "load"}
        OBVIOUS
    <2> QED
        BY <2>1, <1>1, ParseKeeps
<1>6. CASE GetHead
    <2>2. PICK q \in {3, 5} : \E ps : /\ place = "head" /\ Parse("clauses", q + 2, ps, <<>>)
                                      /\ ParamsOK(ps) /\ ps.kind = "GET"
        BY <1>6, HeadOfGet
    <2>3. PICK ps : /\ place = "head" /\ Parse("clauses", q + 2, ps, <<>>)
                    /\ ParamsOK(ps) /\ ps.kind = "GET"
        BY <2>2
    <2>4. q + 2 \in Nat \ {0} /\ place \in Parsing /\ KindFits("clauses", ps.kind)
        BY <2>3 DEF Parsing, KindFits, Stages
    <2> QED
        BY <2>3, <2>4, <1>3, ParseKeeps
<1>7. CASE RemoveValue
    <2>1. PICK c : /\ JoinsNothing(c) /\ place = "head"
                   /\ Parse("load", 5, [NoParams EXCEPT !.kind = "REMOVE"], <<c>>)
        BY <1>7, <1>5, Zenon DEF RemoveValue
    <2>2. PICK ps : /\ Parse("load", 5, ps, <<c>>) /\ ParamsOK(ps) /\ ps.kind = "REMOVE"
        BY <2>1, HeadParams
    <2>3. place \in Parsing /\ KindFits("load", ps.kind)
        BY <2>1, <2>2 DEF Parsing, KindFits, Stages, Writes
    <2> QED
        BY <2>1, <2>2, <2>3, <1>4, <1>1, Zenon
<1>8. CASE RemoveWhere
    <2>1. PICK c : /\ JoinsNothing(c) /\ place = "head"
                   /\ Parse("where", 6, [NoParams EXCEPT !.kind = "REMOVE"], <<c>>)
        BY <1>8, <1>5, Zenon DEF RemoveWhere
    <2>2. PICK ps : /\ Parse("where", 6, ps, <<c>>) /\ ParamsOK(ps) /\ ps.kind = "REMOVE"
        BY <2>1, HeadParams
    <2>3. place \in Parsing /\ KindFits("where", ps.kind)
        BY <2>1, <2>2 DEF Parsing, KindFits, Stages, Writes
    <2> QED
        BY <2>1, <2>2, <2>3, <1>4, <1>1, Zenon
<1>9. ParamsOK(Assignment) /\ Assignment.kind = "CHANGE"
    BY HeadParams, Zenon DEF Assignment
<1>10. CASE ChangeAll
    <2>1. place = "head" /\ Parse("load", 7, Assignment, <<>>)
        BY <1>10, Zenon DEF ChangeAll
    <2>2. place \in Parsing /\ KindFits("load", Assignment.kind)
        BY <2>1, <1>9 DEF Parsing, KindFits, Stages, Writes
    <2> QED
        BY <2>1, <2>2, <1>3, <1>9, <1>1, Zenon
<1>11. CASE ChangeWhere
    <2>1. PICK c : JoinsNothing(c) /\ place = "head" /\ Parse("where", 9, Assignment, <<c>>)
        BY <1>11, <1>5, Zenon DEF ChangeWhere
    <2>2. place \in Parsing /\ KindFits("where", Assignment.kind)
        BY <2>1, <1>9 DEF Parsing, KindFits, Stages, Writes
    <2> QED
        BY <2>1, <2>2, <1>4, <1>9, <1>1, Zenon
<1>12. CASE CountHead
    <2>1. place = "head"
          /\ Parse("load", Len(text) + 1, [NoParams EXCEPT !.kind = "COUNT"], <<>>)
        BY <1>12, Zenon DEF CountHead
    <2>2. PICK ps : /\ Parse("load", Len(text) + 1, ps, <<>>)
                    /\ ParamsOK(ps) /\ ps.kind = "COUNT"
        BY <2>1, HeadParams
    <2>3. /\ place \in Parsing /\ KindFits("load", ps.kind)
          /\ Len(text) + 1 \in Nat \ {0}
        BY <2>1, <2>2, <1>2 DEF Parsing, KindFits, Stages
    <2> QED
        BY <2>2, <2>3, <1>3, ParseKeeps
<1> QED
    BY <1>6, <1>7, <1>8, <1>10, <1>11, <1>12

\* The conditions of a WHERE.
LEMMA WhereSteps ==
    ASSUME TextInv, ParserInv,
           WhereClause \/ MoreCondition \/ EndGetConditions \/ EndConditions
    PROVE  ParserInv'
<1>1. PICK C : conds \in Seq(C)
    BY DEF ParserInv
<1>2. /\ Fits(conds) /\ ParamsOK(params) /\ KindFits(place, params.kind)
      /\ place = "where" => conds # <<>>
    BY DEF ParserInv
<1>3. /\ pos + 4 \in Nat \ {0} /\ pos + 2 \in Nat \ {0} /\ pos + 1 \in Nat \ {0}
    BY DEF ParserInv
<1>4. CASE WhereClause
    <2>1. PICK c : /\ JoinsNothing(c) /\ place = "clauses"
                   /\ Parse("where", pos + 4, params, Append(conds, c))
        BY <1>4, ConditionJoins, Zenon DEF WhereClause, JoinsNothing
    <2>2. c.logic \in Logic
        BY <2>1, Zenon DEF JoinsNothing, Logic
    <2>3. place \in Parsing /\ KindFits("where", params.kind)
        BY <1>2, <2>1 DEF Parsing, KindFits, Stages
    <2> QED
        BY <1>1, <1>2, <1>3, <2>1, <2>2, <2>3, FitsMore, ParseKeeps
<1>5. CASE MoreCondition
    <2>1. PICK c : /\ c.logic \in {"AND", "OR"} /\ place = "where"
                   /\ Parse("where", pos + 4, params, Append(conds, c))
        BY <1>5, ConditionJoins, Zenon DEF MoreCondition
    <2>2. c.logic \in Logic
        BY <2>1, Zenon DEF Logic
    <2>3. place \in Parsing
        BY <2>1 DEF Parsing
    <2> QED
        BY <1>1, <1>2, <1>3, <2>1, <2>2, <2>3, FitsMore, ParseKeeps
<1>6. CASE EndGetConditions
    <2>1. /\ place = "where" /\ params.kind = "GET"
          /\ Parse("clauses", pos + 1, params, conds)
        BY <1>6, Zenon DEF EndGetConditions, NoMoreConditions
    <2>2. place \in Parsing /\ KindFits("clauses", params.kind)
        BY <2>1 DEF Parsing, KindFits, Stages
    <2> QED
        BY <1>1, <1>2, <1>3, <2>1, <2>2, ParseKeeps
<1>7. CASE EndConditions
    <2>1. place = "where" /\ Parse("load", pos + 2, params, conds)
        BY <1>7, Zenon DEF EndConditions, NoMoreConditions
    <2>2. place \in Parsing /\ KindFits("load", params.kind)
        BY <1>2, <2>1 DEF Parsing, KindFits, Stages
    <2> QED
        BY <1>1, <1>2, <1>3, <2>1, <2>2, ParseKeeps
<1> QED
    BY <1>4, <1>5, <1>6, <1>7

\* The other clauses of a GET.
LEMMA ClauseSteps ==
    ASSUME TextInv, ParserInv,
           GroupClause \/ OrderClause \/ LimitClause \/ SkipWord \/ EndText
    PROVE  ParserInv'
<1>1. PICK C : conds \in Seq(C)
    BY DEF ParserInv
<1>2. Fits(conds) /\ ParamsOK(params) /\ KindFits(place, params.kind)
    BY DEF ParserInv
<1>3. pos \in Nat \ {0} /\ pos + 1 \in Nat \ {0} /\ pos + 2 \in Nat \ {0}
      /\ pos + 3 \in Nat \ {0} /\ pos + 4 \in Nat \ {0} /\ Len(text) \in Nat
    BY DEF ParserInv, TextInv, Words
<1>4. place = "clauses"
    BY Zenon DEF GroupClause, OrderClause, LimitClause, SkipWord, EndText
<1>5. /\ place \in Parsing /\ params.kind = "GET"
      /\ KindFits("clauses", params.kind) /\ KindFits("load", params.kind)
    BY <1>2, <1>4 DEF Parsing, KindFits, Stages
<1>6. {"kind", "group", "order", "desc", "limit"} \subseteq DOMAIN params
    BY <1>2, NoParamsFacts DEF ParamsOK
<1>7. ASSUME NEW f \in Field
      PROVE  Keyed(f)
    BY Zenon DEF Keyed
<1>8. ASSUME WordAt(pos, "GROUP") \/ WordAt(pos, "ORDER"), KeyAt(pos)
      PROVE  Keyed(text[pos + 2].word)
    <2>1. /\ pos \in 1..Len(text) /\ pos + 2 <= Len(text)
          /\ text[pos] \in {W("GROUP"), W("ORDER")}
        BY <1>3, <1>8 DEF WordAt, KeyAt
    <2>2. text[pos + 2].word \in Field
        BY <2>1 DEF TextInv, Words, KeyWords, KeyWord
    <2> QED
        BY <2>2, <1>7
<1>9. CASE GroupClause
    <2> DEFINE ps == [params EXCEPT !.group = text[pos + 2].word]
    <2>1. WordAt(pos, "GROUP") /\ KeyAt(pos) /\ Parse("clauses", pos + 3, ps, conds)
        BY <1>9, Zenon DEF GroupClause
    <2>2. /\ DOMAIN ps = DOMAIN params /\ ps.kind = params.kind /\ ps.limit = params.limit
          /\ ps.order = params.order /\ ps.group = text[pos + 2].word
        BY <1>6
    <2> HIDE DEF ps
    <2>3. ParamsOK(ps) /\ KindFits("clauses", ps.kind)
        BY <1>2, <1>5, <1>8, <2>1, <2>2, Zenon DEF ParamsOK
    <2> QED
        BY <1>1, <1>2, <1>3, <1>5, <2>1, <2>3, ParseKeeps
<1>10. CASE OrderClause
    <2>1. PICK d : /\ WordAt(pos, "ORDER") /\ KeyAt(pos)
                   /\ Parse("clauses", pos + 4,
                            [params EXCEPT !.order = text[pos + 2].word, !.desc = d], conds)
        <3> DEFINE d == \/ WordAt(pos + 3, "DESC")
                        \/ params.desc /\ ~WordAt(pos + 3, "ASC")
        <3>1. [params EXCEPT !.order = text[pos + 2].word,
                             !.desc = WordAt(pos + 3, "DESC") \/ (@ /\ ~WordAt(pos + 3, "ASC"))]
              = [params EXCEPT !.order = text[pos + 2].word, !.desc = d]
            BY <1>6
        <3> HIDE DEF d
        <3>2. Parse("clauses", pos + 4,
                    [params EXCEPT !.order = text[pos + 2].word, !.desc = d], conds)
            BY <1>10, <3>1 DEF OrderClause
        <3>3. WordAt(pos, "ORDER") /\ KeyAt(pos)
            BY <1>10, Zenon DEF OrderClause
        <3> QED
            BY <3>2, <3>3
    <2> DEFINE ps == [params EXCEPT !.order = text[pos + 2].word, !.desc = d]
    <2>2. /\ DOMAIN ps = DOMAIN params /\ ps.kind = params.kind /\ ps.limit = params.limit
          /\ ps.group = params.group /\ ps.order = text[pos + 2].word
        BY <1>6
    <2>4. Parse("clauses", pos + 4, ps, conds)
        BY <2>1
    <2> HIDE DEF ps
    <2>3. ParamsOK(ps) /\ KindFits("clauses", ps.kind)
        BY <1>2, <1>5, <1>8, <2>1, <2>2, Zenon DEF ParamsOK
    <2> QED
        BY <1>1, <1>2, <1>3, <1>5, <2>3, <2>4, ParseKeeps
<1>11. CASE LimitClause
    <2> DEFINE ps == [params EXCEPT !.limit = text[pos + 1].limit]
    <2>1. WordAt(pos, "LIMIT") /\ LimitAt(pos) /\ Parse("clauses", pos + 2, ps, conds)
        BY <1>11, Zenon DEF LimitClause
    <2>2. /\ DOMAIN ps = DOMAIN params /\ ps.kind = params.kind
          /\ ps.group = params.group /\ ps.order = params.order
          /\ ps.limit = text[pos + 1].limit
        BY <1>6
    <2> HIDE DEF ps
    <2>3. ps.limit \in Int
        <3>1. pos + 1 \in 1..Len(text) /\ "limit" \in DOMAIN text[pos + 1]
            BY <1>3, <2>1 DEF LimitAt
        <3> QED
            BY <2>2, <3>1 DEF TextInv, Words, LimitWords
    <2>4. ParamsOK(ps) /\ KindFits("clauses", ps.kind)
        BY <1>2, <1>5, <2>2, <2>3, Zenon DEF ParamsOK
    <2> QED
        BY <1>1, <1>2, <1>3, <1>5, <2>1, <2>4, ParseKeeps
<1>12. CASE SkipWord
    <2>1. Parse("clauses", pos + 1, params, conds)
        BY <1>12, Zenon DEF SkipWord
    <2> QED
        BY <1>1, <1>2, <1>3, <1>5, <2>1, ParseKeeps
<1>13. CASE EndText
    <2>1. Parse("load", pos, params, conds)
        BY <1>13, Zenon DEF EndText
    <2> QED
        BY <1>1, <1>2, <1>3, <1>5, <2>1, ParseKeeps
<1> QED
    BY <1>9, <1>10, <1>11, <1>12, <1>13

\* A step of the handler, or an answer, leaves the parameters and the conditions.
LEMMA KeepsParser ==
    ASSUME ParserInv, place' \notin Parsing, pos' = pos, params' = params, conds' = conds,
           KindFits(place', params.kind)
    PROVE  ParserInv'
<1>1. place' # "head" /\ place' # "where"
    BY DEF Parsing
<1> QED
    BY <1>1, Zenon DEF ParserInv, Fits, KindFits

\* Where the steps of the handler are taken, and where they lead.
LEMMA HandlerPlaces ==
    ASSUME Handler
    PROVE  /\ pos' = pos /\ params' = params /\ conds' = conds
           /\ \/ place = "load" /\ place' = IF params.kind = "COUNT" THEN "count" ELSE "rows"
              \/ place = "load" /\ place' = "end"
              \/ place = "rows" /\ place' = "rows"
              \/ place = "rows" /\ place' = IF params.kind = "GET" THEN "group" ELSE "write"
              \/ place \in {"rows", "write", "count", "answer"} /\ place' = "end"
              \/ place = "group" /\ place' = "order"
              \/ place = "order" /\ place' = "limit"
              \/ place = "limit" /\ place' = "project"
              \/ place = "project" /\ place' = "answer"
<1>1. CASE Load
    BY <1>1, Zenon DEF Load
<1>2. CASE TakeAll \/ EndRows
    BY <1>2, Zenon DEF TakeAll, EndRows, vars
<1>3. CASE EvaluateRow \/ EndRow
    BY <1>3, Zenon DEF EvaluateRow, EndRow, FirstCondition, NextCondition, parserVars
<1>4. CASE NoTable \/ RefuseRow \/ Overwrite \/ RefuseCount \/ CountRows \/ AnswerRows
    <2>1. pos' = pos /\ params' = params /\ UNCHANGED vars /\ place' = "end"
        BY <1>4, Zenon DEF NoTable, RefuseRow, Overwrite, RefuseCount, CountRows, AnswerRows,
                           Answer
    <2>2. \/ place = "load" \/ place = "rows" \/ place = "write" \/ place = "count"
          \/ place = "answer"
        BY <1>4, Zenon DEF NoTable, RefuseRow, Overwrite, RefuseCount, CountRows, AnswerRows
    <2> QED
        BY <2>1, <2>2 DEF vars
<1>5. CASE GroupRows \/ OrderRows \/ LimitRows \/ ProjectRows
    BY <1>5, Zenon DEF GroupRows, OrderRows, LimitRows, ProjectRows, vars
<1> QED
    BY <1>1, <1>2, <1>3, <1>4, <1>5, Zenon DEF Handler

\* The parser's part of the invariant is kept by every step.
LEMMA ParserStep == TextInv /\ ParserInv /\ [CommandNext]_commandVars => ParserInv'
<1> SUFFICES ASSUME TextInv, ParserInv, [CommandNext]_commandVars
             PROVE  ParserInv'
    OBVIOUS
<1>1. CASE UNCHANGED <<vars, parserVars, rowVars, answerVars>>
    <2>1. /\ UNCHANGED <<place, pos, params, conds, table, k, rows, i, refused>>
          /\ UNCHANGED <<groups, ignored, reply>>
        BY <1>1 DEF vars, parserVars, rowVars, answerVars
    <2>2. Fresh => Fresh'
        BY <2>1 DEF Fresh
    <2> QED
        BY <2>1, <2>2, Zenon DEF ParserInv
<1>2. CASE Parser
    <2>1. CASE RefuseText
        <3>1. place' = "end" /\ pos' = pos /\ params' = params /\ conds' = conds
            BY <2>1, Zenon DEF RefuseText, Answer, vars
        <3>2. place' \notin Parsing /\ KindFits(place', params.kind)
            BY <3>1 DEF Parsing, KindFits, Stages
        <3> QED
            BY <3>1, <3>2, KeepsParser
    <2> QED
        BY <1>2, <2>1, HeadSteps, WhereSteps, ClauseSteps, Zenon DEF Parser
<1>3. CASE Handler
    <2>1. KindFits(place, params.kind)
        BY DEF ParserInv
    <2>2. place' \notin Parsing /\ KindFits(place', params.kind)
        BY <1>3, <2>1, HandlerPlaces DEF Parsing, KindFits, Stages, Writes
    <2> QED
        BY <1>3, <2>2, HandlerPlaces, KeepsParser
<1>4. UNCHANGED commandVars => UNCHANGED <<vars, parserVars, rowVars, answerVars>>
    BY DEF commandVars
<1> QED
    BY <1>1, <1>2, <1>3, <1>4, Zenon DEF CommandNext, Server

\* Only COUNT's own text makes a COUNT.
LEMMA HeadedStep ==
    TextInv /\ ParserInv /\ Headed /\ [CommandNext]_commandVars => Headed'
<1> SUFFICES ASSUME TextInv, ParserInv, Headed, [CommandNext]_commandVars,
                    params'.kind = "COUNT"
             PROVE  WordAt(1, "COUNT")'
    BY DEF Headed
<1>1. CASE params' = params /\ text' = text
    BY <1>1 DEF Headed, WordAt
<1>2. CASE BuilderNext /\ UNCHANGED parserVars
    <2>1. params' = NoParams
        BY <1>2, BuilderSteps DEF TextInv, ParserInv, parserVars
    <2> QED
        BY <2>1, NoParamsFacts, Zenon
<1>3. ASSUME NEW np, NEW q, NEW ps, NEW cs, Parse(np, q, ps, cs)
      PROVE  params' = ps /\ text' = text
    BY <1>3, Zenon DEF Parse, builderVars
<1>4. CASE CountHead
    BY <1>4, <1>3, Zenon DEF CountHead, WordAt
<1>5. CASE GetHead \/ RemoveValue \/ RemoveWhere \/ ChangeAll \/ ChangeWhere
    <2>1. ASSUME GetHead PROVE params'.kind = "GET"
        <3>1. \E q, ps : Parse("clauses", q, ps, <<>>) /\ ps.kind = "GET"
            BY <2>1, HeadOfGet, Zenon
        <3> QED
            BY <3>1, <1>3
    <2>2. ASSUME RemoveValue \/ RemoveWhere PROVE params'.kind = "REMOVE"
        <3>1. params' = [NoParams EXCEPT !.kind = "REMOVE"]
            BY <2>2, <1>3, Zenon DEF RemoveValue, RemoveWhere
        <3> QED
            BY <3>1, HeadParams, Zenon
    <2>3. ASSUME ChangeAll \/ ChangeWhere PROVE params'.kind = "CHANGE"
        <3>1. params' = Assignment
            BY <2>3, <1>3, Zenon DEF ChangeAll, ChangeWhere
        <3>2. Assignment.kind = "CHANGE"
            BY HeadParams, ZenonT(40) DEF Assignment
        <3> QED
            BY <3>1, <3>2
    <2>4. params'.kind \in {"GET", "CHANGE", "REMOVE"}
        BY <1>5, <2>1, <2>2, <2>3
    <2> QED
        BY <2>4
<1>6. CASE GroupClause \/ OrderClause \/ LimitClause
    <2>1. /\ DOMAIN params = DOMAIN NoParams
          /\ {"group", "order", "desc", "limit"} \subseteq DOMAIN params
        BY NoParamsFacts DEF ParserInv, ParamsOK
    <2>2. ASSUME GroupClause PROVE params'.kind = params.kind
        <3>1. params' = [params EXCEPT !.group = text[pos + 2].word]
            BY <2>2, <1>3, Zenon DEF GroupClause
        <3> QED
            BY <2>1, <3>1, NoParamsFacts
    <2>3. ASSUME LimitClause PROVE params'.kind = params.kind
        <3>1. params' = [params EXCEPT !.limit = text[pos + 1].limit]
            BY <2>3, <1>3, Zenon DEF LimitClause
        <3> QED
            BY <2>1, <3>1, NoParamsFacts
    <2>4. ASSUME OrderClause PROVE params'.kind = params.kind
        <3>1. params' = [params EXCEPT !.order = text[pos + 2].word,
                            !.desc = WordAt(pos + 3, "DESC") \/ (@ /\ ~WordAt(pos + 3, "ASC"))]
            BY <2>4, <1>3, Zenon DEF OrderClause
        <3> QED
            BY <2>1, <3>1, NoParamsFacts
    <2>5. text' = text
        BY <1>6, <1>3, Zenon DEF GroupClause, OrderClause, LimitClause
    <2> QED
        BY <1>6, <2>2, <2>3, <2>4, <2>5 DEF Headed, WordAt
<1>7. CASE \/ WhereClause \/ MoreCondition \/ EndGetConditions \/ EndConditions
           \/ SkipWord \/ EndText
    <2>1. params' = params /\ text' = text
        BY <1>7, <1>3, Zenon
           DEF WhereClause, MoreCondition, EndGetConditions, EndConditions, SkipWord, EndText
    <2> QED
        BY <1>1, <2>1
<1>8. CASE RefuseText
    BY <1>1, <1>8, Zenon DEF RefuseText, Answer, builderVars
<1>9. CASE Handler
    <2>1. UNCHANGED builderVars
        BY <1>9, ServerKeepsText, Zenon DEF Server
    <2> QED
        BY <1>1, <1>9, <2>1, HandlerPlaces DEF builderVars
<1>10. CASE UNCHANGED commandVars
    BY <1>1, <1>10 DEF commandVars, builderVars, parserVars
<1> QED
    BY <1>2, <1>4, <1>5, <1>6, <1>7, <1>8, <1>9, <1>10, Zenon DEF CommandNext, Server, Parser

-----------------------------------------------------------------------------
(* The loop.                                                               *)

\* While the text is parsed the handler has nothing to keep.
LEMMA NothingYet == place' \in Parsing => HandlerInv'
<1> SUFFICES ASSUME place' \in Parsing
             PROVE  HandlerInv'
    OBVIOUS
<1>1. /\ place' \notin {"rows", "count", "write", "end"} \cup Stages
      /\ place' \notin {"rows", "write", "group"} /\ place' \notin Stages
      /\ place' # "end" /\ place' \notin Stages \ {"group"}
    BY DEF Parsing, Stages
<1>2. StageInv'
    BY <1>1, Zenon DEF StageInv, Stages
<1> QED
    BY <1>1, <1>2 DEF HandlerInv, OnlyVerdictRowsChange

\* At the end only the answers of COUNT, REMOVE and CHANGE are kept account of.
LEMMA AtTheEnd ==
    ASSUME place' = "end", OnlyVerdictRowsChange',
           params'.kind = "COUNT" /\ reply'.code = 0 => table' \in Table /\ CountInv'
    PROVE  HandlerInv'
<1>1. place' \notin {"rows", "count", "write"} \cup Stages
    BY DEF Stages
<1>2. StageInv'
    BY <1>1, Zenon DEF StageInv, Stages
<1> QED
    BY <1>1, <1>2 DEF HandlerInv

\* At another place it is enough to look at the part that is about it.
LEMMA AtAStage ==
    ASSUME place' \in {"write"} \cup Stages, table' \in Table, StageInv'
    PROVE  HandlerInv'
<1>1. place' # "rows" /\ place' # "end"
    BY DEF Stages
<1> QED
    BY <1>1 DEF HandlerInv, OnlyVerdictRowsChange

\* The rows of a table the server may hold.
LEMMA TableFacts ==
    ASSUME table \in Table
    PROVE  /\ Len(table) \in Nat /\ DOMAIN table = 1..Len(table)
           /\ \A n \in 1..Len(table) : table[n] \in [Field -> RowValue]
<1>1. table \in Seq([Field -> RowValue])
    BY RowAssumption, Zenon
<1> QED
    BY <1>1

\* The fold over the conditions of the next row begins.
LEMMA FoldBegins ==
    ASSUME Foldable(conds'), i' = 0, refused' \in BOOLEAN
    PROVE  IInv'
<1>1. i' \in 0..Len(conds') /\ ~(i' > 0) /\ ~(i' > 1)
    BY DEF Foldable
<1> QED
    BY <1>1 DEF IInv, TypeOK, SelectedSoFar, AndEndsTrue, DecidedByTheLast

\* The rows of a table are read.
LEMMA LoadStep ==
    ASSUME ParserInv, Load
    PROVE  HandlerInv'
<1>1. /\ place = "load" /\ table' \in Table
      /\ item' = IF table' = <<>> THEN NoRow ELSE table'[1]
      /\ place' = IF params.kind = "COUNT" THEN "count" ELSE "rows"
      /\ UNCHANGED <<conds, i, result, refused, builderVars, pos, params, k, rows,
                     groups, ignored, reply>>
    BY Zenon DEF Load
<1>2. Fresh /\ Fits(conds)
    BY <1>1 DEF ParserInv, Parsing
<1>3. /\ k' = 1 /\ rows' = <<>> /\ i' = 0 /\ refused' = FALSE
      /\ groups' = NoGroups /\ ignored' = 0 /\ reply' = NoReply /\ conds' = conds
    BY <1>1, <1>2 DEF Fresh
<1>4. conds' # <<>> => Foldable(conds')
    BY <1>2, <1>3 DEF Fits
<1>5. LoopInv'
    <2>1. table' \in Seq([Field -> RowValue])
        BY <1>1, RowAssumption, Zenon
    <2>2. Len(table') \in Nat /\ (table' = <<>> <=> Len(table') = 0)
        BY <2>1
    <2>3. conds' # <<>> => IInv'
        BY <1>3, <1>4, FoldBegins
    <2>4. {n \in 1..(k' - 1) : Selects(n)'} = {}
        BY <1>3
    <2>5. Enumerates(rows, {n \in 1..(k - 1) : Selects(n)})'
        BY <1>3, <2>4, EnumeratesEmpty
    <2>6. k' \in 1..(Len(table') + 1)
          /\ item' = IF k' <= Len(table') THEN table'[k'] ELSE NoRow
        BY <1>1, <1>3, <2>2
    <2>7. Rising(rows')
        BY <1>3 DEF Rising
    <2> QED
        BY <1>3, <2>3, <2>5, <2>6, <2>7 DEF LoopInv, Rising
<1>6. place' \in {"rows", "count"}
    BY <1>1
<1>7. StageInv'
    <2>1. place' \notin {"write", "group"} /\ place' \notin Stages
        BY <1>6 DEF Stages
    <2> QED
        BY <2>1, Zenon DEF StageInv, Stages
<1> QED
    BY <1>1, <1>5, <1>6, <1>7 DEF HandlerInv, OnlyVerdictRowsChange

\* The stage that follows the loop.
LEMMA AfterTheLoop ==
    ASSUME place' \in {"write", "group"}, table' \in Table, ignored' = 0,
           Enumerates(rows', Chosen'), Rising(rows')
    PROVE  HandlerInv'
<1>1. place' \notin Stages \ {"group"} /\ place' \notin {"limit", "project", "answer"}
      /\ place' # "order" /\ place' \in {"write"} \cup Stages
    BY DEF Stages
<1>2. Rising(rows)'
    BY DEF Rising
<1>3. StageInv'
    BY <1>1, <1>2, Zenon DEF StageInv
<1> QED
    BY <1>1, <1>3, AtAStage

\* What holds while the loop runs.
LEMMA InTheLoop ==
    ASSUME HandlerInv, place = "rows"
    PROVE  table \in Table /\ LoopInv
BY DEF HandlerInv

\* Without conditions every row is selected; at the end of the loop, the rows of it.
LEMMA LoopEnds ==
    ASSUME ParserInv, HandlerInv, TakeAll \/ EndRows
    PROVE  HandlerInv'
<1>1. place = "rows"
    BY DEF TakeAll, EndRows
<1>2. table \in Table /\ LoopInv /\ KindFits("rows", params.kind)
    BY <1>1, InTheLoop DEF ParserInv
<1>3. /\ table' = table /\ ignored' = ignored /\ conds' = conds
      /\ place' = IF params.kind = "GET" THEN "group" ELSE "write"
    BY DEF TakeAll, EndRows, vars, rowVars, answerVars
<1>4. Chosen' = Chosen
    BY <1>3 DEF Chosen, Selects
<1>5. Len(table) \in Nat /\ DOMAIN table = 1..Len(table)
    BY <1>2, TableFacts
<1>6. CASE TakeAll
    <2>1. conds = <<>> /\ rows' = [n \in DOMAIN table |-> n]
        BY <1>6 DEF TakeAll, Positions
    <2>2. Chosen = 1..Len(table)
        BY <1>5, <2>1 DEF Chosen, Selects
    <2>3. /\ rows' \in Seq(Chosen) /\ Len(rows') = Len(table)
          /\ \A n \in 1..Len(table) : rows'[n] = n
        BY <1>5, <2>1, <2>2
    <2>4. Enumerates(rows', Chosen) /\ Rising(rows')
        BY <2>2, <2>3 DEF Enumerates, Rising
    <2> QED
        BY <1>2, <1>3, <1>4, <2>4, AfterTheLoop DEF LoopInv
<1>7. CASE EndRows
    <2>1. k > Len(table) /\ rows' = rows
        BY <1>7 DEF EndRows, rowVars
    <2>2. k - 1 = Len(table)
        BY <1>2, <1>5, <2>1 DEF LoopInv
    <2>3. {n \in 1..(k - 1) : Selects(n)} = Chosen
        BY <1>5, <2>2 DEF Chosen
    <2>4. Enumerates(rows', Chosen) /\ Rising(rows')
        BY <1>2, <2>1, <2>3 DEF LoopInv
    <2> QED
        BY <1>2, <1>3, <1>4, <2>4, AfterTheLoop DEF LoopInv
<1> QED
    BY <1>6, <1>7

\* Inside the loop.
LEMMA StaysInTheLoop ==
    ASSUME place' = "rows", table' \in Table, LoopInv'
    PROVE  HandlerInv'
<1>1. place' \notin {"write", "group"} /\ place' \notin Stages
    BY DEF Stages
<1>2. StageInv'
    BY <1>1, Zenon DEF StageInv, Stages
<1> QED
    BY <1>1, <1>2 DEF HandlerInv, OnlyVerdictRowsChange

\* One more condition of the row.
LEMMA EvaluateStep ==
    ASSUME HandlerInv, EvaluateRow
    PROVE  HandlerInv'
<1>1. /\ place = "rows" /\ conds # <<>> /\ Next
      /\ UNCHANGED <<parserVars, rowVars, answerVars>>
    BY Zenon DEF EvaluateRow, Next
<1>2. table \in Table /\ LoopInv
    BY <1>1, InTheLoop
<1>3. IInv'
    BY <1>1, <1>2, StepIInv DEF LoopInv
<1>4. item' = item /\ conds' = conds
    BY <1>1, Zenon DEF Next, FirstCondition, NextCondition
<1>5. /\ place' = "rows" /\ table' = table /\ k' = k /\ rows' = rows
      /\ ignored' = ignored /\ reply' = reply
    BY <1>1 DEF parserVars, rowVars, answerVars
<1>6. {n \in 1..(k' - 1) : Selects(n)'} = {n \in 1..(k - 1) : Selects(n)}
    BY <1>4, <1>5 DEF Selects
<1>7. LoopInv'
    BY <1>2, <1>3, <1>4, <1>5, <1>6 DEF LoopInv, Rising
<1> QED
    BY <1>2, <1>5, <1>7, StaysInTheLoop

\* The row is taken, or not, and the next one comes with a bool of its own.
LEMMA EndRowStep ==
    ASSUME ParserInv, HandlerInv, EndRow
    PROVE  HandlerInv'
<1>1. /\ place = "rows" /\ k <= Len(table) /\ i > 0 /\ Done
      /\ rows' = IF result THEN Append(rows, k) ELSE rows
      /\ k' = k + 1
      /\ item' = IF k < Len(table) THEN table[k + 1] ELSE NoRow
      /\ i' = 0
      /\ UNCHANGED <<conds, refused, builderVars, parserVars, table, answerVars>>
    BY Zenon DEF EndRow
<1>2. table \in Table /\ LoopInv
    BY <1>1, InTheLoop
<1>3. Len(table) \in Nat /\ k \in 1..Len(table)
    BY <1>1, <1>2, TableFacts DEF LoopInv
<1>4. i = Len(conds) /\ ~refused /\ i > 0
    BY <1>1 DEF Done
<1>5. conds # <<>> /\ IInv
    <2>1. conds = <<>> => Len(conds) = 0
        OBVIOUS
    <2> QED
        BY <1>2, <1>4, <2>1 DEF LoopInv
<1>6. result = Selects(k)
    <2>1. result = Verdict(item, conds, i)
        BY <1>4, <1>5 DEF IInv, DecidedByTheLast
    <2>2. item = table[k]
        BY <1>2, <1>3 DEF LoopInv
    <2> QED
        BY <1>4, <1>5, <2>1, <2>2 DEF Selects, Verdict
<1> DEFINE S == {n \in 1..(k - 1) : Selects(n)}
           T == {n \in 1..k : Selects(n)}
<1>7. Enumerates(rows', T)
    <2>1. Enumerates(rows, S)
        BY <1>2 DEF LoopInv
    <2>2. k \notin S /\ T = IF Selects(k) THEN S \cup {k} ELSE S
        BY <1>3
    <2> HIDE DEF S, T
    <2>3. CASE Selects(k)
        BY <1>1, <1>6, <2>1, <2>2, <2>3, EnumeratesAppend
    <2>4. CASE ~Selects(k)
        BY <1>1, <1>6, <2>1, <2>2, <2>4
    <2> QED
        BY <2>3, <2>4
<1>8. /\ place' = "rows" /\ table' = table /\ conds' = conds /\ refused' = refused
      /\ ignored' = ignored /\ reply' = reply
    BY <1>1 DEF parserVars, answerVars
<1>9. {n \in 1..(k' - 1) : Selects(n)'} = T
    BY <1>1, <1>3, <1>8 DEF Selects
<1>10. conds' # <<>> => IInv'
    BY <1>1, <1>4, <1>5, <1>8, FoldBegins DEF IInv, TypeOK
<1>11. k' \in 1..(Len(table') + 1)
       /\ item' = IF k' <= Len(table') THEN table'[k'] ELSE NoRow
    BY <1>1, <1>3, <1>8
<1>12. Rising(rows')
    <2>1. rows \in Seq(S) /\ Len(rows) \in Nat /\ Rising(rows)
        BY <1>2 DEF LoopInv, Enumerates
    <2>2. \A n \in 1..Len(rows) : rows[n] < k
        BY <1>3, <2>1
    <2>3. CASE rows' = Append(rows, k)
        <3>1. /\ Len(rows') = Len(rows) + 1 /\ rows'[Len(rows) + 1] = k
              /\ \A n \in 1..Len(rows) : rows'[n] = rows[n]
            BY <2>1, <2>3
        <3> QED
            BY <2>1, <2>2, <3>1 DEF Rising
    <2> QED
        BY <1>1, <2>1, <2>3
<1> HIDE DEF S, T
<1>13. LoopInv'
    BY <1>2, <1>7, <1>8, <1>9, <1>10, <1>11, <1>12 DEF LoopInv, Rising
<1> QED
    BY <1>2, <1>8, <1>13, StaysInTheLoop

-----------------------------------------------------------------------------
(* REMOVE, CHANGE and COUNT, and refusals.                                 *)

\* An answer that says something went wrong.
LEMMA RefusalStep ==
    ASSUME RefuseText \/ NoTable \/ RefuseRow \/ RefuseCount
    PROVE  HandlerInv'
<1>1. place' = "end" /\ \E c \in {1, 3, 423} : reply' = [code |-> c]
    BY Zenon DEF RefuseText, NoTable, RefuseRow, RefuseCount, Answer
<1>2. reply'.code # 0
    BY <1>1
<1> QED
    BY <1>1, <1>2, AtTheEnd DEF OnlyVerdictRowsChange

\* REMOVE and CHANGE write the selected rows only.
LEMMA OverwriteStep ==
    ASSUME ParserInv, HandlerInv, Overwrite
    PROVE  HandlerInv'
<1> DEFINE taken == {rows[n] : n \in DOMAIN rows}
           kept == Among(Positions, DOMAIN table \ taken)
<1>1. /\ place = "write" /\ place' = "end"
      /\ stored' = IF params.kind = "REMOVE" THEN [n \in DOMAIN kept |-> table[kept[n]]]
                   ELSE [n \in DOMAIN table |-> IF n \in taken THEN Changed(table[n])
                                                ELSE table[n]]
      /\ reply' = [code |-> 0, count |-> Len(rows)]
      /\ UNCHANGED <<vars, builderVars, pos, params, rowVars, groups, ignored>>
    BY Zenon DEF Overwrite
<1>2. Enumerates(rows, Chosen) /\ params.kind \in Writes
    BY <1>1 DEF HandlerInv, StageInv, ParserInv, KindFits
<1>3. table' = table /\ conds' = conds /\ params' = params
    BY <1>1 DEF vars, rowVars
<1>4. Chosen' = Chosen /\ Positions' = Positions /\ \A n : Selects(n)' = Selects(n)
    BY <1>3 DEF Chosen, Selects, Positions
<1>5. taken = Chosen
    <2>1. DOMAIN rows = 1..Len(rows) /\ \A n \in DOMAIN rows : rows[n] \in Chosen
        BY <1>2 DEF Enumerates
    <2> QED
        BY <1>2, <2>1 DEF Enumerates
<1>6. DOMAIN table \ taken = {n \in DOMAIN table : ~Selects(n)}
    BY <1>5 DEF Chosen
<1>7. reply'.count = Cardinality(Chosen)
    BY <1>1, <1>2, EnumeratesCount
<1>8. params.kind = "REMOVE" =>
         stored' = LET S == Among(Positions, {n \in DOMAIN table : ~Selects(n)}) IN
                   [n \in DOMAIN S |-> table[S[n]]]
    BY <1>1, <1>6, Zenon
<1>9. ASSUME params.kind = "CHANGE"
      PROVE  stored' = [n \in DOMAIN table |->
                           [f \in Field |->
                               IF Selects(n) /\ f = Literal[params.field]
                               THEN [kind |-> "string", text |-> params.value]
                               ELSE table[n][f]]]
    <2>1. stored' = [n \in DOMAIN table |-> IF n \in taken THEN Changed(table[n]) ELSE table[n]]
        BY <1>1, <1>9
    <2>2. table \in Table
        BY <1>1 DEF HandlerInv
    <2>3. ASSUME NEW n \in DOMAIN table
          PROVE  (IF n \in taken THEN Changed(table[n]) ELSE table[n])
                    = [f \in Field |-> IF Selects(n) /\ f = Literal[params.field]
                                       THEN [kind |-> "string", text |-> params.value]
                                       ELSE table[n][f]]
        <3>1. table[n] \in [Field -> RowValue]
            BY <2>2, <2>3, TableFacts
        <3>2. n \in taken <=> Selects(n)
            BY <1>5 DEF Chosen
        <3> HIDE DEF taken
        <3> QED
            BY <3>1, <3>2 DEF Changed
    <2> HIDE DEF taken
    <2> QED
        BY <2>1, <2>3
<1> HIDE DEF taken, kept
<1>10. OnlyVerdictRowsChange'
    <2>1. reply'.count = Cardinality({n \in DOMAIN table' : Selects(n)'})
        BY <1>3, <1>4, <1>7 DEF Chosen
    <2>2. params'.kind = "REMOVE" =>
             stored' = LET S == Among(Positions', {n \in DOMAIN table' : ~Selects(n)'}) IN
                       [n \in DOMAIN S |-> table'[S[n]]]
        BY <1>3, <1>4, <1>8
    <2>3. params'.kind = "CHANGE" =>
             stored' = [n \in DOMAIN table' |->
                           [f \in Field |->
                               IF Selects(n)' /\ f = Literal[params'.field]
                               THEN [kind |-> "string", text |-> params'.value]
                               ELSE table'[n][f]]]
        BY <1>3, <1>4, <1>9
    <2> QED
        BY <2>1, <2>2, <2>3, Zenon DEF OnlyVerdictRowsChange
<1>11. params'.kind # "COUNT"
    BY <1>2, <1>3 DEF Writes
<1> QED
    BY <1>1, <1>10, <1>11, AtTheEnd

\* COUNT keeps the rows it has counted.
LEMMA CountStep ==
    ASSUME ParserInv, HandlerInv, CountRows
    PROVE  HandlerInv'
<1>1. /\ place = "count" /\ place' = "end" /\ Colon
      /\ rows' = Among(Positions,
                       {n \in DOMAIN table : Len(text) = 2 \/ Counted(table[n], text[3].field,
                                                                     text[3].value)})
      /\ UNCHANGED <<vars, builderVars, pos, params, table, k, groups, ignored, stored>>
    BY Zenon DEF CountRows
<1>2. table \in Table /\ params.kind = "COUNT"
    BY <1>1 DEF HandlerInv, ParserInv, KindFits
<1>3. table' = table /\ text' = text /\ params' = params
    BY <1>1 DEF builderVars
<1>4. CountInv'
    BY <1>1, <1>3 DEF CountInv, Colon, Positions
<1>5. OnlyVerdictRowsChange'
    BY <1>2, <1>3 DEF OnlyVerdictRowsChange
<1> QED
    BY <1>1, <1>2, <1>3, <1>4, <1>5, AtTheEnd

\* A GET answers.
LEMMA AnswerStep ==
    ASSUME ParserInv, AnswerRows
    PROVE  HandlerInv'
<1>1. place = "answer" /\ place' = "end" /\ params' = params
    BY Zenon DEF AnswerRows, Answer
<1>2. params.kind = "GET"
    BY <1>1 DEF ParserInv, KindFits, Stages
<1> QED
    BY <1>1, <1>2, AtTheEnd DEF OnlyVerdictRowsChange

-----------------------------------------------------------------------------
(* The stages of GET.                                                      *)

\* What a stage of GET finds.
LEMMA AtStage ==
    ASSUME HandlerInv, place \in Stages
    PROVE  table \in Table /\ StageInv
BY DEF HandlerInv

\* What a step that leaves the table and the parameters leaves.
LEMMA SameRows ==
    ASSUME table' = table, conds' = conds, params' = params
    PROVE  /\ Chosen' = Chosen /\ Listed' = Listed /\ Held' = Held
           /\ Grouped' = Grouped /\ Ordered' = Ordered
           /\ \A r : InOrder(r)' = InOrder(r)
           /\ \A r, X : BestOf(r, X)' = BestOf(r, X)
<1>1. Chosen' = Chosen /\ Grouped' = Grouped /\ Ordered' = Ordered
    BY DEF Chosen, Selects, Grouped, Ordered
<1>2. \A n : Sortable(n)' = Sortable(n)
    BY DEF Sortable
<1>3. \A m, n : Comes(m, n)' = Comes(m, n)
    BY <1>1 DEF Comes, Before
<1>4. \A r : InOrder(r)' = InOrder(r)
    BY <1>3 DEF InOrder
<1>5. Listed' = Listed
    BY <1>1, <1>2 DEF Listed
<1>6. Held' = Held
    BY DEF Held
<1>7. \A L : Through(L)' = Through(L)
    BY <1>3, <1>5 DEF Through
<1>8. \A r, X : BestOf(r, X)' = BestOf(r, X)
    BY <1>4, <1>7 DEF BestOf
<1> QED
    BY <1>1, <1>4, <1>5, <1>6, <1>8

\* The groups of an answer are left by the stages behind them.
LEMMA SameGroups ==
    ASSUME table' = table, conds' = conds, params' = params, groups' = groups,
           ignored' = ignored, GroupsInv
    PROVE  GroupsInv'
<1>1. Chosen' = Chosen
    BY SameRows
<1>2. \A n : GroupKey(table[n], params.group)' = GroupKey(table[n], params.group)
    BY DEF GroupKey
<1> QED
    BY <1>1, <1>2 DEF GroupsInv

\* The groups hold the selected rows by their keys.
LEMMA GroupStep ==
    ASSUME HandlerInv, GroupRows
    PROVE  HandlerInv'
<1> DEFINE key(n) == GroupKey(table[n], params.group)
<1>1. /\ place = "group" /\ place' = "order"
      /\ UNCHANGED <<vars, builderVars, pos, params, table, k, ignored, stored, reply>>
      /\ ~Grouped => rows' = rows /\ groups' = groups
      /\ Grouped => groups' = [g \in {key(rows[n]) : n \in DOMAIN rows} |->
                                  Among(rows, {n \in DOMAIN table : key(n) = g})]
    BY Zenon DEF GroupRows, Grouped
<1>2. table \in Table /\ Enumerates(rows, Chosen) /\ Rising(rows) /\ ignored = 0
    BY <1>1, AtStage DEF Stages, StageInv
<1>3. table' = table /\ conds' = conds /\ params' = params
    BY <1>1 DEF vars
<1>4. Chosen' = Chosen /\ Grouped' = Grouped
    BY <1>3, SameRows
<1>5. ASSUME Grouped PROVE GroupsInv'
    <2>1. \A n \in 1..Len(rows) : rows[n] \in Chosen
        BY <1>2 DEF Enumerates
    <2>2. DOMAIN rows = 1..Len(rows) /\ \A x \in Chosen : \E n \in 1..Len(rows) : rows[n] = x
        BY <1>2 DEF Enumerates
    <2> HIDE DEF key
    <2>3. {key(rows[n]) : n \in DOMAIN rows} = {key(n) : n \in Chosen}
        BY <2>1, <2>2
    <2>4. DOMAIN groups' = {key(n) : n \in Chosen}
        BY <1>1, <1>5, <2>3
    <2>5. ASSUME NEW g \in DOMAIN groups'
          PROVE  Enumerates(groups'[g], {n \in Chosen : key(n) = g})
        <3>1. groups'[g] = Among(rows, {n \in DOMAIN table : key(n) = g})
            BY <1>1, <1>5, <2>3, <2>5
        <3>2. {n \in Chosen : key(n) = g} = Chosen \cap {n \in DOMAIN table : key(n) = g}
            BY DEF Chosen
        <3> QED
            BY <1>2, <3>1, <3>2, EnumeratesAmong
    <2>6. \A n : GroupKey(table[n], params.group)' = key(n)
        BY <1>3 DEF key, GroupKey
    <2> QED
        BY <1>1, <1>2, <1>4, <2>4, <2>5, <2>6 DEF GroupsInv
<1>6. ASSUME ~Grouped PROVE Enumerates(rows', Chosen') /\ Rising(rows)' /\ ignored' = 0
    BY <1>1, <1>2, <1>4, <1>6 DEF Rising
<1>7. StageInv'
    BY <1>1, <1>4, <1>5, <1>6 DEF StageInv, Stages
<1> QED
    BY <1>1, <1>2, <1>3, <1>7, AtAStage DEF Stages

\* Two sets of rows and what is left out.
LEMMA LeftOut ==
    ASSUME NEW S, NEW T, T \subseteq S, NEW s, Enumerates(s, S), NEW t, Enumerates(t, T)
    PROVE  Len(s) - Len(t) = Cardinality(S \ T)
<1>1. IsFiniteSet(S) /\ Cardinality(S) = Len(s) /\ Len(s) \in Nat
    BY EnumeratesCount
<1>2. Cardinality(T) = Len(t) /\ Len(t) \in Nat
    BY EnumeratesCount
<1>3. S \cap T = T
    OBVIOUS
<1>4. Cardinality(S \ T) = Cardinality(S) - Cardinality(S \cap T)
    BY <1>1, FS_Difference
<1> QED
    BY <1>1, <1>2, <1>3, <1>4

\* Without ORDER BY the order is that of the table.
LEMMA RisingInOrder ==
    ASSUME table \in Table, NEW r, Enumerates(r, Chosen), Rising(r), ~Ordered
    PROVE  InOrder(r)
<1>1. Len(r) \in Nat /\ \A n \in 1..Len(r) : r[n] \in Chosen
    BY DEF Enumerates
<1>2. Chosen \subseteq Int
    BY TableFacts DEF Chosen
<1>3. \A n \in 1..Len(r) : r[n] \in Int
    BY <1>1, <1>2
<1> QED
    BY <1>3 DEF Rising, InOrder, Comes

\* The rows are sorted, those without the key counted.
LEMMA OrderStep ==
    ASSUME HandlerInv, OrderRows
    PROVE  HandlerInv'
<1> DEFINE present == Among(rows, {n \in DOMAIN table : Sortable(n)})
<1>1. /\ place = "order" /\ place' = "limit"
      /\ UNCHANGED <<vars, builderVars, pos, params, table, k, groups, stored, reply>>
      /\ ~Grouped /\ Ordered => /\ ignored' = Len(rows) - Len(present)
                                /\ rows' \in Sortings(present)
      /\ ~(~Grouped /\ Ordered) => rows' = rows /\ ignored' = ignored
    BY Zenon DEF OrderRows, Grouped, Ordered, IsArray
<1>2. table \in Table /\ StageInv
    BY <1>1, AtStage DEF Stages
<1>3. table' = table /\ conds' = conds /\ params' = params /\ groups' = groups
    BY <1>1 DEF vars
<1>4. /\ Chosen' = Chosen /\ Listed' = Listed /\ Grouped' = Grouped /\ Ordered' = Ordered
      /\ \A r : InOrder(r)' = InOrder(r)
    BY <1>3, SameRows
<1>5. ASSUME Grouped PROVE GroupsInv'
    BY <1>1, <1>2, <1>3, <1>5, SameGroups DEF StageInv, Stages
<1>6. ASSUME ~Grouped
      PROVE  /\ Enumerates(rows', Listed) /\ InOrder(rows')
             /\ ignored' = Cardinality(Chosen \ Listed)
    <2>1. Enumerates(rows, Chosen) /\ Rising(rows) /\ ignored = 0
        BY <1>1, <1>2, <1>6 DEF StageInv
    <2>2. CASE ~Ordered
        <3>1. Listed = Chosen
            BY <2>2 DEF Listed
        <3>2. Chosen \ Listed = {} /\ Cardinality({}) = 0
            BY <3>1, FS_EmptySet
        <3>3. InOrder(rows)
            BY <1>2, <2>1, <2>2, RisingInOrder
        <3> QED
            BY <1>1, <2>1, <2>2, <3>1, <3>2, <3>3
    <2>3. CASE Ordered
        <3>1. Listed = Chosen \cap {n \in DOMAIN table : Sortable(n)}
            BY <2>3 DEF Listed, Chosen
        <3>2. Enumerates(present, Listed)
            BY <2>1, <3>1, EnumeratesAmong
        <3>3. ignored' = Len(rows) - Len(present) /\ rows' \in Sortings(present)
            BY <1>1, <1>6, <2>3
        <3> HIDE DEF present
        <3>4. ignored' = Cardinality(Chosen \ Listed)
            <4>1. Listed \subseteq Chosen
                BY DEF Listed
            <4> QED
                BY <2>1, <3>2, <3>3, <4>1, LeftOut
        <3>5. DOMAIN present = 1..Len(present) /\ Len(present) \in Nat
              /\ {present[n] : n \in DOMAIN present} \subseteq Listed
            BY <3>2 DEF Enumerates
        <3>6. /\ rows' \in [1..Len(present) -> {present[n] : n \in DOMAIN present}]
              /\ \A m, n \in 1..Len(present) :
                    m < n => rows'[m] # rows'[n] /\ ~Before(rows'[n], rows'[m])
            BY <3>3, <3>5, Zenon DEF Sortings
        <3>7. rows' \in [1..Len(present) -> Listed]
            BY <3>5, <3>6
        <3>8. \A m, n \in 1..Len(present) : rows'[m] = rows'[n] => m = n
            BY <3>5, <3>6
        <3>9. Enumerates(rows', Listed) /\ Len(rows') = Len(present)
            BY <3>2, <3>7, <3>8, EnumeratesSorted
        <3>10. InOrder(rows')
            BY <2>3, <3>6, <3>9 DEF InOrder, Comes
        <3> QED
            BY <3>4, <3>9, <3>10
    <2> QED
        BY <2>2, <2>3
<1>7. StageInv'
    BY <1>1, <1>4, <1>5, <1>6 DEF StageInv, Stages
<1> QED
    BY <1>1, <1>2, <1>3, <1>7, AtAStage DEF Stages

\* A positive limit keeps the first rows.
LEMMA LimitStep ==
    ASSUME ParserInv, HandlerInv, LimitRows
    PROVE  HandlerInv'
<1>1. /\ place = "limit" /\ place' = "project"
      /\ UNCHANGED <<vars, builderVars, pos, params, table, k, answerVars>>
      /\ rows' = IF ~Grouped /\ params.limit > 0 /\ Len(rows) > params.limit
                 THEN SubSeq(rows, 1, params.limit) ELSE rows
    BY Zenon DEF LimitRows, Grouped, IsArray
<1>2. table \in Table /\ StageInv
    BY <1>1, AtStage DEF Stages
<1>3. /\ table' = table /\ conds' = conds /\ params' = params /\ groups' = groups
      /\ ignored' = ignored
    BY <1>1 DEF vars, answerVars
<1>4. /\ Chosen' = Chosen /\ Listed' = Listed /\ Grouped' = Grouped
      /\ \A r, X : BestOf(r, X)' = BestOf(r, X)
    BY <1>3, SameRows
<1>5. ASSUME Grouped PROVE GroupsInv'
    BY <1>1, <1>2, <1>3, <1>5, SameGroups DEF StageInv, Stages
<1>6. ASSUME ~Grouped PROVE BestOf(rows', Listed) /\ ignored' = Cardinality(Chosen \ Listed)
    <2>1. Enumerates(rows, Listed) /\ InOrder(rows) /\ ignored = Cardinality(Chosen \ Listed)
        BY <1>1, <1>2, <1>6 DEF StageInv
    <2>2. Cardinality(Listed) = Len(rows) /\ Len(rows) \in Nat
        BY <2>1, EnumeratesCount
    <2>3. CASE ~(params.limit > 0 /\ Len(rows) > params.limit)
        <3>1. Through(Listed)
            BY <2>2, <2>3 DEF Through
        <3>2. Listed \cap Listed = Listed
            OBVIOUS
        <3>3. rows' = rows
            BY <1>1, <2>3
        <3> QED
            BY <1>3, <2>1, <3>1, <3>2, <3>3 DEF BestOf
    <2>4. CASE params.limit > 0 /\ Len(rows) > params.limit
        <3> DEFINE l == params.limit
                   L == {rows[m] : m \in 1..l}
        <3>1. rows \in Seq(Listed) /\ l \in Int
            BY <2>1 DEF Enumerates, ParserInv, ParamsOK
        <3>2. l \in 1..Len(rows) /\ rows' = SubSeq(rows, 1, l) /\ l > 0
            BY <1>1, <1>6, <2>2, <2>4, <3>1
        <3> HIDE DEF l
        <3>3. Len(rows') = l /\ \A m \in 1..l : rows'[m] = rows[m] /\ m \in 1..Len(rows)
            BY <2>2, <3>1, <3>2
        <3>4. L \subseteq Listed /\ L \cap Listed = L
            BY <3>1, <3>3
        <3>5. Enumerates(rows', L)
            <4>1. rows' \in Seq(L)
                <5>1. rows' \in Seq(Listed) /\ \A m \in 1..Len(rows') : rows'[m] \in L
                    BY <3>1, <3>2, <3>3
                <5>2. rows' = [m \in 1..Len(rows') |-> rows'[m]] /\ Len(rows') \in Nat
                    BY <5>1
                <5> QED
                    BY <5>1, <5>2
            <4>2. \A m, n \in 1..Len(rows') : rows'[m] = rows'[n] => m = n
                BY <2>1, <3>3 DEF Enumerates
            <4>3. \A x \in L : \E m \in 1..Len(rows') : rows'[m] = x
                BY <3>3
            <4> HIDE DEF L
            <4> QED
                BY <4>1, <4>2, <4>3 DEF Enumerates
        <3>6. Cardinality(L) = l
            BY <3>3, <3>5, EnumeratesCount
        <3>7. ASSUME NEW x \in Listed \ L, NEW y \in L PROVE ~Comes(x, y)
            <4>1. PICK n \in 1..Len(rows) : rows[n] = x
                BY <2>1 DEF Enumerates
            <4>2. PICK m \in 1..l : rows[m] = y
                OBVIOUS
            <4>3. n \notin 1..l
                BY <3>7, <4>1
            <4>4. m < n /\ m \in 1..Len(rows)
                BY <2>2, <3>1, <3>2, <4>3
            <4> QED
                BY <2>1, <4>1, <4>2, <4>4 DEF InOrder
        <3>8. InOrder(rows')
            BY <2>1, <3>3 DEF InOrder
        <3> HIDE DEF L
        <3>9. Through(L)
            BY <2>2, <2>4, <3>4, <3>6, <3>7 DEF Through, l
        <3> QED
            BY <1>3, <2>1, <3>4, <3>5, <3>8, <3>9 DEF BestOf
    <2> QED
        BY <2>3, <2>4
<1>7. StageInv'
    BY <1>1, <1>4, <1>5, <1>6 DEF StageInv, Stages
<1> QED
    BY <1>1, <1>2, <1>3, <1>7, AtAStage DEF Stages

\* What is in order stays so when rows are left out.
LEMMA AmongInOrder ==
    ASSUME NEW S, NEW r \in Seq(S), InOrder(r), NEW X
    PROVE  InOrder(Among(r, X))
<1> DEFINE q == Among(r, X)
<1>1. PICK f : q \in Seq(S) /\ Follows(q, r, X, Len(r), f)
    BY AmongFacts
<1> HIDE DEF q
<1>2. /\ \A n \in 1..Len(q) : f[n] \in 1..Len(r) /\ q[n] = r[f[n]]
      /\ \A m, n \in 1..Len(q) : m < n => f[m] < f[n]
    BY <1>1 DEF Follows
<1>3. InOrder(q)
    BY <1>2 DEF InOrder
<1> QED
    BY <1>3 DEF q

\* The rows that have the field asked for remain.
LEMMA ProjectStep ==
    ASSUME HandlerInv, ProjectRows
    PROVE  HandlerInv'
<1> DEFINE X == {n \in DOMAIN table : Holds(table[n], params.fields)}
<1>1. /\ place = "project" /\ place' = "answer"
      /\ UNCHANGED <<vars, builderVars, pos, params, table, k, answerVars>>
      /\ rows' = IF params.fields # "*" /\ ~Grouped THEN Among(rows, X) ELSE rows
    BY Zenon DEF ProjectRows, Grouped, IsArray
<1>2. table \in Table /\ StageInv
    BY <1>1, AtStage DEF Stages
<1>3. /\ table' = table /\ conds' = conds /\ params' = params /\ groups' = groups
      /\ ignored' = ignored
    BY <1>1 DEF vars, answerVars
<1>4. /\ Chosen' = Chosen /\ Listed' = Listed /\ Held' = Held /\ Grouped' = Grouped
      /\ \A r, S : BestOf(r, S)' = BestOf(r, S)
    BY <1>3, SameRows
<1>5. ASSUME Grouped PROVE GroupsInv'
    BY <1>1, <1>2, <1>3, <1>5, SameGroups DEF StageInv, Stages
<1>6. ASSUME ~Grouped PROVE BestOf(rows', Held) /\ ignored' = Cardinality(Chosen \ Listed)
    <2>1. BestOf(rows, Listed) /\ ignored = Cardinality(Chosen \ Listed)
        BY <1>1, <1>2, <1>6 DEF StageInv
    <2>2. PICK L : Through(L) /\ Enumerates(rows, L \cap Listed)
        BY <2>1 DEF BestOf
    <2>3. L \cap Listed = L /\ L \subseteq DOMAIN table
        BY <2>2 DEF Through, Listed, Chosen
    <2>4. Enumerates(rows, L) /\ InOrder(rows)
        BY <2>1, <2>2, <2>3 DEF BestOf
    <2>5. CASE params.fields = "*"
        <3>1. Held = DOMAIN table
            BY <2>5 DEF Held
        <3>2. L \cap Held = L
            BY <2>3, <3>1
        <3> QED
            BY <1>1, <1>3, <2>1, <2>2, <2>4, <2>5, <3>2 DEF BestOf
    <2>6. CASE params.fields # "*"
        <3>1. Held = X
            BY <2>6 DEF Held
        <3> HIDE DEF X
        <3>2. Enumerates(rows', L \cap Held)
            BY <1>1, <1>6, <2>4, <2>6, <3>1, EnumeratesAmong
        <3>3. rows \in Seq(L)
            BY <2>4 DEF Enumerates
        <3>4. InOrder(rows')
            BY <1>1, <1>6, <2>4, <2>6, <3>3, AmongInOrder
        <3> QED
            BY <1>3, <2>1, <2>2, <3>2, <3>4 DEF BestOf
    <2> QED
        BY <2>5, <2>6
<1>7. StageInv'
    BY <1>1, <1>4, <1>5, <1>6 DEF StageInv, Stages
<1> QED
    BY <1>1, <1>2, <1>3, <1>7, AtAStage DEF Stages

-----------------------------------------------------------------------------
(* The invariant.                                                          *)

\* The handler's part is kept by every step.
LEMMA HandlerStep ==
    TextInv /\ ParserInv /\ HandlerInv /\ [CommandNext]_commandVars => HandlerInv'
<1> SUFFICES ASSUME TextInv, ParserInv, HandlerInv, [CommandNext]_commandVars
             PROVE  HandlerInv'
    OBVIOUS
<1>1. CASE BuilderNext /\ UNCHANGED <<vars, parserVars, rowVars, answerVars>>
    <2>1. place' = "head"
        BY <1>1, BuilderSteps DEF TextInv, parserVars
    <2> QED
        BY <2>1, NothingYet DEF Parsing
<1>2. CASE Parser
    <2>1. ASSUME Parser, ~RefuseText PROVE place' \in Parsing
        BY <2>1, Zenon DEF Parser, GetHead, RemoveValue, RemoveWhere, ChangeAll, ChangeWhere,
           CountHead, WhereClause, MoreCondition, EndGetConditions, EndConditions, GroupClause,
           OrderClause, LimitClause, SkipWord, EndText, Parse, Parsing
    <2> QED
        BY <1>2, <2>1, NothingYet, RefusalStep
<1>3. CASE Handler
    BY <1>3, LoadStep, LoopEnds, EvaluateStep, EndRowStep, RefusalStep, OverwriteStep,
       CountStep, GroupStep, OrderStep, LimitStep, ProjectStep, AnswerStep, Zenon DEF Handler
<1>4. CASE UNCHANGED commandVars
    <2>1. /\ UNCHANGED <<vars, text, place, params, table, k, rows, groups>>
          /\ UNCHANGED <<ignored, stored, reply>> /\ conds' = conds /\ item' = item
        BY <1>4 DEF commandVars, vars, builderVars, parserVars, rowVars, answerVars
    <2>2. /\ Chosen' = Chosen /\ Listed' = Listed /\ Held' = Held
          /\ Grouped' = Grouped /\ \A r : InOrder(r)' = InOrder(r)
          /\ \A r, X : BestOf(r, X)' = BestOf(r, X)
        BY <2>1, SameRows
    <2>3. \A n : Selects(n)' = Selects(n)
        BY <2>1 DEF Selects
    <2>4. StageInv'
        BY <2>1, <2>2, SameGroups DEF HandlerInv, StageInv, Rising, Stages
    <2>5. IInv => IInv'
        BY <2>1, StepIInv
    <2>6. LoopInv => LoopInv'
        BY <2>1, <2>3, <2>5 DEF LoopInv, Rising
    <2>7. CountInv => CountInv'
        BY <2>1 DEF CountInv, Colon, Positions
    <2>8. OnlyVerdictRowsChange'
        <3>1. OnlyVerdictRowsChange /\ Positions' = Positions
            BY <2>1 DEF HandlerInv, Positions
        <3> QED
            BY <2>1, <2>3, <3>1 DEF OnlyVerdictRowsChange
    <2> QED
        BY <2>1, <2>4, <2>6, <2>7, <2>8 DEF HandlerInv, Stages
<1> QED
    BY <1>1, <1>2, <1>3, <1>4, Zenon DEF CommandNext, Server

\* Before the first call there is nothing.
LEMMA CommandInitInv == CommandInit => CommandInv
<1> SUFFICES ASSUME CommandInit PROVE CommandInv
    OBVIOUS
<1>1. /\ command = <<>> /\ text = <<>> /\ place = "head" /\ pos = 1 /\ params = NoParams
      /\ conds = <<>> /\ i = 0 /\ refused = FALSE /\ table = <<>> /\ k = 1 /\ rows = <<>>
      /\ groups = NoGroups /\ ignored = 0 /\ reply = NoReply
    BY Zenon DEF CommandInit, BuilderInit
<1>2. \E C : <<>> \in Seq(C)
    OBVIOUS
<1>3. Phrase(<<>>)
    <2>1. <<>> \in Seq({}) /\ \A p \in 1..Len(<<>>) : Plain(<<>>[p])
        OBVIOUS
    <2> QED
        BY <2>1, PlainPhrase
<1>4. TextInv
    BY <1>1, <1>3 DEF TextInv, Phrase
<1>5. ParserInv
    <2>1. Fits(conds) /\ Fresh
        BY <1>1 DEF Fits, Fresh
    <2>2. ParamsOK(params) /\ params.kind \notin {"GET", "COUNT", "REMOVE", "CHANGE"}
        BY <1>1, NoParamsFacts, Zenon DEF ParamsOK
    <2>3. pos \in Nat \ {0} /\ place # "where"
        BY <1>1
    <2>4. KindFits(place, params.kind)
        BY <1>1 DEF KindFits, Stages
    <2> QED
        BY <1>1, <1>2, <2>1, <2>2, <2>3, <2>4, Zenon DEF ParserInv
<1>6. Headed
    BY <1>1, NoParamsFacts, Zenon DEF Headed
<1>7. HandlerInv
    <2>1. /\ place \notin {"rows", "count", "write", "end"} \cup Stages /\ place # "end"
          /\ place # "rows" /\ place \notin {"write", "group"}
        BY <1>1 DEF Stages
    <2>2. StageInv
        BY <2>1, Zenon DEF StageInv, Stages
    <2> QED
        BY <2>1, <2>2 DEF HandlerInv, OnlyVerdictRowsChange
<1> QED
    BY <1>4, <1>5, <1>6, <1>7 DEF CommandInv

\* The invariant.
THEOREM CommandInvariance == CommandSpec => []CommandInv
<1>1. CommandInv /\ [CommandNext]_commandVars => CommandInv'
    BY TextStep, ParserStep, HeadedStep, HandlerStep, Zenon DEF CommandInv
<1> QED
    BY <1>1, CommandInitInv, PTL DEF CommandSpec

\* REMOVE takes away, and CHANGE touches, exactly the rows whose own verdict says so
\* (RemoveCommandHandler.h, ChangeCommandHandler.h).
THEOREM OnlyVerdictRowsEverChange == CommandSpec => []OnlyVerdictRowsChange
<1>1. CommandInv => OnlyVerdictRowsChange
    BY DEF CommandInv, HandlerInv
<1> QED
    BY <1>1, CommandInvariance, PTL

\* What a GET that does not group is about to answer.
LEMMA AnswerFacts ==
    ASSUME CommandInv, place = "answer", IsArray
    PROVE  /\ InOrder(rows) /\ DOMAIN rows = 1..Len(rows)
           /\ \A m, n \in 1..Len(rows) : rows[m] = rows[n] => m = n
           /\ \E L : Through(L) /\ \A n : Answered(n) <=> n \in L \cap Held
           /\ ignored = Cardinality(Chosen \ Listed)
<1>1. ~Grouped
    BY Zenon DEF IsArray, Grouped
<1>2. table \in Table /\ StageInv
    BY AtStage DEF CommandInv, Stages
<1>3. BestOf(rows, Held) /\ ignored = Cardinality(Chosen \ Listed)
    BY <1>1, <1>2 DEF StageInv
<1>4. PICK L : Through(L) /\ Enumerates(rows, L \cap Held)
    BY <1>3 DEF BestOf
<1>5. DOMAIN rows = 1..Len(rows) /\ \A n : Answered(n) <=> n \in L \cap Held
    BY <1>4 DEF Enumerates, Answered
<1>6. \A m, n \in 1..Len(rows) : rows[m] = rows[n] => m = n
    BY <1>4 DEF Enumerates
<1> QED
    BY <1>3, <1>4, <1>5, <1>6 DEF BestOf

\* The rows of a sorted answer are in order, and a limit leaves out no row that comes
\* before one it lets through (executeQuery, GetCommandHandler.h).
THEOREM BestRowsAlwaysFirst == CommandSpec => []BestRowsFirst
<1>1. CommandInv => BestRowsFirst
    <2> SUFFICES ASSUME CommandInv, place = "answer", IsArray, Ordered
                 PROVE  /\ \A m, n \in DOMAIN rows : m < n => ~Before(rows[n], rows[m])
                        /\ \A n \in DOMAIN table :
                              (/\ Selects(n) /\ Sortable(n) /\ ~Answered(n)
                               /\ params.fields # "*" => Holds(table[n], params.fields))
                                 => \A m \in DOMAIN rows : ~Before(n, rows[m])
        BY Zenon DEF BestRowsFirst, Ordered
    <2>1. InOrder(rows) /\ DOMAIN rows = 1..Len(rows)
        BY AnswerFacts
    <2>2. PICK L : Through(L) /\ \A n : Answered(n) <=> n \in L \cap Held
        BY AnswerFacts
    <2>3. \A m, n \in DOMAIN rows : m < n => ~Before(rows[n], rows[m])
        BY <2>1 DEF InOrder, Comes
    <2>4. ASSUME NEW n \in DOMAIN table, Selects(n), Sortable(n), ~Answered(n),
                 params.fields # "*" => Holds(table[n], params.fields)
          PROVE  \A m \in DOMAIN rows : ~Before(n, rows[m])
        <3>1. n \in Listed \cap Held
            BY <2>4 DEF Listed, Chosen, Held
        <3>2. n \in Listed \ L
            BY <2>2, <2>4, <3>1
        <3>3. \A m \in DOMAIN rows : rows[m] \in L
            BY <2>2 DEF Answered
        <3> QED
            BY <2>2, <3>2, <3>3 DEF Through, Comes
    <2> QED
        BY <2>3, <2>4
<1> QED
    BY <1>1, CommandInvariance, PTL

\* Every row a GET selects is answered once, or a stage accounts for it
\* (executeQuery, applyGroupBy, applyOrderBy, applyProjection, GetCommandHandler.h).
THEOREM RowsAlwaysAccountedFor == CommandSpec => []RowsAccountedFor
<1>1. ASSUME CommandInv, place = "answer", IsArray
      PROVE  /\ \A m, n \in DOMAIN rows : m # n => rows[m] # rows[n]
             /\ \E L \in SUBSET Listed :
                   /\ IF params.limit > 0 /\ Cardinality(Listed) > params.limit
                      THEN Cardinality(L) = params.limit ELSE L = Listed
                   /\ \A m \in Listed \ L, n \in L : ~Comes(m, n)
                   /\ \A n \in DOMAIN table : Answered(n) <=> n \in L /\ n \in Held
             /\ ignored = Cardinality(Chosen \ Listed)
    <2>1. /\ \A m, n \in DOMAIN rows : m # n => rows[m] # rows[n]
          /\ ignored = Cardinality(Chosen \ Listed)
        BY <1>1, AnswerFacts
    <2>2. PICK L : Through(L) /\ \A n : Answered(n) <=> n \in L \cap Held
        BY <1>1, AnswerFacts
    <2> QED
        BY <2>1, <2>2 DEF Through
<1>2. ASSUME CommandInv, place = "answer", ~IsArray
      PROVE  /\ ignored = 0
             /\ \A n \in DOMAIN table :
                   Cardinality({g \in DOMAIN groups :
                                   \E m \in DOMAIN groups[g] : groups[g][m] = n})
                      = (IF Selects(n) THEN 1 ELSE 0)
    <2> DEFINE key(n) == GroupKey(table[n], params.group)
               In(n) == {g \in DOMAIN groups : \E m \in DOMAIN groups[g] : groups[g][m] = n}
    <2>1. GroupsInv
        <3>1. Grouped /\ StageInv /\ place \in Stages \ {"group"}
            BY <1>2, Zenon DEF IsArray, Grouped, CommandInv, HandlerInv, Stages
        <3> QED
            BY <3>1, Zenon DEF StageInv
    <2>2. ignored = 0 /\ DOMAIN groups = {key(n) : n \in Chosen}
        BY <2>1 DEF GroupsInv
    <2>3. \A g \in DOMAIN groups : Enumerates(groups[g], {n \in Chosen : key(n) = g})
        BY <2>1 DEF GroupsInv
    <2> HIDE DEF key
    <2>4. \A n : \A g \in DOMAIN groups :
             (\E m \in DOMAIN groups[g] : groups[g][m] = n) <=> (n \in Chosen /\ key(n) = g)
        <3> TAKE n
        <3> TAKE g \in DOMAIN groups
        <3> DEFINE G == {x \in Chosen : key(x) = g}
        <3>1. Enumerates(groups[g], G)
            BY <2>3
        <3>2. n \in G <=> (n \in Chosen /\ key(n) = g)
            OBVIOUS
        <3> HIDE DEF G
        <3>3. DOMAIN groups[g] = 1..Len(groups[g])
            BY <3>1 DEF Enumerates
        <3> QED
            BY <3>1, <3>2, <3>3 DEF Enumerates
    <2>5. ASSUME NEW n \in DOMAIN table
          PROVE  Cardinality(In(n)) = IF Selects(n) THEN 1 ELSE 0
        <3>1. CASE Selects(n)
            <4>1. n \in Chosen
                BY <3>1 DEF Chosen
            <4>2. In(n) = {key(n)}
                BY <2>2, <2>4, <4>1
            <4> QED
                BY <3>1, <4>2, FS_Singleton
        <3>2. CASE ~Selects(n)
            <4>1. In(n) = {}
                BY <2>4, <3>2 DEF Chosen
            <4> QED
                BY <3>2, <4>1, FS_EmptySet
        <3> QED
            BY <3>1, <3>2
    <2> QED
        BY <2>2, <2>5
<1>3. CommandInv => RowsAccountedFor
    <2>1. Listed = {n \in DOMAIN table : Selects(n) /\ ~(params.order # "" /\ ~Sortable(n))}
        BY DEF Listed, Chosen, Ordered
    <2>2. Chosen \ Listed
             = {n \in DOMAIN table : Selects(n) /\ (params.order # "" /\ ~Sortable(n))}
        BY DEF Listed, Chosen, Ordered
    <2>3. \A n \in DOMAIN table :
             n \in Held <=> ~(params.fields # "*" /\ ~Holds(table[n], params.fields))
        BY DEF Held
    <2>4. \A m, n : Comes(m, n) = IF params.order = "" THEN m < n ELSE Before(m, n)
        BY DEF Comes, Ordered
    <2> QED
        BY <1>1, <1>2, <2>1, <2>2, <2>3, <2>4, Zenon DEF RowsAccountedFor
<1> QED
    BY <1>3, CommandInvariance, PTL

-----------------------------------------------------------------------------
(* Keys, and the order of values.                                          *)

Rank(v) == Dump(v)[1]

\* The dump of a value tells its kind, and its text.
LEMMA DumpFacts ==
    ASSUME NEW v \in RowValue
    PROVE  /\ v.kind = "absent" => Dump(v) = <<3, 0>>
           /\ v.kind # "absent" => /\ Dump(v) = <<Rank(v), v.text>> /\ Rank(v) \in 0..2
                                   /\ v.text \in Int
           /\ v.kind = "string" <=> Rank(v) = 0
           /\ v.kind = "number" <=> Rank(v) = 1
           /\ v.kind = "array" <=> Rank(v) = 2
           /\ v.kind = "number" => v.val \in Int
<1>1. v.kind \in {"absent", "string", "number", "array"}
    BY ValueAssumption
<1>2. v.kind # "absent" => v.text \in Int
    BY ValueAssumption, TextAssumption
<1>3. v.kind = "number" => v.val \in Int
    BY ValueAssumption
<1>4. /\ v.kind = "string" => Dump(v) = <<0, v.text>>
      /\ v.kind = "number" => Dump(v) = <<1, v.text>>
      /\ v.kind = "array" => Dump(v) = <<2, v.text>>
      /\ v.kind = "absent" => Dump(v) = <<3, 0>>
    BY DEF Dump
<1> QED
    BY <1>1, <1>2, <1>3, <1>4 DEF Rank

\* What two rows with the same key have in it.
LEMMA KeysApart ==
    ASSUME NEW r \in [Field -> RowValue], NEW s \in [Field -> RowValue], NEW f \in Field,
           GroupKey(r, f) = GroupKey(s, f)
    PROVE  \/ r[f] = s[f] \/ {r[f].kind, s[f].kind} = {"absent"}
           \/ \A t \in {r, s} : \/ t[f].kind = "absent" /\ ~t[f].null
                                \/ t[f].kind = "string" /\ t[f].text = Undefined
<1> DEFINE Lost(v) == v.kind = "absent" /\ ~v.null /\ f \notin Nested
           u == [kind |-> "string", text |-> Undefined]
<1>1. r[f] \in RowValue /\ s[f] \in RowValue
    OBVIOUS
<1>2. \A t : GroupKey(t, f) = IF Lost(t[f]) THEN Dump(u) ELSE Dump(t[f])
    BY DEF GroupKey
<1>3. Dump(u) = <<0, Undefined>>
    BY DEF Dump
<1> HIDE DEF u
<1>4. ASSUME NEW v \in RowValue, Dump(v) = <<0, Undefined>>
      PROVE  v.kind = "string" /\ v.text = Undefined
    BY <1>4, DumpFacts DEF Rank
<1>5. ASSUME NEW v \in RowValue, NEW w \in RowValue, Dump(v) = Dump(w)
      PROVE  v = w \/ {v.kind, w.kind} = {"absent"}
    <2>1. CASE v.kind = "absent"
        BY <1>5, <2>1, DumpFacts
    <2>2. CASE v.kind # "absent"
        <3>1. w.kind # "absent"
            BY <1>5, <2>2, DumpFacts
        <3>2. v.text = w.text /\ Rank(v) = Rank(w)
            BY <1>5, <2>2, <3>1, DumpFacts
        <3>3. v.kind = w.kind
            BY <2>2, <3>1, <3>2, DumpFacts, ValueAssumption
        <3> QED
            BY <2>2, <3>2, <3>3, ValueAssumption
    <2> QED
        BY <2>1, <2>2
<1>6. CASE Lost(r[f]) /\ Lost(s[f])
    BY <1>6
<1>7. CASE Lost(r[f]) /\ ~Lost(s[f])
    BY <1>1, <1>2, <1>3, <1>4, <1>7
<1>8. CASE ~Lost(r[f]) /\ Lost(s[f])
    BY <1>1, <1>2, <1>3, <1>4, <1>8
<1>9. CASE ~Lost(r[f]) /\ ~Lost(s[f])
    BY <1>1, <1>2, <1>5, <1>9
<1> QED
    BY <1>6, <1>7, <1>8, <1>9

\* Two rows share a group only when the key is equal in both, or absent in both, or one
\* lacks a plain key and the other holds the text undefined (applyGroupBy,
\* GetCommandHandler.h).
THEOREM GroupsAlwaysKeepValuesApart == CommandSpec => []GroupsKeepValuesApart
<1>1. ASSUME CommandInv, place = "answer", ~IsArray, NEW g \in DOMAIN groups,
             NEW m \in DOMAIN groups[g], NEW n \in DOMAIN groups[g]
      PROVE  LET Key(r) == table[groups[g][r]][params.group] IN
             \/ Key(m) = Key(n) \/ {Key(m).kind, Key(n).kind} = {"absent"}
             \/ \A r \in {m, n} :
                   \/ Key(r).kind = "absent" /\ ~Key(r).null
                   \/ Key(r).kind = "string" /\ Key(r).text = Undefined
    <2>1. Grouped /\ StageInv /\ place \in Stages \ {"group"} /\ table \in Table
        BY <1>1, Zenon DEF IsArray, Grouped, CommandInv, HandlerInv, Stages
    <2>2. GroupsInv
        BY <2>1, Zenon DEF StageInv
    <2>3. params.group \in Field
        BY <1>1, <2>1, Zenon DEF CommandInv, ParserInv, ParamsOK, Keyed, Grouped
    <2> DEFINE G == {x \in Chosen : GroupKey(table[x], params.group) = g}
    <2>4. Enumerates(groups[g], G)
        BY <2>2 DEF GroupsInv
    <2>5. groups[g][m] \in G /\ groups[g][n] \in G
        BY <1>1, <2>4 DEF Enumerates
    <2>6. /\ table[groups[g][m]] \in [Field -> RowValue]
          /\ table[groups[g][n]] \in [Field -> RowValue]
        BY <2>1, <2>5, TableFacts DEF Chosen
    <2>7. GroupKey(table[groups[g][m]], params.group)
             = GroupKey(table[groups[g][n]], params.group)
        BY <2>5
    <2> HIDE DEF G
    <2> DEFINE f == params.group
               Odd(v) == \/ v.kind = "absent" /\ ~v.null
                         \/ v.kind = "string" /\ v.text = Undefined
    <2>8. ASSUME NEW r \in [Field -> RowValue], NEW s \in [Field -> RowValue],
                 GroupKey(r, f) = GroupKey(s, f)
          PROVE  r[f] = s[f] \/ {r[f].kind, s[f].kind} = {"absent"} \/ (Odd(r[f]) /\ Odd(s[f]))
        <3> HIDE DEF f
        <3>1. f \in Field
            BY <2>3 DEF f
        <3> QED
            BY <2>8, <3>1, KeysApart
    <2> DEFINE a == table[groups[g][m]]
               b == table[groups[g][n]]
    <2>9. a[f] = b[f] \/ {a[f].kind, b[f].kind} = {"absent"} \/ (Odd(a[f]) /\ Odd(b[f]))
        <3> HIDE DEF Odd
        <3> QED
            BY <2>6, <2>7, <2>8
    <2>10. Odd(a[f]) /\ Odd(b[f]) => \A r \in {m, n} : Odd(table[groups[g][r]][f])
        <3> HIDE DEF Odd
        <3> QED
            OBVIOUS
    <2> QED
        BY <2>9, <2>10, Zenon
<1>2. CommandInv => GroupsKeepValuesApart
    BY <1>1, Zenon DEF GroupsKeepValuesApart
<1> QED
    BY <1>2, CommandInvariance, PTL

\* Precedes orders the values that are there, numbers by value and the others by dump.
LEMMA PrecedesIsStrictWeak ==
    ASSUME NEW a \in RowValue, NEW b \in RowValue, NEW c \in RowValue,
           a.kind # "absent", b.kind # "absent", c.kind # "absent"
    PROVE  /\ ~Precedes(a, a)
           /\ Precedes(a, b) /\ Precedes(b, c) => Precedes(a, c)
           /\ (~Precedes(a, b) /\ ~Precedes(b, a) /\ ~Precedes(b, c) /\ ~Precedes(c, b))
                  => ~Precedes(a, c) /\ ~Precedes(c, a)
<1> DEFINE S == {v \in RowValue : v.kind # "absent"}
<1>1. ASSUME NEW v \in S, NEW w \in S
      PROVE  Precedes(v, w) <=>
                IF Rank(v) = 1 /\ Rank(w) = 1 THEN v.val < w.val
                ELSE Rank(v) < Rank(w) \/ (Rank(v) = Rank(w) /\ v.text < w.text)
    <2>1. Dump(v) = <<Rank(v), v.text>> /\ Dump(w) = <<Rank(w), w.text>>
        BY DumpFacts
    <2>2. (v.kind = "number" <=> Rank(v) = 1) /\ (w.kind = "number" <=> Rank(w) = 1)
        BY DumpFacts
    <2> QED
        BY <2>1, <2>2 DEF Precedes
<1>2. \A v \in S : Rank(v) \in 0..2 /\ v.text \in Int /\ (Rank(v) = 1 => v.val \in Int)
    BY DumpFacts
<1>3. a \in S /\ b \in S /\ c \in S
    OBVIOUS
<1> HIDE DEF S
<1> QED
    BY <1>1, <1>2, <1>3

\* The comparator of std::sort is a strict order whose ties are an equivalence
\* (applyOrderBy, GetCommandHandler.h).
THEOREM SortIsAlwaysStrictWeak == CommandSpec => []SortIsStrictWeak
<1>1. CommandInv => SortIsStrictWeak
    <2> DEFINE S == {n \in DOMAIN table : Sortable(n)}
               Tie(a, b) == ~Before(a, b) /\ ~Before(b, a)
    <2> SUFFICES ASSUME CommandInv, place = "order", IsArray, Ordered,
                        NEW a \in S, NEW b \in S, NEW c \in S
                 PROVE  /\ ~Before(a, a)
                        /\ Before(a, b) /\ Before(b, c) => Before(a, c)
                        /\ Tie(a, b) /\ Tie(b, c) => Tie(a, c)
        BY Zenon DEF SortIsStrictWeak, Ordered
    <2>1. table \in Table /\ params.order \in Field
        BY Zenon DEF CommandInv, HandlerInv, ParserInv, ParamsOK, Keyed, Ordered, Stages
    <2>2. \A n \in S : /\ table[n][params.order] \in RowValue
                       /\ table[n][params.order].kind # "absent"
        BY <2>1, TableFacts DEF Sortable
    <2>3. \A m, n : Before(m, n) <=>
             IF params.desc THEN Precedes(table[n][params.order], table[m][params.order])
             ELSE Precedes(table[m][params.order], table[n][params.order])
        BY DEF Before
    <2> HIDE DEF S
    <2> DEFINE x == table[a][params.order]
               y == table[b][params.order]
               z == table[c][params.order]
    <2>4. /\ x \in RowValue /\ y \in RowValue /\ z \in RowValue
          /\ x.kind # "absent" /\ y.kind # "absent" /\ z.kind # "absent"
        BY <2>2
    <2>5. /\ ~Precedes(x, x)
          /\ Precedes(x, y) /\ Precedes(y, z) => Precedes(x, z)
          /\ Precedes(z, y) /\ Precedes(y, x) => Precedes(z, x)
          /\ (~Precedes(x, y) /\ ~Precedes(y, x) /\ ~Precedes(y, z) /\ ~Precedes(z, y))
                  => ~Precedes(x, z) /\ ~Precedes(z, x)
        BY <2>4, PrecedesIsStrictWeak
    <2> QED
        BY <2>3, <2>5
<1> QED
    BY <1>1, CommandInvariance, PTL

\* COUNT t k:v, with a plain k, counts no row that GET with WHERE k IS v would not
\* select, except those whose k is null; and all of them when v is not a number
\* (CountCommandHandler.h, ConditionUtils.h).
THEOREM CountAlwaysAgreesWithWhere == CommandSpec => []CountAgreesWithWhere
<1>1. CommandInv => CountAgreesWithWhere
    <2> DEFINE f == text[3].field
               t == text[3].value
               cond == [field |-> f, op |-> "==", value |-> t]
               Found(n) == evaluateCondition(table[n], cond) = Evaluated(TRUE)
               Null(n) == table[n][f].kind = "absent" /\ table[n][f].null
    <2> SUFFICES ASSUME CommandInv, place = "end", reply.code = 0, params.kind = "COUNT",
                        Len(text) = 3, NEW n \in DOMAIN table, f \notin Nested, ~Null(n)
                 PROVE  /\ Answered(n) => Found(n)
                        /\ (Found(n) /\ t \notin DOMAIN NumberOf) => Answered(n)
        BY Zenon DEF CountAgreesWithWhere
    <2>1. table \in Table /\ CountInv /\ WordAt(1, "COUNT")
        BY DEF CommandInv, HandlerInv, Headed
    <2>2. f \in Field /\ Literal[f] = f
        <3>1. CountWord(text[3]) /\ "field" \in DOMAIN text[3]
            BY <2>1 DEF CommandInv, TextInv, Words, CountWords, WordAt, CountInv, Colon
        <3> QED
            BY <3>1, RowAssumption, Zenon DEF CountWord
    <2>3. /\ DOMAIN table = 1..Len(table) /\ Len(table) \in Nat
          /\ table[n] \in [Field -> RowValue]
        BY <2>1, TableFacts
    <2> DEFINE v == table[n][f]
    <2>4. v \in RowValue
        BY <2>2, <2>3
    <2>5. Answered(n) <=> Counted(table[n], f, t)
        <3> DEFINE X == {m \in DOMAIN table : Len(text) = 2 \/ Counted(table[m], f, t)}
        <3>1. n \in X <=> Counted(table[n], f, t)
            OBVIOUS
        <3>2. rows = Among(Positions, X)
            BY <2>1 DEF CountInv
        <3> HIDE DEF X
        <3>3. Positions \in Seq(Nat) /\ Len(Positions) = Len(table)
              /\ \A p \in 1..Len(table) : Positions[p] = p
            BY <2>3 DEF Positions
        <3>4. /\ rows \in Seq(Nat) /\ \A m \in 1..Len(rows) : rows[m] \in X
              /\ \A p \in 1..Len(table) : p \in X => \E m \in 1..Len(rows) : rows[m] = p
            <4>1. /\ rows \in Seq(Nat) /\ \A m \in 1..Len(rows) : rows[m] \in X
                  /\ \A p \in 1..Len(Positions) :
                        Positions[p] \in X => \E m \in 1..Len(rows) : rows[m] = Positions[p]
                <5> DEFINE q == Among(Positions, X)
                <5>1. /\ q \in Seq(Nat)
                      /\ \A m \in 1..Len(q) :
                            /\ q[m] \in X
                            /\ \E p \in 1..Len(Positions) : q[m] = Positions[p]
                      /\ \A p \in 1..Len(Positions) :
                            Positions[p] \in X => \E m \in 1..Len(q) : q[m] = Positions[p]
                    BY <3>3, AmongElements
                <5> QED
                    BY <3>2, <5>1
            <4> QED
                BY <3>3, <4>1
        <3>5. DOMAIN rows = 1..Len(rows)
            BY <3>4
        <3> QED
            BY <2>3, <3>1, <3>4, <3>5 DEF Answered
    <2>6. Counted(table[n], f, t) <=> v.kind # "absent" /\ v.text = t
        BY <2>2 DEF Counted, Holds
    <2>7. /\ v.kind = "number" => v.text \in DOMAIN NumberOf /\ v.val = NumberOf[v.text]
          /\ v.kind = "number" => v.val \in Int
        BY <2>4, ValueAssumption
    <2>8. \A b \in BOOLEAN : (Evaluated(b) = Evaluated(TRUE)) <=> b
        BY DEF Evaluated
    <2>9. ASSUME NEW x, NEW y
          PROVE  Evaluated(Compare("==", x, y)) = Evaluated(TRUE) <=> x = y
        <3>1. Compare("==", x, y) <=> x = y
            BY DEF Compare
        <3>2. Compare("==", x, y) \in BOOLEAN
            BY CompareType
        <3> QED
            BY <2>8, <3>1, <3>2, Zenon
    <2>11. cond.field = f /\ cond.op = "==" /\ cond.value = t
        OBVIOUS
    <2> HIDE DEF f, t, cond
    <2>12. NotEvaluable # Evaluated(TRUE)
        <3>1. NotEvaluable.ok = FALSE /\ Evaluated(TRUE).ok = TRUE
            BY DEF NotEvaluable, Evaluated
        <3> QED
            BY <3>1
    <2>13. CASE v.kind = "absent"
        <3>1. evaluateCondition(table[n], cond) = NotEvaluable
            BY <2>11, <2>13 DEF evaluateCondition
        <3> QED
            BY <2>5, <2>6, <2>12, <2>13, <3>1
    <2>14. CASE v.kind = "number" /\ t \in DOMAIN NumberOf
        <3>1. evaluateCondition(table[n], cond) = Evaluated(Compare("==", v.val, NumberOf[t]))
            BY <2>11, <2>14 DEF evaluateCondition, Order
        <3>2. Found(n) <=> v.val = NumberOf[t]
            BY <3>1, <2>9, Zenon
        <3> QED
            BY <2>5, <2>6, <2>7, <2>14, <3>2
    <2>15. CASE v.kind # "absent" /\ ~(v.kind = "number" /\ t \in DOMAIN NumberOf)
        <3>1. evaluateCondition(table[n], cond) = Evaluated(Compare("==", v.text, t))
            BY <2>11, <2>15 DEF evaluateCondition
        <3>2. Found(n) <=> v.text = t
            BY <3>1, <2>9, Zenon
        <3> QED
            BY <2>5, <2>6, <2>15, <3>2
    <2> QED
        BY <2>13, <2>14, <2>15
<1> QED
    BY <1>1, CommandInvariance, PTL

-----------------------------------------------------------------------------
(* The refusal of a second WHERE.                                          *)

\* start says where each call of the client has put its words: a call of where()
\* four, and WHERE nobody else.
Laid(start) ==
    /\ \E C : calls \in Seq(C)
    /\ start \in Seq(Nat) /\ Len(start) = Len(calls)
    /\ \A n \in 1..Len(calls) : start[n] \in 1..Len(command)
    /\ \A m, n \in 1..Len(calls) : m < n => start[m] < start[n]
    /\ \A n \in 1..Len(calls) :
          calls[n].call = "where" =>
              start[n] + 4 = IF n = Len(calls) THEN Len(command) + 1 ELSE start[n + 1]
    /\ \A p \in 1..Len(command) :
          command[p] = W("WHERE") =>
              \E n \in 1..Len(calls) : start[n] = p /\ calls[n].call = "where"
                                       /\ calls[n].word = "WHERE"

\* What has arrived is a beginning of what was built.
Arrived == Cuts(text, command)

\* Two WHERE with more between them than the words of the first.
WhereAt(p) == p \in 1..Len(text) /\ text[p] = W("WHERE")
TwoWheres == \E p, q \in 1..Len(text) : WhereAt(p) /\ WhereAt(q) /\ p + 5 <= q

\* The parser is behind a WHERE that has given its condition; the word that ended
\* the conditions was passed over.
BehindWhere ==
    /\ place = "where" /\ params.kind = "GET" =>
          \E p \in 1..Len(text) : WhereAt(p) /\ p + 4 <= pos
    /\ place = "clauses" /\ conds # <<>> =>
          \E p \in 1..Len(text) : WhereAt(p) /\ p + 5 <= pos

SecondWhere == \E n \in 2..Len(conds) : JoinsNothing(conds[n])

RefusalInv ==
    /\ \E start : Laid(start)
    /\ Arrived /\ BehindWhere
    /\ (SecondWhere \/ refused \/ reply.code = 3) => TwoWheres

\* The words that a call adds: WHERE stands nowhere but in front of a condition.
Quiet(x) == x # W("WHERE")
Other(call) == "call" \in DOMAIN call /\ call.call # "where"
Told(call, words) ==
    /\ "call" \in DOMAIN call
    /\ \E C : words \in Seq(C)
    /\ Len(words) >= 1 /\ (call.call = "where" => Len(words) = 4)
    /\ \A p \in 1..Len(words) :
          words[p] = W("WHERE") => p = 1 /\ call.call = "where" /\ call.word = "WHERE"

\* Words, values and numbers other than WHERE.
LEMMA QuietWords ==
    /\ \A x : x # "WHERE" => Quiet(W(x))
    /\ \A v : Quiet(V(v)) /\ Quiet([limit |-> v])
    /\ \A f, v : Quiet([field |-> f, value |-> v])
<1>1. \A x : W(x).word = x /\ DOMAIN W(x) = {"word"}
    BY DEF W
<1>2. \A v : DOMAIN V(v) = {"value"} /\ DOMAIN [limit |-> v] = {"limit"}
    BY DEF V
<1>3. \A f, v : "field" \in DOMAIN [field |-> f, value |-> v]
    OBVIOUS
<1>4. "value" \notin {"word"} /\ "limit" \notin {"word"} /\ "field" \notin {"word"}
    OBVIOUS
<1> QED
    BY <1>1, <1>2, <1>3, <1>4 DEF Quiet

\* A call with one to four words, none of them WHERE.
LEMMA ToldQuietly ==
    ASSUME NEW call, Other(call), NEW a, NEW b, NEW c, NEW d,
           Quiet(a), Quiet(b), Quiet(c), Quiet(d)
    PROVE  /\ Told(call, <<a>>) /\ Told(call, <<a, b>>) /\ Told(call, <<a, b, c>>)
           /\ Told(call, <<a, b, c, d>>)
<1>1. ASSUME NEW s, \E C : s \in Seq(C), Len(s) \in 1..4, \A p \in 1..Len(s) : Quiet(s[p])
      PROVE  Told(call, s)
    BY <1>1, SMTT(30) DEF Told, Quiet, Other
<1> DEFINE C == {a, b, c, d}
<1>2. /\ <<a>> \in Seq(C) /\ <<a, b>> \in Seq(C)
      /\ <<a, b, c>> \in Seq(C) /\ <<a, b, c, d>> \in Seq(C)
    OBVIOUS
<1>3. \A s \in Seq(C) : \A p \in 1..Len(s) : Quiet(s[p])
    OBVIOUS
<1>4. \A s \in Seq(C) : \E D : s \in Seq(D)
    OBVIOUS
<1>5. /\ Len(<<a>>) = 1 /\ Len(<<a, b>>) = 2
      /\ Len(<<a, b, c>>) = 3 /\ Len(<<a, b, c, d>>) = 4
    OBVIOUS
<1> HIDE DEF C
<1>6. ASSUME NEW s \in Seq(C), Len(s) \in 1..4
      PROVE  Told(call, s)
    BY <1>1, <1>3, <1>4, <1>6
<1>7. 1 \in 1..4 /\ 2 \in 1..4 /\ 3 \in 1..4 /\ 4 \in 1..4
    OBVIOUS
<1> QED
    BY <1>2, <1>5, <1>6, <1>7, Zenon

\* A call of where().
LEMMA ToldWhere ==
    ASSUME NEW word, NEW x, NEW y, NEW z, x # "WHERE", y # "WHERE", NEW call,
           "call" \in DOMAIN call, call.call = "where", call.word = word
    PROVE  Told(call, <<W(word), W(x), W(y), V(z)>>)
<1> DEFINE s == <<W(word), W(x), W(y), V(z)>>
<1>1. s \in Seq({W(word), W(x), W(y), V(z)}) /\ Len(s) = 4
    OBVIOUS
<1>2. s[1] = W(word) /\ s[2] = W(x) /\ s[3] = W(y) /\ s[4] = V(z)
    OBVIOUS
<1>3. W(word) = W("WHERE") => word = "WHERE"
    BY DEF W
<1>4. Quiet(W(x)) /\ Quiet(W(y)) /\ Quiet(V(z))
    BY QuietWords
<1> HIDE DEF s
<1>5. \A p \in 1..Len(s) : s[p] = W("WHERE") => p = 1 /\ word = "WHERE"
    <2>1. \A p \in 1..Len(s) : p = 1 \/ p = 2 \/ p = 3 \/ p = 4
        BY <1>1
    <2> QED
        BY <1>2, <1>3, <1>4, <2>1 DEF Quiet
<1>6. Told(call, s)
    BY <1>1, <1>5 DEF Told
<1> QED
    BY <1>6 DEF s

\* Three words, and a fourth.
LEMMA LongerByOne ==
    ASSUME NEW x, NEW y, NEW z
    PROVE  /\ <<x, y, z>> \o <<>> = <<x, y, z>>
           /\ \A v : <<x, y, z>> \o <<v>> = <<x, y, z, v>>
<1>1. ASSUME NEW C, NEW s \in Seq(C)
      PROVE  s \o <<>> = s
    OBVIOUS
<1>2. ASSUME NEW v
      PROVE  <<x, y, z>> \o <<v>> = <<x, y, z, v>>
    <2> DEFINE C == {x, y, z, v}  s == <<x, y, z>> \o <<v>>  t == <<x, y, z, v>>
    <2>1. <<x, y, z>> \in Seq(C) /\ <<v>> \in Seq(C) /\ t \in Seq(C)
        OBVIOUS
    <2>2. s \in Seq(C)
        BY <2>1
    <2>3. Len(s) = 4 /\ Len(t) = 4
        BY <2>1
    <2>4. s[1] = x /\ s[2] = y /\ s[3] = z /\ s[4] = v
        BY <2>1
    <2>5. t[1] = x /\ t[2] = y /\ t[3] = z /\ t[4] = v
        OBVIOUS
    <2> HIDE DEF s, t, C
    <2>6. \A p \in 1..4 : s[p] = t[p]
        BY <2>4, <2>5
    <2>7. s = t
        BY <2>2, <2>1, <2>3, <2>6
    <2> QED
        BY <2>7 DEF s, t
<1>3. <<x, y, z>> \in Seq({x, y, z})
    OBVIOUS
<1> QED
    BY <1>1, <1>2, <1>3

\* Each call tells its words, or the command is sent.
LEMMA ClientSteps ==
    ASSUME BuilderNext
    PROVE  \/ \E call, words : Say(call, words) /\ Told(call, words)
           \/ /\ calls' = calls /\ command' = command
              /\ Cut(text')
<1> DEFINE Tells == \E call, words : Say(call, words) /\ Told(call, words)
<1>w. \A x : x # "WHERE" => Quiet(W(x))
    BY QuietWords
<1>q. \A call, a, b, c, d :
          Other(call) /\ Quiet(a) /\ Quiet(b) /\ Quiet(c) /\ Quiet(d) =>
              /\ Told(call, <<a>>) /\ Told(call, <<a, b>>) /\ Told(call, <<a, b, c>>)
              /\ Told(call, <<a, b, c, d>>)
    BY ToldQuietly
<1>1. ASSUME Select PROVE Tells
    <2>1. PICK f \in SelectArg : Say([call |-> "select", fields |-> f], <<W("GET"), W(f)>>)
        BY <1>1, Zenon DEF Select
    <2>2. f # "WHERE" /\ Other([call |-> "select", fields |-> f])
        BY NameAssumption DEF Other
    <2> QED
        BY <2>1, <2>2, <1>w, <1>q
<1>2. ASSUME Change \/ Remove PROVE Tells
    <2>1. PICK call, word : /\ Say(call, <<W(word)>>) /\ Other(call) /\ word # "WHERE"
        <3>1. Other([call |-> "change"]) /\ Other([call |-> "remove"])
            BY DEF Other
        <3>2. "CHANGE" # "WHERE" /\ "REMOVE" # "WHERE"
            OBVIOUS
        <3> QED
            BY <1>2, <3>1, <3>2, Zenon DEF Change, Remove
    <2> QED
        BY <2>1, <1>w, <1>q
<1>3. ASSUME From \/ As PROVE Tells
    <2>1. PICK call, word, name :
             /\ Say(call, <<W(word), W(name)>>) /\ Other(call)
             /\ word # "WHERE" /\ name # "WHERE"
        <3>1. (\A t : Other([call |-> "from", table |-> t])) /\ Other([call |-> "as"])
            BY DEF Other
        <3>2. /\ "IN" # "WHERE" /\ "AS" # "WHERE" /\ "alias" # "WHERE"
              /\ \A t \in TableArg : t # "WHERE"
            BY NameAssumption
        <3> QED
            BY <1>3, <3>1, <3>2, Zenon DEF From, As
    <2> QED
        BY <2>1, <1>w, <1>q
<1>4. ASSUME Where \/ WriteWhere PROVE Tells
    <2>1. PICK word \in {"WHERE", "AND", "OR"}, a \in WhereArg \cup WriteArg :
             SayWhere(word, a)
        BY <1>4, Zenon DEF Where, WriteWhere
    <2> DEFINE call == [call |-> "where", word |-> word, field |-> a[1], op |-> a[2],
                        value |-> a[3]]
    <2>2. "call" \in DOMAIN call /\ call.call = "where" /\ call.word = word
        OBVIOUS
    <2>3. a[1] # "WHERE" /\ a[2] # "WHERE"
        BY NameAssumption
    <2>4. Say(call, <<W(word), W(a[1]), W(a[2]), V(a[3])>>)
        BY <2>1 DEF SayWhere
    <2> HIDE DEF call
    <2>5. Told(call, <<W(word), W(a[1]), W(a[2]), V(a[3])>>)
        BY <2>2, <2>3, ToldWhere
    <2> QED
        BY <2>4, <2>5
<1>5. ASSUME GroupBy PROVE Tells
    <2>1. PICK f \in GroupArg : Say([call |-> "groupBy", field |-> f],
                                    <<W("GROUP"), W("BY"), W(f)>>)
        BY <1>5, Zenon DEF GroupBy
    <2>2. f # "WHERE" /\ Other([call |-> "groupBy", field |-> f])
        BY NameAssumption DEF Other
    <2> QED
        BY <2>1, <2>2, <1>w, <1>q
<1>6. ASSUME OrderBy PROVE Tells
    <2> DEFINE end(a) == IF a[2] = "" THEN <<>> ELSE <<W(a[2])>>
    <2>1. PICK a \in OrderArg : \E c, d :
             Say([call |-> "orderBy", field |-> c, order |-> d],
                 <<W("ORDER"), W("BY"), W(a[1])>> \o end(a))
        BY <1>6, Zenon DEF OrderBy
    <2>2. PICK c, d : Say([call |-> "orderBy", field |-> c, order |-> d],
                          <<W("ORDER"), W("BY"), W(a[1])>> \o end(a))
        BY <2>1
    <2>3. end(a) = <<>> \/ end(a) = <<W("ASC")>> \/ end(a) = <<W("DESC")>>
        BY BuilderAssumption, Zenon
    <2> HIDE DEF end
    <2>4. a[1] # "WHERE" /\ Other([call |-> "orderBy", field |-> c, order |-> d])
        BY NameAssumption DEF Other
    <2> DEFINE call == [call |-> "orderBy", field |-> c, order |-> d]
    <2>5. /\ <<W("ORDER"), W("BY"), W(a[1])>> \o <<>> = <<W("ORDER"), W("BY"), W(a[1])>>
          /\ \A v : <<W("ORDER"), W("BY"), W(a[1])>> \o <<v>>
                       = <<W("ORDER"), W("BY"), W(a[1]), v>>
        BY LongerByOne
    <2>6. Other(call)
        BY <2>4
    <2>7. Say(call, <<W("ORDER"), W("BY"), W(a[1])>> \o end(a))
        BY <2>2
    <2> HIDE DEF call
    <2>8. \E words : Say(call, words) /\ Told(call, words)
        <3>1. /\ Quiet(W("ORDER")) /\ Quiet(W("BY")) /\ Quiet(W(a[1]))
              /\ Quiet(W("ASC")) /\ Quiet(W("DESC"))
            BY <2>4, <1>w
        <3>2. /\ Told(call, <<W("ORDER"), W("BY"), W(a[1])>>)
              /\ Told(call, <<W("ORDER"), W("BY"), W(a[1]), W("ASC")>>)
              /\ Told(call, <<W("ORDER"), W("BY"), W(a[1]), W("DESC")>>)
            BY <2>6, <3>1, <1>q
        <3>3. CASE end(a) = <<>>
            BY <2>5, <2>7, <3>2, <3>3
        <3>4. CASE end(a) = <<W("ASC")>> \/ end(a) = <<W("DESC")>>
            BY <2>5, <2>7, <3>2, <3>4
        <3> QED
            BY <2>3, <3>3, <3>4
    <2> QED
        BY <2>8
<1>7. ASSUME Limit PROVE Tells
    <2>1. PICK n \in LimitArg : Say([call |-> "limit", limit |-> n],
                                    <<W("LIMIT"), [limit |-> n]>>)
        BY <1>7, Zenon DEF Limit
    <2>2. Quiet([limit |-> n]) /\ Other([call |-> "limit", limit |-> n])
        BY QuietWords DEF Other
    <2> QED
        BY <2>1, <2>2, <1>w, <1>q
<1>8. ASSUME Set PROVE Tells
    <2>1. PICK a \in SetArg : Say([call |-> "set", field |-> a[1], value |-> a[2]],
                                  <<W(a[1]), W("="), V(a[2])>>)
        BY <1>8, Zenon DEF Set
    <2>2. /\ a[1] # "WHERE" /\ Other([call |-> "set", field |-> a[1], value |-> a[2]])
          /\ Quiet(V(a[2]))
        BY NameAssumption, QuietWords DEF Other
    <2> QED
        BY <2>1, <2>2, <1>w, <1>q
<1>9. ASSUME Value PROVE Tells
    <2>1. PICK t \in ValueArg : Say([call |-> "value", value |-> t], <<V(t)>>)
        BY <1>9, Zenon DEF Value
    <2>2. Quiet(V(t)) /\ Other([call |-> "value", value |-> t])
        BY QuietWords DEF Other
    <2> QED
        BY <2>1, <2>2, <1>q
<1>10. ASSUME Count PROVE Tells
    <2>1. PICK a \in CountArg, t \in TableArg :
             Say([call |-> "count"], <<W("COUNT"), W(t), [field |-> a[1], value |-> a[2]]>>)
        BY <1>10, Zenon DEF Count
    <2>2. /\ Quiet([field |-> a[1], value |-> a[2]]) /\ Other([call |-> "count"])
          /\ t # "WHERE"
        BY QuietWords, NameAssumption DEF Other
    <2> QED
        BY <2>1, <2>2, <1>w, <1>q
<1>11. ASSUME Get
       PROVE  /\ calls' = calls /\ command' = command
              /\ Cut(text')
    BY <1>11, Zenon DEF Get, Cut
<1> QED
    BY <1>1, <1>2, <1>3, <1>4, <1>5, <1>6, <1>7, <1>8, <1>9, <1>10, <1>11, Zenon
       DEF BuilderNext

\* A call more takes its place behind the others.
LEMMA LaidMore ==
    ASSUME TextInv, NEW start, Laid(start), NEW call, NEW words, Say(call, words),
           Told(call, words)
    PROVE  \E st : Laid(st)'
<1> DEFINE N == Len(calls)
           L == Len(command)
<1>st. PICK st : st = Append(start, L + 1)
    OBVIOUS
<1>1. /\ calls' = Append(calls, call) /\ command' = command \o words
    BY Zenon DEF Say
<1>2. PICK C : calls \in Seq(C)
    BY DEF Laid
<1>3. PICK D : command \in Seq(D)
    BY DEF TextInv, Phrase, Words
<1>4. PICK E : words \in Seq(E)
    BY DEF Told
<1>5. /\ calls' \in Seq(C \cup {call}) /\ N \in Nat /\ Len(calls') = N + 1
      /\ \A n \in 1..N : calls'[n] = calls[n]
      /\ calls'[N + 1] = call
    BY <1>1, <1>2
<1>6. /\ L \in Nat /\ Len(words) \in Nat \ {0} /\ Len(command') = L + Len(words)
      /\ \A p \in 1..L : command'[p] = command[p]
      /\ \A p \in (L + 1)..Len(command') :
            p - L \in 1..Len(words) /\ command'[p] = words[p - L]
    <2>1. command \in Seq(D \cup E) /\ words \in Seq(D \cup E)
        BY <1>3, <1>4
    <2>2. Len(words) >= 1
        BY DEF Told
    <2> QED
        BY <1>1, <2>1, <2>2
<1>7. /\ start \in Seq(Nat) /\ Len(start) = N
      /\ st \in Seq(Nat) /\ Len(st) = N + 1 /\ st[N + 1] = L + 1
      /\ \A n \in 1..N : st[n] = start[n]
    BY <1>5, <1>6, <1>st DEF Laid
<1> HIDE DEF N, L
<1>8. \A n \in 1..N : start[n] \in 1..L
    BY DEF Laid, N, L
<1>9. ASSUME NEW n \in 1..(N + 1)
      PROVE  st[n] \in 1..Len(command')
    <2>1. CASE n = N + 1
        BY <1>6, <1>7, <2>1
    <2>2. CASE n \in 1..N
        <3>1. st[n] = start[n] /\ start[n] \in 1..L
            BY <1>7, <1>8, <2>2
        <3> QED
            BY <1>6, <3>1
    <2>3. n = N + 1 \/ n \in 1..N
        BY <1>5
    <2> QED
        BY <2>1, <2>2, <2>3, Zenon
<1>10. ASSUME NEW m \in 1..(N + 1), NEW n \in 1..(N + 1), m < n
       PROVE  st[m] < st[n]
    <2>1. m \in 1..N
        BY <1>5, <1>10
    <2>2. CASE n = N + 1
        <3>1. st[m] = start[m] /\ start[m] \in 1..L /\ st[n] = L + 1
            BY <1>7, <1>8, <2>1, <2>2
        <3> QED
            BY <1>6, <3>1
    <2>3. CASE n \in 1..N
        BY <1>7, <1>10, <2>1, <2>3 DEF Laid, N
    <2> QED
        BY <1>5, <2>2, <2>3
<1>11. ASSUME NEW n \in 1..(N + 1), calls'[n].call = "where"
       PROVE  st[n] + 4 = IF n = N + 1 THEN Len(command') + 1 ELSE st[n + 1]
    <2>1. CASE n = N + 1
        <3>1. Len(words) = 4
            BY <1>5, <1>11, <2>1 DEF Told
        <3> QED
            BY <1>6, <1>7, <2>1, <3>1
    <2>2. CASE n \in 1..N
        <3>1. calls[n].call = "where"
            BY <1>5, <1>11, <2>2
        <3>2. start[n] + 4 = IF n = N THEN L + 1 ELSE start[n + 1]
            BY <2>2, <3>1 DEF Laid, N, L
        <3>3. n # N => n + 1 \in 1..N
            BY <1>5, <2>2
        <3> QED
            BY <1>5, <1>7, <2>2, <3>2, <3>3
    <2> QED
        BY <1>5, <2>1, <2>2
<1>12. ASSUME NEW p \in 1..Len(command'), command'[p] = W("WHERE")
       PROVE  \E n \in 1..(N + 1) : /\ st[n] = p /\ calls'[n].call = "where"
                                    /\ calls'[n].word = "WHERE"
    <2>1. CASE p \in 1..L
        <3>1. command[p] = W("WHERE")
            BY <1>6, <1>12, <2>1
        <3>2. PICK n \in 1..N : /\ start[n] = p /\ calls[n].call = "where"
                                /\ calls[n].word = "WHERE"
            BY <2>1, <3>1 DEF Laid, N, L
        <3>3. n \in 1..(N + 1)
            BY <1>5
        <3> QED
            BY <1>5, <1>7, <3>2, <3>3
    <2>2. CASE p \in (L + 1)..Len(command')
        <3>1. p - L = 1 /\ call.call = "where" /\ call.word = "WHERE"
            <4>1. p - L \in 1..Len(words) /\ words[p - L] = W("WHERE")
                BY <1>6, <1>12, <2>2
            <4> QED
                BY <4>1 DEF Told
        <3>2. st[N + 1] = p /\ N + 1 \in 1..(N + 1)
            BY <1>5, <1>6, <1>7, <2>2, <3>1
        <3> QED
            BY <1>5, <3>1, <3>2
    <2> QED
        BY <1>6, <2>1, <2>2
<1>13. Laid(st)'
    <2>1. Len(calls') = N + 1
        BY <1>5
    <2>2. /\ \E F : calls' \in Seq(F)
          /\ st \in Seq(Nat) /\ Len(st) = Len(calls')
        BY <1>5, <1>7
    <2>3. /\ \A n \in 1..Len(calls') : st[n] \in 1..Len(command')
          /\ \A m, n \in 1..Len(calls') : m < n => st[m] < st[n]
        BY <1>9, <1>10, <2>1, Zenon
    <2>4. \A n \in 1..Len(calls') :
             calls'[n].call = "where" =>
                 st[n] + 4 = IF n = Len(calls') THEN Len(command') + 1 ELSE st[n + 1]
        BY <1>11, <2>1, Zenon
    <2>5. \A p \in 1..Len(command') :
             command'[p] = W("WHERE") =>
                 \E n \in 1..Len(calls') : st[n] = p /\ calls'[n].call = "where"
                                          /\ calls'[n].word = "WHERE"
        <3>1. ASSUME NEW p \in 1..Len(command'), command'[p] = W("WHERE")
              PROVE  \E n \in 1..Len(calls') : st[n] = p /\ calls'[n].call = "where"
                                              /\ calls'[n].word = "WHERE"
            <4>1. PICK n \in 1..(N + 1) : /\ st[n] = p /\ calls'[n].call = "where"
                                         /\ calls'[n].word = "WHERE"
                BY <1>12, <3>1
            <4>2. n \in 1..Len(calls')
                BY <2>1
            <4> QED
                BY <4>1, <4>2
        <3> QED
            BY <3>1
    <2> QED
        BY <2>2, <2>3, <2>4, <2>5 DEF Laid
<1> QED
    BY <1>13

\* The words stay where they were laid, and arrive there.
LEMMA LaidStep ==
    ASSUME TextInv, \E start : Laid(start), Arrived, [CommandNext]_commandVars
    PROVE  Arrived' /\ \E start : Laid(start)'
<1>1. PICK start : Laid(start)
    OBVIOUS
<1>2. CASE UNCHANGED builderVars
    <2>1. calls' = calls /\ command' = command /\ text' = text
        BY <1>2 DEF builderVars
    <2>2. Laid(start)'
        BY <1>1, <2>1 DEF Laid
    <2>3. Arrived'
        BY <2>1 DEF Arrived, Cuts
    <2> QED
        BY <2>2, <2>3
<1>3. CASE BuilderNext
    <2>1. CASE \E call, words : Say(call, words) /\ Told(call, words)
        <3>1. PICK call, words : Say(call, words) /\ Told(call, words)
            BY <2>1
        <3>2. \E st : Laid(st)'
            BY <1>1, <3>1, LaidMore
        <3>3. text' = text /\ text = <<>> /\ command' = command \o words
            BY <3>1, Zenon DEF Say
        <3>4. Len(command') \in Nat
            <4>1. PICK D : command \in Seq(D)
                BY DEF TextInv, Phrase, Words
            <4>2. PICK E : words \in Seq(E)
                BY <3>1 DEF Told
            <4>3. command \in Seq(D \cup E) /\ words \in Seq(D \cup E)
                BY <4>1, <4>2
            <4> QED
                BY <3>3, <4>3
        <3>5. Arrived'
            BY <3>3, <3>4 DEF Arrived, Cuts
        <3> QED
            BY <3>2, <3>5
    <2>2. CASE calls' = calls /\ command' = command /\ Cut(text')
        <3>1. Laid(start)'
            BY <1>1, <2>2 DEF Laid
        <3>2. PICK D : command \in Seq(D)
            BY DEF TextInv, Phrase, Words
        <3>3. Cuts(text', command)
            BY <2>2, <3>2, CutCuts
        <3>4. Arrived'
            BY <2>2, <3>3 DEF Arrived, Cuts
        <3> QED
            BY <3>1, <3>4
    <2> QED
        BY <1>3, <2>1, <2>2, ClientSteps
<1> QED
    BY <1>2, <1>3, ServerKeepsText, Zenon DEF CommandNext

\* What a step of the parser must give to keep RefusalInv.
Justified(np, q, ps, cs) ==
    /\ np = "where" /\ ps.kind = "GET" =>
          \E p \in 1..Len(text) : WhereAt(p) /\ p + 4 <= q
    /\ np = "clauses" /\ cs # <<>> =>
          \E p \in 1..Len(text) : WhereAt(p) /\ p + 5 <= q
    /\ (\E n \in 2..Len(cs) : JoinsNothing(cs[n])) => TwoWheres

Reasons == BehindWhere /\ ((SecondWhere \/ refused \/ reply.code = 3) => TwoWheres)

\* A step of the parser that is justified so keeps the reasons for a refusal.
LEMMA ParseReasons ==
    ASSUME Reasons, NEW np, NEW q, NEW ps, NEW cs, Parse(np, q, ps, cs),
           Justified(np, q, ps, cs)
    PROVE  Reasons'
<1>1. /\ place' = np /\ pos' = q /\ params' = ps /\ conds' = cs
      /\ refused' = refused /\ reply' = reply /\ text' = text
    BY Zenon DEF Parse, answerVars, builderVars
<1>2. (TwoWheres' <=> TwoWheres) /\ \A p : WhereAt(p)' <=> WhereAt(p)
    BY <1>1 DEF TwoWheres, WhereAt
<1>3. BehindWhere'
    BY <1>1, <1>2 DEF BehindWhere, Justified
<1>4. SecondWhere' => TwoWheres
    BY <1>1 DEF SecondWhere, Justified
<1> QED
    BY <1>1, <1>2, <1>3, <1>4 DEF Reasons

\* One condition, or none, is not a second one.
LEMMA NoSecond ==
    /\ ~\E n \in 2..Len(<<>>) : JoinsNothing(<<>>[n])
    /\ \A c : ~\E n \in 2..Len(<<c>>) : JoinsNothing(<<c>>[n])
<1>1. Len(<<>>) = 0 /\ \A c : Len(<<c>>) = 1
    OBVIOUS
<1>2. 2..0 = {} /\ 2..1 = {}
    OBVIOUS
<1> QED
    BY <1>1, <1>2

\* A condition more is a second one only behind a WHERE.
LEMMA OneMore ==
    ASSUME NEW C, conds \in Seq(C), SecondWhere => TwoWheres, NEW c,
           (conds # <<>> /\ JoinsNothing(c)) => TwoWheres
    PROVE  (\E n \in 2..Len(Append(conds, c)) : JoinsNothing(Append(conds, c)[n]))
              => TwoWheres
<1> DEFINE r == Append(conds, c)
<1>1. /\ Len(r) = Len(conds) + 1 /\ Len(conds) \in Nat /\ r[Len(conds) + 1] = c
      /\ \A n \in 1..Len(conds) : r[n] = conds[n]
    OBVIOUS
<1>2. conds = <<>> => Len(conds) = 0
    OBVIOUS
<1> HIDE DEF r
<1>3. ASSUME NEW n \in 2..Len(r), JoinsNothing(r[n])
      PROVE  TwoWheres
    <2>1. CASE n = Len(conds) + 1
        BY <1>1, <1>2, <1>3, <2>1
    <2>2. CASE n \in 2..Len(conds)
        <3>1. r[n] = conds[n]
            BY <1>1, <2>2
        <3> QED
            BY <1>3, <2>2, <3>1 DEF SecondWhere
    <2> QED
        BY <1>1, <2>1, <2>2
<1>4. (\E n \in 2..Len(r) : JoinsNothing(r[n])) => TwoWheres
    BY <1>3
<1> QED
    BY <1>4 DEF r

\* The heads of the commands: a condition at most, and none that is of a GET.
LEMMA HeadReasons ==
    ASSUME Reasons,
           GetHead \/ RemoveValue \/ RemoveWhere \/ ChangeAll \/ ChangeWhere \/ CountHead
    PROVE  Reasons'
<1>1. \A q, ps : Justified("clauses", q, ps, <<>>) /\ Justified("load", q, ps, <<>>)
    BY NoSecond DEF Justified
<1>2. \A q, ps, c : Justified("load", q, ps, <<c>>)
    BY NoSecond DEF Justified
<1>3. \A q, ps, c : ps.kind # "GET" => Justified("where", q, ps, <<c>>)
    BY NoSecond DEF Justified
<1>4. CASE GetHead
    BY <1>1, <1>4, HeadOfGet, ParseReasons
<1>5. CASE RemoveValue
    <2>1. PICK ps, c : Parse("load", 5, ps, <<c>>)
        BY <1>5, Zenon DEF RemoveValue
    <2> QED
        BY <1>2, <2>1, ParseReasons
<1>6. CASE RemoveWhere
    <2>1. PICK c : Parse("where", 6, [NoParams EXCEPT !.kind = "REMOVE"], <<c>>)
        BY <1>6, Zenon DEF RemoveWhere
    <2>2. PICK ps : Parse("where", 6, ps, <<c>>) /\ ps.kind = "REMOVE"
        BY <2>1, HeadParams
    <2> QED
        BY <1>3, <2>2, ParseReasons
<1>7. CASE ChangeAll \/ CountHead
    <2>1. PICK q, ps : Parse("load", q, ps, <<>>)
        BY <1>7, Zenon DEF ChangeAll, CountHead
    <2> QED
        BY <1>1, <2>1, ParseReasons
<1>8. CASE ChangeWhere
    <2>1. PICK c : Parse("where", 9, Assignment, <<c>>)
        BY <1>8, Zenon DEF ChangeWhere
    <2>2. Assignment.kind = "CHANGE"
        BY HeadParams, Zenon DEF Assignment
    <2> QED
        BY <1>3, <2>1, <2>2, ParseReasons
<1> QED
    BY <1>4, <1>5, <1>6, <1>7, <1>8

\* The clauses: behind a WHERE and its condition a word is passed over before the
\* next WHERE is read.
LEMMA ClauseReasons ==
    ASSUME TextInv, ParserInv, Reasons,
           \/ WhereClause \/ MoreCondition \/ EndGetConditions \/ EndConditions
           \/ GroupClause \/ OrderClause \/ LimitClause \/ SkipWord \/ EndText
    PROVE  Reasons'
<1>1. PICK C : conds \in Seq(C)
    BY DEF ParserInv
<1>2. pos \in Nat \ {0} /\ Len(text) \in Nat
    BY DEF ParserInv, TextInv, Words
<1>3. SecondWhere => TwoWheres
    BY DEF Reasons
<1>4. CASE WhereClause
    <2>1. PICK c : Parse("where", pos + 4, params, Append(conds, c))
        BY <1>4, Zenon DEF WhereClause
    <2>2. place = "clauses" /\ WhereAt(pos)
        <3>1. place = "clauses" /\ WordAt(pos, "WHERE")
            BY <1>4, Zenon DEF WhereClause
        <3> QED
            BY <1>2, <3>1 DEF WordAt, WhereAt
    <2>3. ASSUME conds # <<>>
          PROVE  TwoWheres
        <3>1. PICK p \in 1..Len(text) : WhereAt(p) /\ p + 5 <= pos
            BY <2>2, <2>3 DEF Reasons, BehindWhere
        <3> QED
            BY <2>2, <3>1 DEF TwoWheres, WhereAt
    <2>4. (\E n \in 2..Len(Append(conds, c)) : JoinsNothing(Append(conds, c)[n]))
             => TwoWheres
        BY <1>1, <1>3, <2>3, OneMore
    <2>5. \E p \in 1..Len(text) : WhereAt(p) /\ p + 4 <= pos + 4
        BY <1>2, <2>2 DEF WhereAt
    <2>6. Justified("where", pos + 4, params, Append(conds, c))
        BY <2>4, <2>5 DEF Justified
    <2> QED
        BY <2>1, <2>6, ParseReasons
<1>5. CASE MoreCondition
    <2>1. PICK c : /\ c.logic \in {"AND", "OR"} /\ place = "where"
                   /\ Parse("where", pos + 4, params, Append(conds, c))
        BY <1>5, ConditionJoins, Zenon DEF MoreCondition
    <2>2. ~JoinsNothing(c)
        <3>1. "" \notin {"AND", "OR"}
            BY Zenon
        <3> QED
            BY <2>1, <3>1, Zenon DEF JoinsNothing
    <2>3. (\E n \in 2..Len(Append(conds, c)) : JoinsNothing(Append(conds, c)[n]))
             => TwoWheres
        BY <1>1, <1>3, <2>2, OneMore
    <2>4. params.kind = "GET" => \E p \in 1..Len(text) : WhereAt(p) /\ p + 4 <= pos + 4
        BY <1>2, <2>1 DEF Reasons, BehindWhere
    <2>5. Justified("where", pos + 4, params, Append(conds, c))
        BY <2>3, <2>4 DEF Justified
    <2> QED
        BY <2>1, <2>5, ParseReasons
<1>6. CASE EndGetConditions
    <2>1. /\ place = "where" /\ params.kind = "GET"
          /\ Parse("clauses", pos + 1, params, conds)
        BY <1>6, Zenon DEF EndGetConditions, NoMoreConditions
    <2>2. \E p \in 1..Len(text) : WhereAt(p) /\ p + 5 <= pos + 1
        BY <1>2, <2>1 DEF Reasons, BehindWhere
    <2>3. Justified("clauses", pos + 1, params, conds)
        BY <1>3, <2>2 DEF Justified, SecondWhere
    <2> QED
        BY <2>1, <2>3, ParseReasons
<1>7. CASE EndConditions \/ EndText
    <2>1. PICK q : Parse("load", q, params, conds)
        BY <1>7, Zenon DEF EndConditions, EndText
    <2>2. Justified("load", q, params, conds)
        BY <1>3 DEF Justified, SecondWhere
    <2> QED
        BY <2>1, <2>2, ParseReasons
<1>8. CASE GroupClause \/ OrderClause \/ LimitClause \/ SkipWord
    <2>1. PICK q \in {pos + 1, pos + 2, pos + 3, pos + 4} :
             place = "clauses" /\ \E ps : Parse("clauses", q, ps, conds)
        BY <1>8, Zenon DEF GroupClause, OrderClause, LimitClause, SkipWord
    <2>2. PICK ps : Parse("clauses", q, ps, conds)
        BY <2>1
    <2>3. conds # <<>> => \E p \in 1..Len(text) : WhereAt(p) /\ p + 5 <= q
        BY <1>2, <2>1 DEF Reasons, BehindWhere
    <2>4. Justified("clauses", q, ps, conds)
        BY <1>3, <2>3 DEF Justified, SecondWhere
    <2> QED
        BY <2>2, <2>4, ParseReasons
<1> QED
    BY <1>4, <1>5, <1>6, <1>7, <1>8

\* The handler refuses a row for a second WHERE, and says so.
LEMMA HandlerReasons ==
    ASSUME TextInv, ParserInv, Reasons, Handler \/ RefuseText
    PROVE  Reasons'
<1>1. text' = text /\ conds' = conds
    <2>1. Handler \/ RefuseText => UNCHANGED builderVars /\ conds' = conds
        BY ServerKeepsText, HandlerPlaces, Zenon DEF Server, Parser, RefuseText, Answer, vars
    <2> QED
        BY <2>1 DEF builderVars
<1>2. place' \notin {"where", "clauses"}
    <2>1. CASE RefuseText
        BY <2>1, Zenon DEF RefuseText, Answer
    <2>2. CASE Handler
        BY <2>2, HandlerPlaces
    <2> QED
        BY <2>1, <2>2
<1>3. (TwoWheres' <=> TwoWheres) /\ (SecondWhere' <=> SecondWhere)
    BY <1>1 DEF TwoWheres, WhereAt, SecondWhere
<1>4. BehindWhere'
    BY <1>2 DEF BehindWhere
<1>5. refused' => TwoWheres
    <2>1. CASE EvaluateRow
        <3>1. CASE FirstCondition
            BY <3>1, Zenon DEF FirstCondition, Reasons
        <3>2. CASE NextCondition
            <4>1. i + 1 \in 2..Len(conds)
                <5>1. i \in 1..(Len(conds) - 1)
                    BY <3>2, Zenon DEF NextCondition
                <5>2. Len(conds) \in Nat
                    BY DEF ParserInv
                <5> QED
                    BY <5>1, <5>2
            <4>2. refused' => JoinsNothing(conds[i + 1])
                BY <3>2, Zenon DEF NextCondition, JoinsNothing
            <4> QED
                BY <4>1, <4>2 DEF Reasons, SecondWhere
        <3> QED
            BY <2>1, <3>1, <3>2, Zenon DEF EvaluateRow
    <2>2. CASE refused' = refused
        BY <2>2 DEF Reasons
    <2>3. Handler \/ RefuseText => EvaluateRow \/ refused' = refused
        BY Zenon DEF Handler, NoTable, RefuseCount, Load, TakeAll, EndRow, RefuseRow, EndRows, Overwrite, CountRows,
           GroupRows, OrderRows, LimitRows, ProjectRows, AnswerRows, RefuseText, Answer, vars
    <2> QED
        BY <2>1, <2>2, <2>3
<1>6. reply'.code = 3 => TwoWheres
    <2>1. CASE RefuseRow
        BY <2>1, Zenon DEF RefuseRow, Reasons
    <2>2. CASE reply' = reply
        BY <2>2 DEF Reasons
    <2>3. CASE \/ RefuseText \/ NoTable \/ RefuseCount
               \/ Overwrite \/ CountRows \/ AnswerRows
        <3>1. \/ reply' = [code |-> 423] \/ reply' = [code |-> 1]
              \/ \E n : reply' = [code |-> 0, count |-> n]
              \/ \E a, w : reply' = [code |-> 0, aliased |-> a, wrapped |-> w]
            BY <2>3, ZenonT(40) DEF RefuseText, NoTable, RefuseCount, Overwrite, CountRows,
               AnswerRows, Answer
        <3> QED
            BY <3>1
    <2>4. Handler => \/ NoTable \/ RefuseCount \/ RefuseRow \/ reply' = reply
                     \/ Overwrite \/ CountRows \/ AnswerRows
        BY Zenon DEF Handler, Load, TakeAll, EvaluateRow, EndRow, EndRows, GroupRows,
           OrderRows, LimitRows, ProjectRows, answerVars
    <2> QED
        BY <2>1, <2>2, <2>3, <2>4
<1>7. SecondWhere' => TwoWheres
    BY <1>3 DEF Reasons
<1> QED
    BY <1>3, <1>4, <1>5, <1>6, <1>7 DEF Reasons

\* RefusalInv is kept by every step.
LEMMA RefusalStepInv ==
    CommandInv /\ RefusalInv /\ [CommandNext]_commandVars => RefusalInv'
<1> SUFFICES ASSUME CommandInv, RefusalInv, [CommandNext]_commandVars
             PROVE  RefusalInv'
    OBVIOUS
<1>1. TextInv /\ ParserInv /\ Reasons
    BY DEF CommandInv, RefusalInv, Reasons
<1>2. Arrived' /\ \E start : Laid(start)'
    BY <1>1, LaidStep DEF RefusalInv
<1>3. Reasons'
    <2>1. CASE UNCHANGED commandVars
        <3>1. UNCHANGED <<place, pos, params, conds, text, refused, reply>>
            BY <2>1 DEF commandVars, vars, builderVars, parserVars, answerVars
        <3>2. /\ TwoWheres' <=> TwoWheres
              /\ SecondWhere' <=> SecondWhere
              /\ BehindWhere' <=> BehindWhere
            BY <3>1 DEF TwoWheres, SecondWhere, BehindWhere, WhereAt
        <3> QED
            BY <1>1, <3>1, <3>2 DEF Reasons
    <2>2. CASE BuilderNext /\ UNCHANGED <<vars, parserVars, rowVars, answerVars>>
        <3>1. text = <<>> /\ place = "head"
            BY <1>1, <2>2, BuilderSteps DEF TextInv
        <3>2. UNCHANGED <<place, conds, refused, reply>>
            BY <2>2 DEF vars, parserVars, answerVars
        <3>3. ~TwoWheres
            BY <3>1 DEF TwoWheres
        <3>4. ~SecondWhere /\ ~refused /\ reply.code # 3
            BY <1>1, <3>3 DEF Reasons
        <3>5. ~SecondWhere' /\ ~refused' /\ reply'.code # 3
            BY <3>2, <3>4 DEF SecondWhere
        <3>6. BehindWhere'
            BY <3>1, <3>2 DEF BehindWhere
        <3> QED
            BY <3>5, <3>6 DEF Reasons
    <2>3. CASE Server
        BY <1>1, <2>3, HeadReasons, ClauseReasons, HandlerReasons, Zenon DEF Server, Parser
    <2> QED
        BY <2>1, <2>2, <2>3, Zenon DEF CommandNext
<1> QED
    BY <1>2, <1>3 DEF RefusalInv, Reasons

\* RefusalInv holds in every state.
LEMMA RefusalInvariance == CommandSpec => []RefusalInv
<1>1. CommandInit => RefusalInv
    <2> SUFFICES ASSUME CommandInit
                 PROVE  RefusalInv
        OBVIOUS
    <2>1. /\ calls = <<>> /\ command = <<>> /\ text = <<>> /\ place = "head"
          /\ conds = <<>> /\ refused = FALSE /\ reply = NoReply
        BY Zenon DEF CommandInit, BuilderInit
    <2>2. Laid(<<>>)
        <3>1. <<>> \in Seq(Nat) /\ Len(<<>>) = 0 /\ \E C : <<>> \in Seq(C)
            OBVIOUS
        <3> QED
            BY <2>1, <3>1 DEF Laid
    <2>3. Arrived /\ BehindWhere
        BY <2>1 DEF Arrived, Cuts, BehindWhere
    <2>4. ~SecondWhere /\ reply.code # 3
        BY <2>1 DEF SecondWhere, NoReply
    <2> QED
        BY <2>1, <2>2, <2>3, <2>4 DEF RefusalInv
<1> QED
    BY <1>1, RefusalStepInv, CommandInvariance, PTL DEF CommandSpec

\* RefuseRow, the answer 3 of evaluateConditions, needs two calls that say WHERE
\* and a call between them: a command with one WHERE is never refused for its
\* conditions, and the word of a WHERE right behind a condition is passed over.
THEOREM RefusalAlwaysNeedsTwoWheres == CommandSpec => []RefusalNeedsTwoWheres
<1>1. CommandInv /\ RefusalInv => RefusalNeedsTwoWheres
    <2> SUFFICES ASSUME CommandInv, RefusalInv, reply.code = 3
                 PROVE  \E m, n \in DOMAIN calls :
                            /\ m < n - 1
                            /\ \A j \in {m, n} : calls[j].call = "where"
                                                 /\ calls[j].word = "WHERE"
        BY DEF RefusalNeedsTwoWheres
    <2>1. PICK start : Laid(start)
        BY DEF RefusalInv
    <2>2. Len(calls) \in Nat
        BY <2>1 DEF Laid
    <2>3. PICK p \in 1..Len(text), q \in 1..Len(text) :
             WhereAt(p) /\ WhereAt(q) /\ p + 5 <= q
        BY DEF RefusalInv, TwoWheres
    <2>4. /\ p \in 1..Len(command) /\ q \in 1..Len(command)
          /\ command[p] = W("WHERE") /\ command[q] = W("WHERE")
        <3>1. ASSUME NEW x \in {p, q}
              PROVE  x \in 1..Len(command) /\ command[x] = W("WHERE")
            <4>1. Arrived /\ Len(text) \in Nat /\ Len(command) \in Nat
                BY DEF RefusalInv, CommandInv, TextInv, Phrase, Words
            <4>2. /\ x \in 1..Len(text) /\ x \in 1..Len(command) /\ text[x] = W("WHERE")
                  /\ text[x] = command[x] \/ text[x] \in Beginnings(command[x])
                BY <2>3, <4>1 DEF Arrived, Cuts, WhereAt
            <4> QED
                BY <4>2, BeginningFacts
        <3> QED
            BY <3>1
    <2>5. PICK m \in 1..Len(calls) : /\ start[m] = p /\ calls[m].call = "where"
                                     /\ calls[m].word = "WHERE"
        BY <2>1, <2>4 DEF Laid
    <2>6. PICK n \in 1..Len(calls) : /\ start[n] = q /\ calls[n].call = "where"
                                     /\ calls[n].word = "WHERE"
        BY <2>1, <2>4 DEF Laid
    <2>7. m < n
        <3>1. n < m => start[n] < start[m]
            BY <2>1 DEF Laid
        <3> QED
            BY <2>2, <2>3, <2>5, <2>6, <3>1
    <2>8. n # m + 1
        <3>1. m # Len(calls)
            BY <2>2, <2>7
        <3>2. start[m] + 4 = start[m + 1]
            BY <2>1, <2>5, <3>1 DEF Laid
        <3> QED
            BY <2>3, <2>5, <2>6, <3>2
    <2>9. DOMAIN calls = 1..Len(calls)
        BY <2>1 DEF Laid
    <2> QED
        BY <2>2, <2>5, <2>6, <2>7, <2>8, <2>9
<1> QED
    BY <1>1, CommandInvariance, RefusalInvariance, PTL

-----------------------------------------------------------------------------
(* The types.                                                              *)

RowsInv ==
    /\ \E C : table \in Seq(C)
    /\ k \in 1..(Len(table) + 1)
    /\ rows \in Seq(1..Len(table))
    /\ ignored \in 0..Len(table)

EvaluationInv == i \in 0..Len(conds) /\ (i > 0 => result \in BOOLEAN)

\* Behind a condition the parser is at most one word behind the text; behind the
\* key of ORDER BY and the word after it, two.
PosInv ==
    /\ pos \in 1..(Len(text) + 4)
    /\ place = "where" => pos <= Len(text) + 1

AnswerInv ==
    /\ place \in {"head", "clauses", "where", "load", "rows", "count", "write", "group",
                  "order", "limit", "project", "answer", "end"}
    /\ reply.code \in {-1, 0, 1, 3, 423}

CommandTypes == BuilderTypeOK /\ RowsInv /\ EvaluationInv /\ PosInv /\ AnswerInv

\* What a client has called and sent keeps its types.
LEMMA BuilderTypesStep ==
    ASSUME TextInv, RefusalInv, BuilderTypeOK, [CommandNext]_commandVars
    PROVE  BuilderTypeOK'
<1>1. CASE UNCHANGED builderVars
    BY <1>1 DEF builderVars, BuilderTypeOK
<1>2. CASE BuilderNext
    <2>1. CASE \E call, words : Say(call, words) /\ Told(call, words)
        <3>1. PICK call, words : Say(call, words) /\ Told(call, words)
            BY <2>1
        <3>2. /\ text = <<>> /\ text' = text /\ Len(calls) < MaxCalls
              /\ calls' = Append(calls, call)
            BY <3>1, Zenon DEF Say
        <3>3. PICK C : calls \in Seq(C)
            BY DEF RefusalInv, Laid
        <3>4. MaxCalls \in Nat /\ "call" \in DOMAIN call
            BY <3>1, BuilderAssumption, Zenon DEF Told
        <3>5. Len(calls') <= MaxCalls
            BY <3>2, <3>3, <3>4
        <3>6. \A j \in DOMAIN calls' : "call" \in DOMAIN calls'[j]
            BY <3>2, <3>3, <3>4 DEF BuilderTypeOK
        <3>7. text' = <<>> /\ Len(command') \in Nat
            <4>1. PICK D : command \in Seq(D)
                BY DEF TextInv, Phrase, Words
            <4>2. PICK E : words \in Seq(E)
                BY <3>1 DEF Told
            <4>3. command \in Seq(D \cup E) /\ words \in Seq(D \cup E)
                BY <4>1, <4>2
            <4>4. command' = command \o words
                BY <3>1, Zenon DEF Say
            <4> QED
                BY <3>2, <4>3, <4>4
        <3> QED
            BY <3>5, <3>6, <3>7 DEF BuilderTypeOK
    <2>2. CASE calls' = calls /\ command' = command /\ Cut(text')
        <3>1. PICK D : command \in Seq(D)
            BY DEF TextInv, Phrase, Words
        <3>2. Cuts(text', command) /\ \E E : text' \in Seq(E)
            BY <2>2, <3>1, CutCuts
        <3> QED
            BY <2>2, <3>2 DEF BuilderTypeOK, Cuts
    <2> QED
        BY <1>2, <2>1, <2>2, ClientSteps
<1> QED
    BY <1>1, <1>2, ServerKeepsText, Zenon DEF CommandNext

\* What is read of the text is there.
LEMMA ConditionThere ==
    ASSUME NEW p \in Nat \ {0}, Len(text) \in Nat
    PROVE  /\ ConditionAt(p) => p + 3 <= Len(text)
           /\ TableAt(p) => p + 1 <= Len(text)
           /\ KeyAt(p) => p + 2 <= Len(text)
           /\ LimitAt(p) => p + 1 <= Len(text)
BY DEF ConditionAt, TableAt, KeyAt, LimitAt

\* The parser goes at most one word beyond what it has seen to be there.
LEMMA PosStep ==
    ASSUME TextInv, ParserInv, PosInv, [CommandNext]_commandVars
    PROVE  PosInv'
<1> DEFINE L == Len(text)
<1>1. L \in Nat /\ pos \in Nat \ {0} /\ pos <= L + 4
    BY DEF TextInv, Words, PosInv
<1>2. ASSUME NEW np \in {"clauses", "where", "load"}, NEW q \in Nat \ {0}, NEW ps, NEW cs,
             Parse(np, q, ps, cs), q <= L + 4, np = "where" => q <= L + 1
      PROVE  PosInv'
    <2>1. place' = np /\ pos' = q /\ text' = text
        BY <1>2, Zenon DEF Parse, builderVars
    <2> QED
        BY <1>1, <1>2, <2>1 DEF PosInv
<1>3. ASSUME pos' = pos, text' = text, place' # "where"
      PROVE  PosInv'
    BY <1>3 DEF PosInv
<1>4. /\ 2 \in Nat \ {0} /\ 3 \in Nat \ {0} /\ 5 \in Nat \ {0}
      /\ pos + 1 \in Nat \ {0} /\ pos + 2 \in Nat \ {0}
    BY <1>1
<1>5. CASE GetHead
    <2>1. PICK q \in {3, 5} : TableAt(q) /\ \E ps : Parse("clauses", q + 2, ps, <<>>)
        BY <1>5, Zenon DEF GetHead
    <2>2. q + 1 <= L
        BY <1>1, <1>4, <2>1, ConditionThere
    <2> QED
        BY <1>1, <1>2, <2>1, <2>2
<1>6. CASE RemoveValue \/ ChangeAll
    <2>1. PICK q \in {3, 5} : TableAt(q) /\ \E ps, cs : Parse("load", q + 2, ps, cs)
        <3>1. 3 + 2 = 5 /\ 5 + 2 = 7
            OBVIOUS
        <3> QED
            BY <1>6, <3>1, Zenon DEF RemoveValue, ChangeAll
    <2>2. q + 1 <= L
        BY <1>1, <1>4, <2>1, ConditionThere
    <2> QED
        BY <1>1, <1>2, <2>1, <2>2
<1>7. CASE RemoveWhere \/ ChangeWhere
    <2>1. PICK q \in {2, 5} : ConditionAt(q) /\ \E ps, cs : Parse("where", q + 4, ps, cs)
        <3>1. 2 + 4 = 6 /\ 5 + 4 = 9
            OBVIOUS
        <3> QED
            BY <1>7, <3>1, Zenon DEF RemoveWhere, ChangeWhere
    <2>2. q + 3 <= L
        BY <1>1, <1>4, <2>1, ConditionThere
    <2> QED
        BY <1>1, <1>2, <2>1, <2>2
<1>8. CASE CountHead
    <2>1. PICK ps : Parse("load", L + 1, ps, <<>>)
        BY <1>8, Zenon DEF CountHead
    <2> QED
        BY <1>1, <1>2, <2>1
<1>9. CASE WhereClause \/ MoreCondition
    <2>1. ConditionAt(pos) /\ \E cs : Parse("where", pos + 4, params, cs)
        BY <1>9, Zenon DEF WhereClause, MoreCondition
    <2>2. pos + 3 <= L
        BY <1>1, <2>1, ConditionThere
    <2> QED
        BY <1>1, <1>2, <2>1, <2>2
<1>10. CASE EndGetConditions
    <2>1. place = "where" /\ Parse("clauses", pos + 1, params, conds)
        BY <1>10, Zenon DEF EndGetConditions, NoMoreConditions
    <2> QED
        BY <1>1, <1>2, <2>1 DEF PosInv
<1>11. CASE EndConditions
    <2>1. TableAt(pos) /\ Parse("load", pos + 2, params, conds)
        BY <1>11, Zenon DEF EndConditions
    <2>2. pos + 1 <= L
        BY <1>1, <2>1, ConditionThere
    <2> QED
        BY <1>1, <1>2, <2>1, <2>2
<1>12. CASE GroupClause \/ OrderClause
    <2>1. PICK q \in {pos + 3, pos + 4} : KeyAt(pos) /\ \E ps : Parse("clauses", q, ps, conds)
        BY <1>12, Zenon DEF GroupClause, OrderClause
    <2>2. pos + 2 <= L
        BY <1>1, <2>1, ConditionThere
    <2> QED
        BY <1>1, <1>2, <2>1, <2>2
<1>13. CASE LimitClause
    <2>1. LimitAt(pos) /\ \E ps : Parse("clauses", pos + 2, ps, conds)
        BY <1>13, Zenon DEF LimitClause
    <2>2. pos + 1 <= L
        BY <1>1, <2>1, ConditionThere
    <2> QED
        BY <1>1, <1>2, <2>1, <2>2
<1>14. CASE SkipWord
    <2>1. pos <= L /\ Parse("clauses", pos + 1, params, conds)
        BY <1>14, Zenon DEF SkipWord
    <2> QED
        BY <1>1, <1>2, <2>1
<1>15. CASE EndText
    <2>1. Parse("load", pos, params, conds)
        BY <1>15, Zenon DEF EndText
    <2> QED
        BY <1>1, <1>2, <2>1
<1>16. CASE RefuseText \/ Handler
    <2>1. text' = text
        <3>1. UNCHANGED builderVars
            BY <1>16, ServerKeepsText, Zenon DEF Server, Parser
        <3> QED
            BY <3>1 DEF builderVars
    <2>2. RefuseText => pos' = pos /\ place' = "end"
        BY Zenon DEF RefuseText, Answer
    <2>3. Handler => pos' = pos /\ place' # "where"
        BY HandlerPlaces
    <2> QED
        BY <1>3, <1>16, <2>1, <2>2, <2>3
<1>17. CASE BuilderNext /\ UNCHANGED parserVars
    <2>1. text = <<>> /\ place = "head"
        BY <1>17, BuilderSteps DEF TextInv
    <2>2. pos' = pos /\ place' = place
        BY <1>17 DEF parserVars
    <2>3. pos <= 4 /\ Len(text') \in Nat
        <3>1. TextInv'
            BY TextStep
        <3> QED
            BY <1>1, <2>1, <3>1 DEF TextInv, Words
    <2> QED
        BY <1>1, <2>1, <2>2, <2>3 DEF PosInv
<1>18. CASE UNCHANGED commandVars
    BY <1>18 DEF commandVars, parserVars, builderVars, PosInv
<1> QED
    BY <1>5, <1>6, <1>7, <1>8, <1>9, <1>10, <1>11, <1>12, <1>13, <1>14, <1>15, <1>16,
       <1>17, <1>18, Zenon DEF CommandNext, Server, Parser

\* Before the loop the handler has nothing.
LEMMA FreshTypes ==
    ASSUME Fresh', \E C : conds' \in Seq(C)
    PROVE  RowsInv' /\ EvaluationInv' /\ reply'.code \in {-1, 0, 1, 3, 423}
<1>1. /\ table' = <<>> /\ k' = 1 /\ rows' = <<>> /\ ignored' = 0 /\ i' = 0
      /\ reply' = NoReply
    BY DEF Fresh
<1>2. Len(<<>>) = 0 /\ <<>> \in Seq({}) /\ <<>> \in Seq(1..0)
    OBVIOUS
<1>3. RowsInv'
    BY <1>1, <1>2 DEF RowsInv
<1>4. EvaluationInv'
    BY <1>1 DEF EvaluationInv
<1> QED
    BY <1>1, <1>3, <1>4 DEF NoReply

\* Rows that are selected, sorted, cut or left out are still rows of the table.
LEMMA RowsStep ==
    ASSUME ParserInv, HandlerInv, HandlerInv', RowsInv, Handler
    PROVE  RowsInv'
<1> DEFINE N == Len(table)
<1>1. /\ N \in Nat /\ k \in 1..(N + 1) /\ rows \in Seq(1..N) /\ ignored \in 0..N
      /\ DOMAIN table = 1..N
    BY DEF RowsInv
<1>2. PICK C : table \in Seq(C)
    BY DEF RowsInv
<1>3. ASSUME table' = table, k' \in 1..(N + 1), rows' \in Seq(1..N), ignored' \in 0..N
      PROVE  RowsInv'
    BY <1>2, <1>3 DEF RowsInv
<1>a. \A n \in 1..N : Append(rows, n) \in Seq(1..N)
    BY <1>1
<1>b. ASSUME NEW l \in Int, l > 0, Len(rows) > l
       PROVE  SubSeq(rows, 1, l) \in Seq(1..N)
    <2>1. \A S, s : s \in Seq(S) /\ Len(s) > l => SubSeq(s, 1, l) \in Seq(S)
        BY <1>b
    <2> QED
        BY <1>1, <1>b, <2>1
<1>4. /\ \A X : Among(rows, X) \in Seq(1..N)
      /\ Positions \in Seq(1..N)
      /\ \A X : Among(Positions, X) \in Seq(1..N)
    <2>1. Positions \in Seq(1..N)
        BY <1>1 DEF Positions
    <2> QED
        BY <1>1, <2>1, AmongElements
<1>5. CASE Load
    <2>1. Fresh
        BY <1>5, Zenon DEF Load, ParserInv, Parsing
    <2>2. /\ table' \in Table /\ k' = k /\ rows' = rows /\ ignored' = ignored
        BY <1>5, Zenon DEF Load
    <2>3. table' \in Seq([Field -> RowValue])
        BY <2>2, RowAssumption, Zenon
    <2>4. k' = 1 /\ rows' = <<>> /\ ignored' = 0
        BY <2>1, <2>2 DEF Fresh
    <2> QED
        BY <2>3, <2>4 DEF RowsInv
<1>6. CASE TakeAll
    <2>1. table' = table /\ k' = N + 1 /\ rows' = Positions /\ ignored' = ignored
        BY <1>6, Zenon DEF TakeAll, answerVars
    <2> QED
        BY <1>1, <1>3, <1>4, <2>1
<1>7. CASE EndRow
    <2>1. /\ table' = table /\ k <= N /\ k' = k + 1 /\ ignored' = ignored
          /\ rows' = Append(rows, k) \/ rows' = rows
        BY <1>7, Zenon DEF EndRow, answerVars
    <2>2. k \in 1..N /\ k + 1 \in 1..(N + 1)
        BY <1>1, <2>1
    <2>3. rows' \in Seq(1..N)
        BY <1>1, <1>a, <2>1, <2>2, Zenon
    <2> QED
        BY <1>1, <1>3, <2>1, <2>2, <2>3
<1>8. CASE \/ NoTable \/ EvaluateRow \/ RefuseRow \/ EndRows \/ Overwrite
           \/ RefuseCount \/ AnswerRows
    <2>1. table' = table /\ k' = k /\ rows' = rows /\ ignored' = ignored
        BY <1>8, Zenon DEF NoTable, EvaluateRow, RefuseRow, EndRows, Overwrite, RefuseCount,
           AnswerRows, Answer, rowVars, answerVars
    <2> QED
        BY <1>1, <1>3, <2>1
<1>9. CASE CountRows
    <2>1. PICK X : /\ rows' = Among(Positions, X)
                   /\ table' = table /\ k' = k /\ ignored' = ignored
        BY <1>9, Zenon DEF CountRows
    <2> QED
        BY <1>1, <1>3, <1>4, <2>1
<1>10. CASE GroupRows
    <2>1. /\ table' = table /\ k' = k /\ ignored' = ignored
          /\ rows' = rows \/ rows' = <<>>
        BY <1>10, Zenon DEF GroupRows
    <2>2. <<>> \in Seq(1..N)
        OBVIOUS
    <2> QED
        BY <1>1, <1>3, <2>1, <2>2
<1>11. CASE OrderRows
    <2> DEFINE s == Among(rows, {n \in DOMAIN table : Sortable(n)})
    <2>1. /\ table' = table /\ k' = k /\ place' = "limit"
          /\ \/ rows' \in Sortings(s) /\ ~Grouped
             \/ rows' = rows /\ ignored' = ignored
        BY <1>11, Zenon DEF OrderRows, Grouped, IsArray
    <2>2. s \in Seq(1..N)
        BY <1>4
    <2> HIDE DEF s
    <2>3. CASE rows' = rows /\ ignored' = ignored
        BY <1>1, <1>3, <2>1, <2>3
    <2>4. CASE rows' \in Sortings(s) /\ ~Grouped
        <3>1. rows' \in [DOMAIN s -> {s[n] : n \in DOMAIN s}]
            BY <2>4, Zenon DEF Sortings
        <3>2. {s[n] : n \in DOMAIN s} \subseteq 1..N /\ DOMAIN s = 1..Len(s)
            BY <2>2
        <3>3. Len(s) \in Nat
            BY <2>2
        <3>4. rows' \in [1..Len(s) -> 1..N]
            BY <3>1, <3>2
        <3>5. rows' \in Seq(1..N)
            BY <3>3, <3>4
        <3>6. ignored' = Cardinality(Chosen' \ Listed')
            <4>1. StageInv' /\ ~Grouped'
                BY <1>11, <2>4, Zenon DEF HandlerInv, OrderRows, Grouped
            <4> QED
                BY <2>1, <4>1 DEF StageInv
        <3>7. Chosen' \ Listed' \subseteq 1..N
            BY <1>1, <2>1 DEF Chosen
        <3>8. /\ IsFiniteSet(1..N) /\ Cardinality(1..N) = N
            <4>1. \A n \in Nat : IsFiniteSet(1..n) /\ Cardinality(1..n) = n
                BY FS_Interval
            <4> QED
                BY <1>1, <4>1, Zenon
        <3>9. /\ Cardinality(Chosen' \ Listed') <= Cardinality(1..N)
              /\ IsFiniteSet(Chosen' \ Listed')
            BY <3>7, <3>8, FS_Subset
        <3>10. ignored' \in 0..N
            <4>1. Cardinality(Chosen' \ Listed') \in Nat
                BY <3>9, FS_CardinalityType
            <4> QED
                BY <1>1, <3>6, <3>8, <3>9, <4>1
        <3> QED
            BY <1>1, <1>3, <2>1, <3>5, <3>10
    <2> QED
        BY <2>1, <2>3, <2>4
<1>12. CASE LimitRows
    <2> DEFINE l == params.limit
    <2>1. /\ table' = table /\ k' = k /\ ignored' = ignored
          /\ \/ l > 0 /\ Len(rows) > l /\ rows' = SubSeq(rows, 1, l)
             \/ rows' = rows
        BY <1>12, Zenon DEF LimitRows, answerVars
    <2>2. l \in Int
        BY DEF ParserInv, ParamsOK
    <2> HIDE DEF l
    <2>3. rows' \in Seq(1..N)
        BY <1>1, <1>b, <2>1, <2>2, Zenon
    <2> QED
        BY <1>1, <1>3, <2>1, <2>3
<1>13. CASE ProjectRows
    <2>1. /\ table' = table /\ k' = k /\ ignored' = ignored
          /\ rows' = rows \/ \E X : rows' = Among(rows, X)
        BY <1>13, Zenon DEF ProjectRows, answerVars
    <2> QED
        BY <1>1, <1>3, <1>4, <2>1
<1> QED
    BY <1>5, <1>6, <1>7, <1>8, <1>9, <1>10, <1>11, <1>12, <1>13, Zenon DEF Handler

\* A bool that is read is TRUE or FALSE.
LEMMA EvaluationStep ==
    ASSUME ParserInv, HandlerInv', EvaluationInv, Handler
    PROVE  EvaluationInv'
<1>1. conds' = conds /\ Len(conds) \in Nat
    BY HandlerPlaces DEF ParserInv
<1>2. CASE EvaluateRow
    <2>1. place' = "rows" /\ conds' # <<>>
        BY <1>1, <1>2, Zenon DEF EvaluateRow, parserVars
    <2>2. IInv'
        BY <2>1 DEF HandlerInv, LoopInv
    <2> QED
        BY <2>2 DEF IInv, TypeOK, EvaluationInv
<1>3. CASE EndRow
    <2>1. i' = 0
        BY <1>3, Zenon DEF EndRow
    <2> QED
        BY <1>1, <2>1 DEF EvaluationInv
<1>4. CASE i' = i /\ result' = result
    BY <1>1, <1>4 DEF EvaluationInv
<1>5. Handler => EvaluateRow \/ EndRow \/ (i' = i /\ result' = result)
    BY Zenon DEF Handler, NoTable, RefuseCount, Load, TakeAll, RefuseRow, EndRows, Overwrite,
       CountRows, GroupRows, OrderRows, LimitRows, ProjectRows, AnswerRows, Answer, vars
<1> QED
    BY <1>2, <1>3, <1>4, <1>5

\* The codes of the answers.
LEMMA ReplyStep ==
    ASSUME reply.code \in {-1, 0, 1, 3, 423}, Handler \/ RefuseText
    PROVE  reply'.code \in {-1, 0, 1, 3, 423}
<1>1. CASE reply' = reply
    BY <1>1
<1>2. CASE \/ RefuseRow \/ RefuseText \/ NoTable \/ RefuseCount
           \/ Overwrite \/ CountRows \/ AnswerRows
    <2>1. ASSUME RefuseRow \/ RefuseText \/ NoTable \/ RefuseCount
          PROVE  reply' = [code |-> 3] \/ reply' = [code |-> 423] \/ reply' = [code |-> 1]
        BY <2>1, Zenon DEF RefuseRow, RefuseText, NoTable, RefuseCount, Answer
    <2>2. ASSUME Overwrite \/ CountRows
          PROVE  \E n : reply' = [code |-> 0, count |-> n]
        BY <2>2, ZenonT(40) DEF Overwrite, CountRows
    <2>3. ASSUME AnswerRows
          PROVE  \E a, w : reply' = [code |-> 0, aliased |-> a, wrapped |-> w]
        BY <2>3, ZenonT(40) DEF AnswerRows, Answer
    <2> QED
        BY <1>2, <2>1, <2>2, <2>3
<1>3. Handler => \/ RefuseRow \/ NoTable \/ RefuseCount \/ reply' = reply
                 \/ Overwrite \/ CountRows \/ AnswerRows
    BY Zenon DEF Handler, Load, TakeAll, EvaluateRow, EndRow, EndRows, GroupRows,
       OrderRows, LimitRows, ProjectRows, answerVars
<1> QED
    BY <1>1, <1>2, <1>3

\* The types are kept by every step.
LEMMA CommandTypesStep ==
    ASSUME CommandInv, CommandInv', RefusalInv, CommandTypes, [CommandNext]_commandVars
    PROVE  CommandTypes'
<1>1. TextInv /\ ParserInv /\ ParserInv' /\ HandlerInv /\ HandlerInv'
    BY DEF CommandInv
<1>2. BuilderTypeOK' /\ PosInv'
    BY <1>1, BuilderTypesStep, PosStep DEF CommandTypes
<1>3. ASSUME place' \in Parsing
      PROVE  RowsInv' /\ EvaluationInv' /\ AnswerInv'
    <2>1. Fresh' /\ \E C : conds' \in Seq(C)
        BY <1>1, <1>3 DEF ParserInv
    <2>2. RowsInv' /\ EvaluationInv' /\ reply'.code \in {-1, 0, 1, 3, 423}
        BY <2>1, FreshTypes
    <2> QED
        BY <1>3, <2>2 DEF AnswerInv, Parsing
<1>4. CASE Handler
    <2>1. RowsInv' /\ EvaluationInv' /\ reply'.code \in {-1, 0, 1, 3, 423}
        BY <1>1, <1>4, RowsStep, EvaluationStep, ReplyStep DEF CommandTypes, AnswerInv
    <2>2. place' \in {"rows", "count", "write", "group", "order", "limit", "project",
                      "answer", "end"}
        BY <1>4, HandlerPlaces
    <2> QED
        BY <1>2, <2>1, <2>2 DEF CommandTypes, AnswerInv
<1>5. CASE RefuseText
    <2>1. /\ place' = "end" /\ UNCHANGED <<vars, rowVars, ignored>>
        BY <1>5, Zenon DEF RefuseText, Answer
    <2>2. RowsInv' /\ EvaluationInv'
        BY <2>1 DEF CommandTypes, RowsInv, EvaluationInv, vars, rowVars
    <2>3. reply'.code \in {-1, 0, 1, 3, 423}
        BY <1>5, ReplyStep DEF CommandTypes, AnswerInv
    <2> QED
        BY <1>2, <2>1, <2>2, <2>3 DEF CommandTypes, AnswerInv
<1>6. CASE Parser /\ ~RefuseText
    <2>1. \E np \in {"clauses", "where", "load"} : \E q, ps, cs : Parse(np, q, ps, cs)
        BY <1>6, Zenon DEF Parser, GetHead, RemoveValue, RemoveWhere, ChangeAll,
           ChangeWhere, CountHead, WhereClause, MoreCondition, EndGetConditions,
           EndConditions, GroupClause, OrderClause, LimitClause, SkipWord, EndText
    <2>2. place' \in Parsing
        BY <2>1, Zenon DEF Parse, Parsing
    <2> QED
        BY <1>2, <1>3, <2>2 DEF CommandTypes
<1>7. CASE UNCHANGED <<vars, parserVars, rowVars, answerVars>>
    <2>1. RowsInv' /\ EvaluationInv' /\ AnswerInv'
        BY <1>7 DEF CommandTypes, RowsInv, EvaluationInv, AnswerInv, vars, parserVars,
           rowVars, answerVars
    <2> QED
        BY <1>2, <2>1 DEF CommandTypes
<1>8. UNCHANGED commandVars => UNCHANGED <<vars, parserVars, rowVars, answerVars>>
    BY DEF commandVars
<1> QED
    BY <1>4, <1>5, <1>6, <1>7, <1>8, Zenon DEF CommandNext, Server

\* The types of RowCommands: in particular, the parser never reads more than three
\* words beyond the text, the loop not behind the row after the last, and only rows
\* of the table are answered.
THEOREM TypesOfCommands == CommandSpec => []CommandTypeOK
<1>1. CommandInit => CommandTypes
    <2> SUFFICES ASSUME CommandInit
                 PROVE  CommandTypes
        OBVIOUS
    <2>1. /\ calls = <<>> /\ command = <<>> /\ text = <<>> /\ place = "head" /\ pos = 1
          /\ conds = <<>> /\ i = 0 /\ table = <<>> /\ k = 1 /\ rows = <<>> /\ ignored = 0
          /\ reply = NoReply
        BY Zenon DEF CommandInit, BuilderInit
    <2>2. BuilderTypeOK
        <3>1. Len(calls) = 0 /\ DOMAIN calls = {}
            BY <2>1
        <3>3. MaxCalls \in Nat
            BY BuilderAssumption, Zenon
        <3>2. Len(text) = 0 /\ Len(command) = 0 /\ DOMAIN text = {}
            BY <2>1
        <3> QED
            BY <2>1, <3>1, <3>2, <3>3 DEF BuilderTypeOK
    <2>3. RowsInv
        <3>1. <<>> \in Seq({}) /\ <<>> \in Seq(1..0) /\ Len(<<>>) = 0
            OBVIOUS
        <3> QED
            BY <2>1, <3>1 DEF RowsInv
    <2>4. EvaluationInv /\ PosInv /\ AnswerInv
        BY <2>1 DEF EvaluationInv, PosInv, AnswerInv, NoReply
    <2> QED
        BY <2>2, <2>3, <2>4 DEF CommandTypes
<1>2. CommandTypes => CommandTypeOK
    BY DEF CommandTypes, RowsInv, EvaluationInv, PosInv, AnswerInv, CommandTypeOK
<1>3. CommandInv /\ CommandInv' /\ RefusalInv /\ CommandTypes /\ [CommandNext]_commandVars
         => CommandTypes'
    BY CommandTypesStep
<1> QED
    BY <1>1, <1>2, <1>3, CommandInvariance, RefusalInvariance, PTL DEF CommandSpec

-----------------------------------------------------------------------------
(* What the client has said, call by call.                                 *)

\* The words of a call; those of count() are its arguments, which it does not keep.
Ending(order) == IF order = "" THEN <<>> ELSE <<W(order)>>

Saying(call) ==
    CASE call.call = "select"  -> <<W("GET"), W(call.fields)>>
      [] call.call = "change"  -> <<W("CHANGE")>>
      [] call.call = "remove"  -> <<W("REMOVE")>>
      [] call.call = "from"    -> <<W("IN"), W(call.table)>>
      [] call.call = "as"      -> <<W("AS"), W("alias")>>
      [] call.call = "where"   -> <<W(call.word), W(call.field), W(call.op), V(call.value)>>
      [] call.call = "groupBy" -> <<W("GROUP"), W("BY"), W(call.field)>>
      [] call.call = "orderBy" -> <<W("ORDER"), W("BY"), W(call.field)>> \o Ending(call.order)
      [] call.call = "limit"   -> <<W("LIMIT"), [limit |-> call.limit]>>
      [] call.call = "set"     -> <<W(call.field), W("="), V(call.value)>>
      [] call.call = "value"   -> <<V(call.value)>>

\* What a client may say: the calls there are, and the names it uses.
Heads == {"select", "change", "remove", "count"}
Clauses == {"groupBy", "orderBy", "limit"}
Keywords == {"GET", "COUNT", "WHERE", "GROUP", "ORDER", "LIMIT"}

Allowed(call) ==
    /\ call.call \in Heads \cup Clauses \cup {"from", "as", "where", "set", "value"}
    /\ call.call = "where" => /\ call.word \in {"WHERE", "AND", "OR"}
                              /\ call.field \notin Keywords /\ call.op \notin Keywords
    /\ call.call \in {"groupBy", "orderBy", "set"} => call.field \notin Keywords
    /\ call.call = "select" => call.fields \notin Keywords
    /\ call.call = "from" => call.table \notin Keywords \cup {"IN", "="}
    /\ call.call = "orderBy" => Ending(call.order) \in {<<>>, <<W("ASC")>>, <<W("DESC")>>}

\* When it may say it.
Timely(call) ==
    /\ call.call \in Heads <=> calls = <<>>
    /\ call.call \in {"from", "as", "set", "value"} => ~Called(call.call)
    /\ call.call \in Clauses \cup {"as"} => StartedBy("select")
    /\ call.call = "set" => StartedBy("change")
    /\ call.call = "value" => StartedBy("remove")
    /\ call.call \in Clauses => Called("from")
    /\ call.call = "where" => (StartedBy("select") => Called("from"))
    /\ (call.call = "where" /\ call.word # "WHERE") => Says("WHERE")

Spoken(call, words) ==
    /\ Allowed(call) /\ Timely(call)
    /\ \E C : words \in Seq(C)
    /\ IF call.call = "count" THEN Len(words) = 3 /\ words[1] = W("COUNT")
       ELSE words = Saying(call)

\* The order is one of the two words or none.
LEMMA Endings ==
    ASSUME NEW a \in OrderArg
    PROVE  /\ Ending(a[2]) = <<>> \/ Ending(a[2]) = <<W("ASC")>> \/ Ending(a[2]) = <<W("DESC")>>
BY BuilderAssumption, Zenon DEF Ending

\* Sequences of up to four words are sequences.
LEMMA ShortSequences ==
    ASSUME NEW a, NEW b, NEW c, NEW d
    PROVE  /\ \E C : <<a>> \in Seq(C)
           /\ \E C : <<a, b>> \in Seq(C)
           /\ \E C : <<a, b, c>> \in Seq(C)
           /\ \E C : <<a, b, c, d>> \in Seq(C)
<1>1. /\ <<a>> \in Seq({a}) /\ <<a, b>> \in Seq({a, b})
      /\ <<a, b, c>> \in Seq({a, b, c}) /\ <<a, b, c, d>> \in Seq({a, b, c, d})
    OBVIOUS
<1> QED
    BY <1>1

\* Each call says its words when it may, or the command is sent.
LEMMA ClientSpeaks ==
    ASSUME BuilderNext, Says("WHERE") => calls # <<>>
    PROVE  \/ \E call, words : Say(call, words) /\ Spoken(call, words)
           \/ /\ calls' = calls /\ command' = command /\ calls # <<>>
              /\ Cut(text')
<1> DEFINE Tells == \E call, words : Say(call, words) /\ Spoken(call, words)
<1>n. /\ \A f \in SelectArg \cup GroupArg : f \notin Keywords
      /\ \A a \in WhereArg \cup WriteArg : a[1] \notin Keywords /\ a[2] \notin Keywords
      /\ \A a \in OrderArg : a[1] \notin Keywords
      /\ \A a \in SetArg : a[1] \notin Keywords
      /\ \A t \in TableArg : t \notin Keywords \cup {"IN", "="}
    BY NameAssumption DEF Keywords
<1>1. ASSUME Select PROVE Tells
    <2>1. PICK f \in SelectArg : /\ calls = <<>>
                                 /\ Say([call |-> "select", fields |-> f], <<W("GET"), W(f)>>)
        BY <1>1, Zenon DEF Select
    <2>2. f \notin Keywords
        BY <1>n
    <2>3. Allowed([call |-> "select", fields |-> f]) /\ Timely([call |-> "select", fields |-> f])
        BY <2>1, <2>2 DEF Allowed, Timely, Heads, Clauses
    <2>4. Saying([call |-> "select", fields |-> f]) = <<W("GET"), W(f)>>
        BY DEF Saying
    <2>5. Spoken([call |-> "select", fields |-> f], <<W("GET"), W(f)>>)
        BY <2>3, <2>4, ShortSequences DEF Spoken
    <2> QED
        BY <2>1, <2>5
<1>2. ASSUME Change PROVE Tells
    <2> DEFINE call == [call |-> "change"]
    <2>1. calls = <<>> /\ Say(call, <<W("CHANGE")>>)
        BY <1>2, Zenon DEF Change
    <2>2. Spoken(call, <<W("CHANGE")>>)
        BY <2>1, ShortSequences DEF Spoken, Allowed, Timely, Heads, Clauses, Saying
    <2> QED
        BY <2>1, <2>2
<1>3. ASSUME Remove PROVE Tells
    <2> DEFINE call == [call |-> "remove"]
    <2>1. calls = <<>> /\ Say(call, <<W("REMOVE")>>)
        BY <1>3, Zenon DEF Remove
    <2>2. Spoken(call, <<W("REMOVE")>>)
        BY <2>1, ShortSequences DEF Spoken, Allowed, Timely, Heads, Clauses, Saying
    <2> QED
        BY <2>1, <2>2
<1>4. ASSUME From PROVE Tells
    <2>1. PICK t \in TableArg : /\ calls # <<>> /\ ~Called("from")
                                /\ Say([call |-> "from", table |-> t], <<W("IN"), W(t)>>)
        BY <1>4, Zenon DEF From
    <2> DEFINE call == [call |-> "from", table |-> t]
    <2>3. t \notin Keywords \cup {"IN", "="}
        BY <1>n
    <2>2. Spoken(call, <<W("IN"), W(t)>>)
        BY <2>1, <2>3, ShortSequences DEF Spoken, Allowed, Timely, Heads, Clauses, Saying
    <2> QED
        BY <2>1, <2>2
<1>5. ASSUME As PROVE Tells
    <2> DEFINE call == [call |-> "as"]
    <2>1. StartedBy("select") /\ ~Called("as") /\ Say(call, <<W("AS"), W("alias")>>)
        BY <1>5, Zenon DEF As
    <2>2. Spoken(call, <<W("AS"), W("alias")>>)
        BY <2>1, ShortSequences DEF Spoken, Allowed, Timely, Heads, Clauses, Saying, StartedBy
    <2> QED
        BY <2>1, <2>2
<1>6. ASSUME Where \/ WriteWhere PROVE Tells
    <2>1. PICK word \in {"WHERE", "AND", "OR"}, a \in WhereArg \cup WriteArg :
             /\ SayWhere(word, a) /\ calls # <<>> /\ MayAdd("where")
             /\ word # "WHERE" => Says("WHERE")
        <3>1. CASE Where
            BY <3>1, Zenon DEF Where
        <3>2. CASE WriteWhere
            <4>1. PICK word \in {"OR", "WHERE"}, a \in WriteArg :
                     Says("WHERE") /\ MayAdd("where") /\ SayWhere(word, a)
                BY <3>2, Zenon DEF WriteWhere
            <4>2. calls # <<>>
                BY <4>1
            <4> QED
                BY <4>1, <4>2, Zenon
        <3> QED
            BY <1>6, <3>1, <3>2
    <2> DEFINE call == [call |-> "where", word |-> word, field |-> a[1], op |-> a[2],
                        value |-> a[3]]
    <2>2. a[1] \notin Keywords /\ a[2] \notin Keywords
        BY <1>n
    <2>3. Say(call, <<W(word), W(a[1]), W(a[2]), V(a[3])>>)
        BY <2>1 DEF SayWhere
    <2>4. StartedBy("select") => Called("from")
        BY <2>1 DEF MayAdd
    <2>5. Allowed(call) /\ Timely(call)
        BY <2>1, <2>2, <2>4 DEF Allowed, Timely, Heads, Clauses
    <2>6. Saying(call) = <<W(word), W(a[1]), W(a[2]), V(a[3])>>
        BY DEF Saying
    <2>7. Spoken(call, <<W(word), W(a[1]), W(a[2]), V(a[3])>>)
        <3> HIDE DEF call
        <3>1. call.call # "count"
            BY DEF call
        <3> QED
            BY <2>5, <2>6, <3>1, ShortSequences DEF Spoken
    <2> QED
        BY <2>3, <2>7
<1>7. ASSUME GroupBy PROVE Tells
    <2>1. PICK f \in GroupArg : /\ StartedBy("select") /\ MayAdd("groupBy")
                                /\ Say([call |-> "groupBy", field |-> f],
                                       <<W("GROUP"), W("BY"), W(f)>>)
        BY <1>7, Zenon DEF GroupBy
    <2> DEFINE call == [call |-> "groupBy", field |-> f]
    <2>2. f \notin Keywords /\ Called("from") /\ calls # <<>>
        BY <1>n, <2>1 DEF MayAdd, StartedBy
    <2>3. Spoken(call, <<W("GROUP"), W("BY"), W(f)>>)
        BY <2>1, <2>2, ShortSequences DEF Spoken, Allowed, Timely, Heads, Clauses, Saying
    <2> QED
        BY <2>1, <2>3
<1>8. ASSUME OrderBy PROVE Tells
    <2>1. PICK a \in OrderArg :
             /\ StartedBy("select") /\ MayAdd("orderBy")
             /\ Say([call |-> "orderBy", field |-> a[1], order |-> a[2]],
                    <<W("ORDER"), W("BY"), W(a[1])>> \o Ending(a[2]))
        BY <1>8, Zenon DEF OrderBy, Ending
    <2> DEFINE call == [call |-> "orderBy", field |-> a[1], order |-> a[2]]
    <2>2. a[1] \notin Keywords /\ Called("from") /\ calls # <<>>
        BY <1>n, <2>1 DEF MayAdd, StartedBy
    <2>3. Allowed(call) /\ Timely(call)
        <3>1. Ending(call.order) \in {<<>>, <<W("ASC")>>, <<W("DESC")>>}
            BY Endings
        <3> QED
            BY <2>1, <2>2, <3>1 DEF Allowed, Timely, Heads, Clauses
    <2>4. Saying(call) = <<W("ORDER"), W("BY"), W(a[1])>> \o Ending(a[2])
        BY DEF Saying
    <2>5. \E C : <<W("ORDER"), W("BY"), W(a[1])>> \o Ending(a[2]) \in Seq(C)
        <3> DEFINE s == <<W("ORDER"), W("BY"), W(a[1])>>
        <3>1. \/ s \o Ending(a[2]) = s
              \/ \E v : s \o Ending(a[2]) = <<W("ORDER"), W("BY"), W(a[1]), v>>
            BY Endings, LongerByOne
        <3>2. \A v : \E C : <<W("ORDER"), W("BY"), W(a[1]), v>> \in Seq(C)
            BY ShortSequences
        <3>3. \E C : s \in Seq(C)
            BY ShortSequences
        <3> HIDE DEF s
        <3>4. \E C : s \o Ending(a[2]) \in Seq(C)
            BY <3>1, <3>2, <3>3
        <3> QED
            BY <3>4 DEF s
    <2>6. Spoken(call, <<W("ORDER"), W("BY"), W(a[1])>> \o Ending(a[2]))
        <3>1. call.call # "count"
            OBVIOUS
        <3> HIDE DEF call
        <3> QED
            BY <2>3, <2>4, <2>5, <3>1 DEF Spoken
    <2> QED
        BY <2>1, <2>6
<1>9. ASSUME Limit PROVE Tells
    <2>1. PICK n \in LimitArg : /\ StartedBy("select") /\ MayAdd("limit")
                                /\ Say([call |-> "limit", limit |-> n],
                                       <<W("LIMIT"), [limit |-> n]>>)
        BY <1>9, Zenon DEF Limit
    <2> DEFINE call == [call |-> "limit", limit |-> n]
    <2>2. Called("from") /\ calls # <<>>
        BY <2>1 DEF MayAdd, StartedBy
    <2>3. Spoken(call, <<W("LIMIT"), [limit |-> n]>>)
        BY <2>1, <2>2, ShortSequences DEF Spoken, Allowed, Timely, Heads, Clauses, Saying
    <2> QED
        BY <2>1, <2>3
<1>10. ASSUME Set PROVE Tells
    <2>1. PICK a \in SetArg : /\ StartedBy("change") /\ ~Called("set")
                              /\ Say([call |-> "set", field |-> a[1], value |-> a[2]],
                                     <<W(a[1]), W("="), V(a[2])>>)
        BY <1>10, Zenon DEF Set
    <2> DEFINE call == [call |-> "set", field |-> a[1], value |-> a[2]]
    <2>2. a[1] \notin Keywords /\ calls # <<>>
        BY <1>n, <2>1 DEF StartedBy
    <2>3. Spoken(call, <<W(a[1]), W("="), V(a[2])>>)
        BY <2>1, <2>2, ShortSequences DEF Spoken, Allowed, Timely, Heads, Clauses, Saying
    <2> QED
        BY <2>1, <2>3
<1>11. ASSUME Value PROVE Tells
    <2>1. PICK t \in ValueArg : /\ StartedBy("remove") /\ ~Called("value")
                                /\ Say([call |-> "value", value |-> t], <<V(t)>>)
        BY <1>11, Zenon DEF Value
    <2> DEFINE call == [call |-> "value", value |-> t]
    <2>2. calls # <<>>
        BY <2>1 DEF StartedBy
    <2>3. Spoken(call, <<V(t)>>)
        BY <2>1, <2>2, ShortSequences DEF Spoken, Allowed, Timely, Heads, Clauses, Saying
    <2> QED
        BY <2>1, <2>3
<1>12. ASSUME Count PROVE Tells
    <2>1. PICK x, t : calls = <<>> /\ Say([call |-> "count"], <<W("COUNT"), W(t), x>>)
        BY <1>12, Zenon DEF Count
    <2> DEFINE call == [call |-> "count"]
    <2>2. Spoken(call, <<W("COUNT"), W(t), x>>)
        <3>1. Allowed(call) /\ Timely(call)
            BY <2>1 DEF Allowed, Timely, Heads, Clauses
        <3>2. Len(<<W("COUNT"), W(t), x>>) = 3 /\ <<W("COUNT"), W(t), x>>[1] = W("COUNT")
            OBVIOUS
        <3> QED
            BY <3>1, <3>2, ShortSequences DEF Spoken
    <2> QED
        BY <2>1, <2>2
<1>13. ASSUME Get
       PROVE  /\ calls' = calls /\ command' = command /\ calls # <<>>
              /\ Cut(text')
    BY <1>13, Zenon DEF Get, Cut
<1> QED
    BY <1>1, <1>2, <1>3, <1>4, <1>5, <1>6, <1>7, <1>8, <1>9, <1>10, <1>11, <1>12, <1>13,
       Zenon DEF BuilderNext

\* The calls of a chain, in their order: a head first, the words "from" and the
\* like once, a clause of a GET behind from(), and WHERE before AND and OR.
Chain ==
    /\ \E C : calls \in Seq(C)
    /\ \A n \in 1..Len(calls) : Allowed(calls[n]) /\ (calls[n].call \in Heads <=> n = 1)
    /\ \A m, n \in 1..Len(calls) :
          (calls[m].call = calls[n].call /\ calls[m].call \in {"from", "as", "set", "value"})
             => m = n
    /\ \A n \in 1..Len(calls) :
          /\ calls[n].call \in Clauses \cup {"as"} => calls[1].call = "select"
          /\ calls[n].call = "set" => calls[1].call = "change"
          /\ calls[n].call = "value" => calls[1].call = "remove"
          /\ (calls[n].call \in Clauses \/ (calls[n].call = "where" /\ calls[1].call = "select"))
                => \E m \in 1..(n - 1) : calls[m].call = "from"
          /\ (calls[n].call = "where" /\ calls[n].word # "WHERE")
                => \E m \in 1..(n - 1) : calls[m].call = "where"

\* Where the words of call n end, when those of the calls begin at start.
EndOf(start, n) == IF n = Len(calls) THEN Len(command) + 1 ELSE start[n + 1]

\* start says where the words of each call stand.
Stands(start) ==
    /\ start \in Seq(Nat) /\ Len(start) = Len(calls)
    /\ calls # <<>> => start[1] = 1
    /\ \A n \in 1..Len(calls) :
          /\ start[n] >= 1 /\ start[n] + Len(Saying(calls[n])) = EndOf(start, n)
          /\ Len(Saying(calls[n])) \in Nat /\ EndOf(start, n) <= Len(command) + 1
          /\ \A p \in 1..Len(Saying(calls[n])) :
                command[start[n] + p - 1] = Saying(calls[n])[p]

Spelt ==
    /\ calls = <<>> => command = <<>>
    /\ IF StartedBy("count") THEN command # <<>> /\ command[1] = W("COUNT")
       ELSE \E start : Stands(start)

SpeechInv == Chain /\ Spelt /\ (text # <<>> => calls # <<>>)

\* A call more keeps the order of the calls.
LEMMA ChainMore ==
    ASSUME Chain, TextInv, NEW start, Laid(start), NEW call, NEW words,
           Say(call, words), Spoken(call, words)
    PROVE  Chain'
<1> DEFINE N == Len(calls)
<1>1. calls' = Append(calls, call)
    BY Zenon DEF Say
<1>2. PICK C : calls \in Seq(C)
    BY DEF Chain
<1>3. /\ calls' \in Seq(C \cup {call}) /\ N \in Nat /\ Len(calls') = N + 1
      /\ \A n \in 1..N : calls'[n] = calls[n]
      /\ calls'[N + 1] = call
      /\ calls = <<>> <=> N = 0
      /\ DOMAIN calls = 1..N
    BY <1>1, <1>2
<1>4. Allowed(call) /\ Timely(call)
    BY DEF Spoken
<1>5. \A n \in 1..(N + 1) : n = N + 1 \/ n \in 1..N
    BY <1>3
<1>6. Says("WHERE") => \E m \in 1..N : calls[m].call = "where"
    <2>1. PICK D : command \in Seq(D)
        BY DEF TextInv, Phrase, Words
    <2>2. DOMAIN command = 1..Len(command)
        BY <2>1
    <2> QED
        BY <2>2, Zenon DEF Says, Laid
<1>7. /\ \A name : Called(name) <=> \E m \in 1..N : calls[m].call = name
      /\ \A name : StartedBy(name) <=> N # 0 /\ calls[1].call = name
    BY <1>3, Zenon DEF Called, StartedBy
<1>8. N # 0 => 1 \in 1..N /\ calls'[1] = calls[1]
    BY <1>3
<1> HIDE DEF N
<1>9. \A n \in 1..(N + 1) : /\ Allowed(calls'[n])
                            /\ (calls'[n].call \in Heads <=> n = 1)
    <2>1. Allowed(call) /\ (call.call \in Heads <=> N + 1 = 1)
        BY <1>3, <1>4 DEF Timely
    <2>2. \A n \in 1..N : Allowed(calls[n]) /\ (calls[n].call \in Heads <=> n = 1)
        BY Zenon DEF Chain, N
    <2> QED
        BY <1>3, <1>5, <2>1, <2>2
<1>10. ASSUME NEW m \in 1..(N + 1), NEW n \in 1..(N + 1), calls'[m].call = calls'[n].call,
              calls'[m].call \in {"from", "as", "set", "value"}
       PROVE  m = n
    <2>1. CASE m \in 1..N /\ n \in 1..N
        BY <1>3, <1>10, <2>1 DEF Chain, N
    <2>2. ASSUME NEW p \in 1..N, calls[p].call = call.call,
                 call.call \in {"from", "as", "set", "value"}
          PROVE  FALSE
        BY <1>4, <1>7, <2>2, Zenon DEF Timely
    <2> QED
        BY <1>3, <1>5, <1>10, <2>1, <2>2
<1>11. ASSUME NEW n \in 1..(N + 1)
       PROVE  /\ calls'[n].call \in Clauses \cup {"as"} => calls'[1].call = "select"
              /\ calls'[n].call = "set" => calls'[1].call = "change"
              /\ calls'[n].call = "value" => calls'[1].call = "remove"
              /\ (calls'[n].call \in Clauses
                     \/ (calls'[n].call = "where" /\ calls'[1].call = "select"))
                    => \E m \in 1..(n - 1) : calls'[m].call = "from"
              /\ (calls'[n].call = "where" /\ calls'[n].word # "WHERE")
                    => \E m \in 1..(n - 1) : calls'[m].call = "where"
    <2>1. CASE n \in 1..N
        <3>1. \A m \in 1..(n - 1) : m \in 1..N /\ calls'[m] = calls[m]
            BY <1>3, <2>1
        <3>2. calls'[n] = calls[n] /\ calls'[1] = calls[1]
            BY <1>3, <1>8, <2>1
        <3> QED
            BY <2>1, <3>1, <3>2 DEF Chain, N
    <2>2. CASE n = N + 1
        <3>1. 1..(n - 1) = 1..N /\ \A m \in 1..N : calls'[m].call = calls[m].call
            BY <1>3, <2>2
        <3>2. calls'[n] = call
            BY <1>3, <2>2
        <3>3. /\ StartedBy("select") => calls'[1].call = "select"
              /\ StartedBy("change") => calls'[1].call = "change"
              /\ StartedBy("remove") => calls'[1].call = "remove"
            BY <1>7, <1>8
        <3>4. call.call = "where" /\ calls'[1].call = "select" => StartedBy("select")
            <4>1. N = 0 => calls'[1] = call
                BY <1>3
            <4> QED
                BY <1>7, <1>8, <4>1
        <3>5. /\ call.call \in Clauses \cup {"as"} => calls'[1].call = "select"
              /\ call.call = "set" => calls'[1].call = "change"
              /\ call.call = "value" => calls'[1].call = "remove"
            BY <1>4, <3>3 DEF Timely
        <3>6. call.call \in Clauses \/ (call.call = "where" /\ calls'[1].call = "select")
                 => \E m \in 1..(n - 1) : calls'[m].call = "from"
            <4>1. call.call \in Clauses \/ (call.call = "where" /\ calls'[1].call = "select")
                     => Called("from")
                BY <1>4, <3>4 DEF Timely
            <4> QED
                BY <1>7, <3>1, <4>1, ZenonT(60)
        <3>7. call.call = "where" /\ call.word # "WHERE"
                 => \E m \in 1..(n - 1) : calls'[m].call = "where"
            BY <1>4, <1>6, <3>1 DEF Timely
        <3> QED
            BY <3>2, <3>5, <3>6, <3>7
    <2> QED
        BY <1>5, <2>1, <2>2
<1>12. \E D : calls' \in Seq(D)
    BY <1>3
<1> QED
    BY <1>3, <1>9, <1>10, <1>11, <1>12 DEF Chain

\* The words of a call more stand behind those of the others.
LEMMA StandsMore ==
    ASSUME Chain, TextInv, calls = <<>> => command = <<>>, NEW start, Stands(start),
           NEW call, NEW words, Say(call, words), words = Saying(call),
           \E C : words \in Seq(C)
    PROVE  \E st : Stands(st)'
<1> DEFINE N == Len(calls)  L == Len(command)
<1>st. PICK st : st = Append(start, L + 1)
    OBVIOUS
<1>1. /\ calls' = Append(calls, call) /\ command' = command \o words
    BY Zenon DEF Say
<1>2. PICK C : calls \in Seq(C)
    BY DEF Chain
<1>3. PICK D : command \in Seq(D)
    BY DEF TextInv, Phrase, Words
<1>4. PICK E : words \in Seq(E)
    OBVIOUS
<1>5. /\ N \in Nat /\ Len(calls') = N + 1
      /\ \A n \in 1..N : calls'[n] = calls[n]
      /\ calls'[N + 1] = call
      /\ N = 0 => calls = <<>>
      /\ calls' # <<>>
    BY <1>1, <1>2
<1>6. /\ L \in Nat /\ Len(words) \in Nat /\ Len(command') = L + Len(words)
      /\ \A p \in 1..L : command'[p] = command[p]
      /\ \A p \in 1..Len(words) : command'[L + p] = words[p]
    <2>1. command \in Seq(D \cup E) /\ words \in Seq(D \cup E)
        BY <1>3, <1>4
    <2> QED
        BY <1>1, <2>1
<1>7. /\ start \in Seq(Nat) /\ Len(start) = N
      /\ st \in Seq(Nat) /\ Len(st) = N + 1 /\ st[N + 1] = L + 1
      /\ \A n \in 1..N : st[n] = start[n] /\ start[n] \in Nat
    BY <1>5, <1>6, <1>st DEF Stands
<1>8. st[1] = 1
    <2>1. CASE N = 0
        <3>1. L = 0
            BY <1>5, <2>1
        <3> QED
            BY <1>7, <2>1, <3>1
    <2>2. CASE N # 0
        <3>1. calls # <<>> /\ 1 \in 1..N
            BY <1>5, <2>2
        <3> QED
            BY <1>7, <3>1 DEF Stands
    <2> QED
        BY <2>1, <2>2
<1> HIDE DEF N, L
<1>9. ASSUME NEW n \in 1..(N + 1)
      PROVE  /\ st[n] >= 1 /\ st[n] + Len(Saying(calls'[n])) = EndOf(st, n)'
             /\ Len(Saying(calls'[n])) \in Nat /\ EndOf(st, n)' <= Len(command') + 1
             /\ \A p \in 1..Len(Saying(calls'[n])) :
                   command'[st[n] + p - 1] = Saying(calls'[n])[p]
    <2>1. EndOf(st, n)' = IF n = N + 1 THEN Len(command') + 1 ELSE st[n + 1]
        BY <1>5 DEF EndOf
    <2>2. CASE n = N + 1
        <3>1. calls'[n] = call /\ st[n] = L + 1
            BY <1>5, <1>7, <2>2
        <3>2. \A p \in 1..Len(words) : (L + 1) + p - 1 = L + p
            BY <1>6
        <3> QED
            BY <1>6, <2>1, <2>2, <3>1, <3>2, SMTT(30)
    <2>3. CASE n \in 1..N
        <3>1. /\ start[n] >= 1 /\ start[n] + Len(Saying(calls[n])) = EndOf(start, n)
              /\ Len(Saying(calls[n])) \in Nat /\ EndOf(start, n) <= L + 1
              /\ \A p \in 1..Len(Saying(calls[n])) :
                    command[start[n] + p - 1] = Saying(calls[n])[p]
            BY <2>3, Zenon DEF Stands, N, L
        <3>2. calls'[n] = calls[n] /\ st[n] = start[n] /\ start[n] \in Nat
            BY <1>5, <1>7, <2>3
        <3>3. EndOf(st, n)' = EndOf(start, n)
            <4>1. n # N + 1
                BY <1>5, <2>3
            <4>2. CASE n = N
                BY <1>7, <2>1, <4>1, <4>2 DEF EndOf, N, L
            <4>3. CASE n # N
                <5>1. n + 1 \in 1..N
                    BY <1>5, <2>3, <4>3
                <5> QED
                    BY <1>7, <2>1, <4>1, <4>3, <5>1 DEF EndOf, N
            <4> QED
                BY <4>2, <4>3
        <3> DEFINE e == EndOf(start, n)  w == Saying(calls[n])
        <3> HIDE DEF e, w
        <3>4. start[n] + Len(w) = e /\ e <= L + 1 /\ start[n] >= 1 /\ Len(w) \in Nat
            BY <3>1 DEF e, w
        <3>5. ASSUME NEW p \in 1..Len(w)
              PROVE  command'[start[n] + p - 1] = w[p]
            <4>0. p \in Int /\ p >= 1 /\ p <= Len(w)
                OBVIOUS
            <4>1. start[n] + p - 1 \in 1..L
                BY <1>6, <3>2, <3>4, <4>0
            <4> QED
                BY <1>6, <3>1, <4>1 DEF w
        <3>6. e <= Len(command') + 1
            BY <1>6, <3>2, <3>4
        <3> QED
            BY <3>2, <3>3, <3>4, <3>5, <3>6 DEF e, w
    <2> QED
        BY <1>5, <2>2, <2>3
<1>10. Stands(st)'
    <2>1. Len(calls') = N + 1
        BY <1>5
    <2> QED
        BY <1>5, <1>7, <1>8, <1>9, <2>1 DEF Stands
<1> QED
    BY <1>10

\* So it is with every step.
LEMMA SpeechStep ==
    ASSUME SpeechInv, TextInv, \E start : Laid(start), [CommandNext]_commandVars
    PROVE  SpeechInv'
<1>1. PICK start : Laid(start)
    OBVIOUS
<1>2. CASE calls' = calls /\ command' = command /\ (text' # <<>> => calls # <<>>)
    <2>1. Chain'
        BY <1>2 DEF SpeechInv, Chain
    <2>2. StartedBy("count")' <=> StartedBy("count")
        BY <1>2 DEF StartedBy
    <2>3. \A st : Stands(st) => Stands(st)'
        BY <1>2 DEF Stands, EndOf
    <2>4. Spelt'
        BY <1>2, <2>2, <2>3 DEF SpeechInv, Spelt
    <2> QED
        BY <1>2, <2>1, <2>4 DEF SpeechInv
<1>3. CASE \E call, words : Say(call, words) /\ Spoken(call, words)
    <2>1. PICK call, words : Say(call, words) /\ Spoken(call, words)
        BY <1>3
    <2>2. Chain'
        BY <1>1, <2>1, ChainMore DEF SpeechInv
    <2>3. /\ calls' = Append(calls, call) /\ command' = command \o words /\ text' = text
          /\ text = <<>>
        BY <2>1, Zenon DEF Say
    <2>4. PICK C : calls \in Seq(C)
        BY DEF SpeechInv, Chain
    <2>5. PICK D : command \in Seq(D)
        BY DEF TextInv, Phrase, Words
    <2>6. PICK E : words \in Seq(E)
        BY <2>1 DEF Spoken
    <2>7. command \in Seq(D \cup E) /\ words \in Seq(D \cup E)
        BY <2>5, <2>6
    <2>8. /\ calls' # <<>> /\ (calls = <<>> => calls'[1] = call)
          /\ (calls # <<>> => calls'[1] = calls[1])
        <3>1. calls = <<>> => Len(calls) = 0
            BY <2>4
        <3>2. calls # <<>> => 1 \in 1..Len(calls)
            BY <2>4
        <3> QED
            BY <2>3, <2>4, <3>1, <3>2
    <2>9. (call.call \in Heads <=> calls = <<>>) /\ "count" \in Heads
        BY <2>1 DEF Spoken, Timely, Heads
    <2>10. /\ StartedBy("count")' <=> (IF calls = <<>> THEN call.call = "count"
                                       ELSE calls[1].call = "count")
           /\ StartedBy("count") <=> calls # <<>> /\ calls[1].call = "count"
        BY <2>8 DEF StartedBy
    <2>11. CASE StartedBy("count")'
        <3>1. command' # <<>> /\ command'[1] = W("COUNT")
            <4>1. CASE calls = <<>>
                <5>1. Len(words) = 3 /\ words[1] = W("COUNT")
                    BY <2>1, <2>10, <2>11, <4>1 DEF Spoken
                <5>2. command = <<>>
                    BY <4>1 DEF SpeechInv, Spelt
                <5>3. Len(command') = 3 /\ command'[1] = words[1] /\ command' \in Seq(D \cup E)
                    BY <2>3, <2>7, <5>1, <5>2
                <5>4. command' # <<>>
                    BY <5>3
                <5> QED
                    BY <5>1, <5>3, <5>4
            <4>2. CASE calls # <<>>
                <5>1. command # <<>> /\ command[1] = W("COUNT")
                    BY <2>10, <2>11, <4>2 DEF SpeechInv, Spelt
                <5>2. Len(command) >= 1
                    BY <2>5, <5>1
                <5>3. Len(command') >= 1 /\ command'[1] = command[1]
                      /\ command' \in Seq(D \cup E)
                    BY <2>3, <2>7, <5>2
                <5>4. command' # <<>>
                    BY <5>3
                <5> QED
                    BY <5>1, <5>3, <5>4
            <4> QED
                BY <4>1, <4>2
        <3> QED
            BY <2>2, <2>3, <2>8, <2>11, <3>1 DEF SpeechInv, Spelt
    <2>12. CASE ~StartedBy("count")'
        <3>1. call.call # "count"
            BY <2>9, <2>10, <2>12
        <3>2. words = Saying(call) /\ \E F : words \in Seq(F)
            BY <2>1, <3>1 DEF Spoken
        <3>3. ~StartedBy("count")
            BY <2>10, <2>12
        <3>4. PICK old : Stands(old)
            BY <3>3 DEF SpeechInv, Spelt
        <3>5. \E st : Stands(st)'
            BY <2>1, <3>2, <3>4, StandsMore DEF SpeechInv, Spelt
        <3> QED
            BY <2>2, <2>3, <2>8, <2>12, <3>5 DEF SpeechInv, Spelt
    <2> QED
        BY <2>11, <2>12
<1>4. CASE UNCHANGED builderVars
    <2>1. calls' = calls /\ command' = command /\ text' = text
        BY <1>4 DEF builderVars
    <2> QED
        BY <1>2, <2>1 DEF SpeechInv
<1>5. CASE BuilderNext
    <2>1. Says("WHERE") => calls # <<>>
        <3>1. PICK D : command \in Seq(D)
            BY DEF TextInv, Phrase, Words
        <3>2. DOMAIN command = 1..Len(command)
            BY <3>1
        <3>3. Says("WHERE") => 1..Len(calls) # {}
            BY <1>1, <3>2, Zenon DEF Says, Laid
        <3>4. calls = <<>> => 1..Len(calls) = {}
            OBVIOUS
        <3> QED
            BY <3>3, <3>4
    <2> QED
        BY <1>2, <1>3, <1>5, <2>1, ClientSpeaks
<1> QED
    BY <1>4, <1>5, ServerKeepsText, Zenon DEF CommandNext

-----------------------------------------------------------------------------
(* What the parser of a REMOVE or CHANGE makes of the calls.               *)

\* A condition's logic, and the conditions of where() and value().  The text "" is
\* kept inside definitions: SMT does not know it.
NoJoin == ""
JoinOf(word) == IF word = "WHERE" THEN "" ELSE word
ConditionOf(call) ==
    [field |-> call.field, op |-> Operator[call.op], value |-> call.value,
     logic |-> JoinOf(call.word)]
NameIs(v) == [field |-> "name", op |-> "==", value |-> v, logic |-> ""]

\* The words are told apart.
LEMMA WordShapes ==
    /\ \A x, y : W(x) = W(y) <=> x = y
    /\ \A x, y : W(x) # V(y)
    /\ \A x : W(x).word = x /\ V(x).value = x
<1>1. \A x : W(x).word = x /\ DOMAIN W(x) = {"word"} /\ V(x).value = x /\ DOMAIN V(x) = {"value"}
    BY DEF W, V
<1>2. "value" \notin {"word"}
    OBVIOUS
<1> QED
    BY <1>1, <1>2

\* The words of each kind of call.
LEMMA Sayings ==
    ASSUME NEW call
    PROVE  /\ call.call = "select" => Saying(call) = <<W("GET"), W(call.fields)>>
           /\ call.call = "change" => Saying(call) = <<W("CHANGE")>>
           /\ call.call = "remove" => Saying(call) = <<W("REMOVE")>>
           /\ call.call = "from" => Saying(call) = <<W("IN"), W(call.table)>>
           /\ call.call = "as" => Saying(call) = <<W("AS"), W("alias")>>
           /\ call.call = "where" =>
                 Saying(call) = <<W(call.word), W(call.field), W(call.op), V(call.value)>>
           /\ call.call = "groupBy" => Saying(call) = <<W("GROUP"), W("BY"), W(call.field)>>
           /\ call.call = "orderBy" =>
                 Saying(call) = <<W("ORDER"), W("BY"), W(call.field)>> \o Ending(call.order)
           /\ call.call = "limit" => Saying(call) = <<W("LIMIT"), [limit |-> call.limit]>>
           /\ call.call = "set" => Saying(call) = <<W(call.field), W("="), V(call.value)>>
           /\ call.call = "value" => Saying(call) = <<V(call.value)>>
BY DEF Saying

\* The order of orderBy() is a word more, or none.
LEMMA OrderSaying ==
    ASSUME NEW call, call.call = "orderBy"
    PROVE  \/ /\ call.order # "ASC" /\ call.order # "DESC"
              /\ Saying(call) = <<W("ORDER"), W("BY"), W(call.field)>>
           \/ Saying(call) = <<W("ORDER"), W("BY"), W(call.field), W(call.order)>>
<1>1. \/ Ending(call.order) = <<>> /\ call.order # "ASC" /\ call.order # "DESC"
      \/ Ending(call.order) = <<W(call.order)>>
    BY Zenon DEF Ending
<1>2. Saying(call) = <<W("ORDER"), W("BY"), W(call.field)>> \o Ending(call.order)
    BY Sayings
<1> QED
    BY <1>1, <1>2, LongerByOne

\* Which call begins with a word of the language.
LEMMA SaidFirst ==
    ASSUME NEW call, Allowed(call), call.call # "count"
    PROVE  /\ Len(Saying(call)) \in Nat \ {0}
           /\ \A word \in {"IN", "WHERE", "AND", "OR"} :
                 Saying(call)[1] = W(word) =>
                     \/ call.call = "from" /\ word = "IN"
                     \/ call.call = "where" /\ call.word = word
                     \/ call.call = "set" /\ word # "WHERE"
           /\ (Saying(call)[1] = W("REMOVE") /\ call.call \in Heads) => call.call = "remove"
           /\ (Saying(call)[1] = W("CHANGE") /\ call.call \in Heads) => call.call = "change"
<1> DEFINE s == Saying(call)
           Good(w) == /\ \A word \in {"IN", "WHERE", "AND", "OR"} :
                            w = W(word) =>
                                \/ call.call = "from" /\ word = "IN"
                                \/ call.call = "where" /\ call.word = word
                                \/ call.call = "set" /\ word # "WHERE"
                      /\ (w = W("REMOVE") /\ call.call \in Heads) => call.call = "remove"
                      /\ (w = W("CHANGE") /\ call.call \in Heads) => call.call = "change"
<1>1. CASE call.call = "select"
    <2>1. s = <<W("GET"), W(call.fields)>>
        BY <1>1, Sayings
    <2>2. Len(s) = 2 /\ s[1] = W("GET")
        BY <2>1
    <2>3. Good(W("GET"))
        BY WordShapes
    <2> QED
        BY <2>2, <2>3
<1>2. CASE call.call = "change"
    <2>1. s = <<W("CHANGE")>>
        BY <1>2, Sayings
    <2>2. Len(s) = 1 /\ s[1] = W("CHANGE")
        BY <2>1
    <2>3. Good(W("CHANGE"))
        BY <1>2, WordShapes
    <2> QED
        BY <2>2, <2>3
<1>3. CASE call.call = "remove"
    <2>1. s = <<W("REMOVE")>>
        BY <1>3, Sayings
    <2>2. Len(s) = 1 /\ s[1] = W("REMOVE")
        BY <2>1
    <2>3. Good(W("REMOVE"))
        BY <1>3, WordShapes
    <2> QED
        BY <2>2, <2>3
<1>4. CASE call.call = "from"
    <2>1. s = <<W("IN"), W(call.table)>>
        BY <1>4, Sayings
    <2>2. Len(s) = 2 /\ s[1] = W("IN")
        BY <2>1
    <2>3. Good(W("IN"))
        BY <1>4, WordShapes
    <2> QED
        BY <2>2, <2>3
<1>5. CASE call.call = "as"
    <2>1. s = <<W("AS"), W("alias")>>
        BY <1>5, Sayings
    <2>2. Len(s) = 2 /\ s[1] = W("AS")
        BY <2>1
    <2>3. Good(W("AS"))
        BY WordShapes
    <2> QED
        BY <2>2, <2>3
<1>6. CASE call.call = "where"
    <2>1. s = <<W(call.word), W(call.field), W(call.op), V(call.value)>>
        BY <1>6, Sayings
    <2>2. Len(s) = 4 /\ s[1] = W(call.word)
        BY <2>1
    <2>3. Good(W(call.word))
        BY <1>6, WordShapes DEF Heads
    <2> QED
        BY <2>2, <2>3
<1>7. CASE call.call = "groupBy"
    <2>1. s = <<W("GROUP"), W("BY"), W(call.field)>>
        BY <1>7, Sayings
    <2>2. Len(s) = 3 /\ s[1] = W("GROUP")
        BY <2>1
    <2>3. Good(W("GROUP"))
        BY WordShapes
    <2> QED
        BY <2>2, <2>3
<1>8. CASE call.call = "orderBy"
    <2>1. \/ s = <<W("ORDER"), W("BY"), W(call.field)>>
          \/ s = <<W("ORDER"), W("BY"), W(call.field), W(call.order)>>
        BY <1>8, OrderSaying
    <2>2. Len(s) \in {3, 4} /\ s[1] = W("ORDER")
        BY <2>1
    <2>3. Good(W("ORDER"))
        BY WordShapes
    <2> QED
        BY <2>2, <2>3
<1>9. CASE call.call = "limit"
    <2>1. s = <<W("LIMIT"), [limit |-> call.limit]>>
        BY <1>9, Sayings
    <2>2. Len(s) = 2 /\ s[1] = W("LIMIT")
        BY <2>1
    <2>3. Good(W("LIMIT"))
        BY WordShapes
    <2> QED
        BY <2>2, <2>3
<1>10. CASE call.call = "set"
    <2>1. s = <<W(call.field), W("="), V(call.value)>>
        BY <1>10, Sayings
    <2>2. Len(s) = 3 /\ s[1] = W(call.field)
        BY <2>1
    <2>3. call.field # "WHERE"
        BY <1>10 DEF Allowed, Keywords
    <2>4. Good(W(call.field))
        BY <1>10, <2>3, WordShapes DEF Heads
    <2> QED
        BY <2>2, <2>4
<1>11. CASE call.call = "value"
    <2>1. s = <<V(call.value)>>
        BY <1>11, Sayings
    <2>2. Len(s) = 1 /\ s[1] = V(call.value)
        BY <2>1
    <2>3. Good(V(call.value))
        BY WordShapes
    <2> QED
        BY <2>2, <2>3
<1> QED
    BY <1>1, <1>2, <1>3, <1>4, <1>5, <1>6, <1>7, <1>8, <1>9, <1>10, <1>11
       DEF Allowed, Heads, Clauses

\* The words of call n that have arrived.  The last word of a text is sure to be whole
\* only when all of the command has arrived.
LEMMA CallArrived ==
    ASSUME TextInv, Arrived, NEW start, Stands(start), NEW n \in 1..Len(calls),
           NEW p \in 1..Len(Saying(calls[n])), start[n] + p - 1 <= Len(text),
           start[n] + p - 1 < Len(text) \/ text = command
    PROVE  text[start[n] + p - 1] = Saying(calls[n])[p]
<1>1. /\ start[n] >= 1 /\ start[n] \in Nat /\ Len(Saying(calls[n])) \in Nat
      /\ command[start[n] + p - 1] = Saying(calls[n])[p]
    BY DEF Stands
<1>2. start[n] + p - 1 \in 1..Len(text)
    <2>1. Len(text) \in Nat /\ p \in Int /\ p >= 1
        BY <1>1 DEF TextInv, Words
    <2> QED
        BY <1>1, <2>1
<1>3. CASE text = command
    BY <1>1, <1>3
<1>4. CASE start[n] + p - 1 < Len(text)
    <2>1. start[n] + p - 1 # Len(text)
        <3>1. Len(text) \in Nat /\ start[n] + p - 1 \in Int
            BY <1>1 DEF TextInv, Words
        <3> QED
            BY <1>4, <3>1
    <2> QED
        BY <1>1, <1>2, <2>1 DEF Arrived, Cuts
<1> QED
    BY <1>3, <1>4

\* Word p is the table of call m, or what is left of it at the end of a cut text.
Meant(p, m) ==
    \/ text[p] = W(calls[m].table)
    \/ text # command /\ text[p] \in Beginnings(W(calls[m].table))

\* The table of from(), where it has arrived.
LEMMA TableArrived ==
    ASSUME TextInv, Arrived, NEW start, Stands(start), NEW n \in 1..Len(calls),
           calls[n].call = "from", start[n] + 1 <= Len(text)
    PROVE  Meant(start[n] + 1, n) /\ EndOf(start, n) = start[n] + 2
<1>1. Saying(calls[n]) = <<W("IN"), W(calls[n].table)>>
    BY Sayings
<1>2. Len(Saying(calls[n])) = 2 /\ Saying(calls[n])[2] = W(calls[n].table)
    BY <1>1
<1>3. /\ start[n] \in Nat /\ start[n] >= 1 /\ Len(text) \in Nat
      /\ start[n] + Len(Saying(calls[n])) = EndOf(start, n)
      /\ \A p \in 1..Len(Saying(calls[n])) :
            command[start[n] + p - 1] = Saying(calls[n])[p]
    BY DEF Stands, TextInv, Words
<1>4. 2 \in 1..Len(Saying(calls[n])) /\ start[n] + 2 - 1 = start[n] + 1
    BY <1>2, <1>3
<1>5. command[start[n] + 1] = W(calls[n].table)
    BY <1>2, <1>3, <1>4
<1>6. start[n] + 1 \in 1..Len(text)
    BY <1>3
<1>7. Meant(start[n] + 1, n)
    BY <1>5, <1>6 DEF Meant, Arrived, Cuts
<1> QED
    BY <1>2, <1>3, <1>7

\* Behind the words of call n, where the text goes on, call n + 1 begins.
LEMMA NextCall ==
    ASSUME Chain, TextInv, Arrived, NEW start, Stands(start), NEW n \in 1..Len(calls),
           EndOf(start, n) <= Len(text), EndOf(start, n) < Len(text) \/ text = command
    PROVE  /\ n + 1 \in 1..Len(calls) /\ start[n + 1] = EndOf(start, n)
           /\ Allowed(calls[n + 1]) /\ calls[n + 1].call \notin Heads
           /\ text[EndOf(start, n)] = Saying(calls[n + 1])[1]
<1>1. Len(calls) \in Nat /\ Len(command) \in Nat /\ Len(text) \in Nat
    BY DEF Chain, TextInv, Words, Phrase
<1>2. Len(text) <= Len(command)
    BY DEF Arrived, Cuts
<1>3. n # Len(calls)
    BY <1>1, <1>2 DEF EndOf
<1>4. n + 1 \in 1..Len(calls) /\ start[n + 1] = EndOf(start, n) /\ n + 1 # 1
    BY <1>1, <1>3 DEF EndOf
<1>5. Allowed(calls[n + 1]) /\ calls[n + 1].call \notin Heads
    BY <1>4 DEF Chain
<1>6. 1 \in 1..Len(Saying(calls[n + 1]))
    BY <1>5, SaidFirst DEF Heads
<1>7. start[n + 1] + 1 - 1 = start[n + 1]
    BY <1>4 DEF Stands
<1>8. text[start[n + 1] + 1 - 1] = Saying(calls[n + 1])[1]
    BY <1>4, <1>6, <1>7, CallArrived
<1> QED
    BY <1>4, <1>5, <1>7, <1>8

\* The calls up to n have been read.  A REMOVE by value has a call of value(), and
\* any other command, behind its b first calls, one of where() for each condition.
ByValue(n, cs) ==
    /\ n = 2 /\ calls[1].call = "remove" /\ calls[2].call = "value"
    /\ cs = <<NameIs(calls[2].value)>>

Opened(b, ps) ==
    \/ b = 1 /\ calls[1].call = "remove" /\ ps.kind = "REMOVE"
    \/ /\ b = 2 /\ calls[1].call = "change" /\ ps.kind = "CHANGE"
       /\ calls[2].call = "set"
       /\ ps.field = calls[2].field /\ ps.value = calls[2].value

ByWheres(n, b, cs) ==
    /\ n = b + Len(cs)
    /\ \A m \in 1..Len(cs) :
          calls[b + m].call = "where" /\ cs[m] = ConditionOf(calls[b + m])

Asked(start, n, np, q, ps, cs) ==
    /\ n \in 1..Len(calls)
    /\ np = "where" => q = EndOf(start, n)
    /\ np = "load" => /\ n + 1 \in 1..Len(calls) /\ calls[n + 1].call = "from"
                      /\ Meant(q - 1, n + 1)
    /\ \/ ByValue(n, cs) /\ np = "load" /\ ps.kind = "REMOVE"
       \/ \E b \in {1, 2} : Opened(b, ps) /\ ByWheres(n, b, cs)

\* (A condition at the end of a text that is cut is carried out by no parser: only
\* where the text goes on is anything said of it.)
AskedInv ==
    (/\ place \in {"where", "load"} /\ params.kind \in Writes
     /\ place = "load" \/ pos <= Len(text)) =>
        \E start, n : Stands(start) /\ Asked(start, n, place, pos, params, conds)

\* A step of the parser to such a state.
LEMMA AskedParse ==
    ASSUME NEW np, NEW q, NEW ps, NEW cs, Parse(np, q, ps, cs),
           NEW start, Stands(start), NEW n, Asked(start, n, np, q, ps, cs)
    PROVE  AskedInv'
<1>1. /\ place' = np /\ pos' = q /\ params' = ps /\ conds' = cs
      /\ calls' = calls /\ command' = command /\ text' = text
    BY Zenon DEF Parse, builderVars
<1>2. Stands(start)'
    BY <1>1 DEF Stands, EndOf
<1>3. Asked(start, n, place, pos, params, conds)'
    BY <1>1 DEF Asked, EndOf, ByValue, Opened, ByWheres, Meant
<1> QED
    BY <1>2, <1>3 DEF AskedInv

\* What the first word says of the first call.
LEMMA HeadCall ==
    ASSUME SpeechInv, TextInv, Arrived, NEW word \in {"REMOVE", "CHANGE"}, WordAt(1, word),
           2 <= Len(text)
    PROVE  /\ 1 \in 1..Len(calls)
           /\ word = "REMOVE" => calls[1].call = "remove"
           /\ word = "CHANGE" => calls[1].call = "change"
           /\ \E start : Stands(start) /\ EndOf(start, 1) = 2
<1>1. Len(text) \in Nat /\ 1 \in 1..Len(text) /\ text[1] = W(word)
    BY DEF TextInv, Words, WordAt
<1>2. text # <<>> /\ command[1] = W(word)
    <2>1. Len(text) \in Nat
        BY <1>1
    <2>2. 1 # Len(text)
        BY <2>1
    <2>3. text # <<>>
        BY <1>1
    <2> QED
        BY <1>1, <2>2, <2>3 DEF Arrived, Cuts
<1>3. calls # <<>> /\ 1 \in 1..Len(calls)
    <2>1. calls # <<>>
        BY <1>2 DEF SpeechInv
    <2>2. Len(calls) \in Nat /\ Len(calls) # 0
        BY <2>1 DEF SpeechInv, Chain
    <2> QED
        BY <2>1, <2>2
<1>4. ~StartedBy("count") /\ calls[1].call # "count"
    <2>1. W(word) # W("COUNT")
        BY WordShapes
    <2> QED
        BY <1>2, <1>3, <2>1 DEF SpeechInv, Spelt, StartedBy
<1>5. PICK start : Stands(start)
    BY <1>4 DEF SpeechInv, Spelt
<1>6. Allowed(calls[1]) /\ calls[1].call \in Heads
    BY <1>3 DEF SpeechInv, Chain
<1>7. start[1] = 1 /\ Saying(calls[1])[1] = W(word)
    <2>1. start[1] = 1
        BY <1>3, <1>5 DEF Stands
    <2>2. 1 \in 1..Len(Saying(calls[1]))
        BY <1>4, <1>6, SaidFirst
    <2>3. text[start[1] + 1 - 1] = Saying(calls[1])[1]
        BY <1>1, <1>3, <1>5, <2>1, <2>2, CallArrived
    <2> QED
        BY <1>1, <2>1, <2>3
<1>8. /\ word = "REMOVE" => calls[1].call = "remove"
      /\ word = "CHANGE" => calls[1].call = "change"
    BY <1>4, <1>6, <1>7, SaidFirst
<1>9. Len(Saying(calls[1])) = 1
    <2>1. Saying(calls[1]) = <<W("REMOVE")>> \/ Saying(calls[1]) = <<W("CHANGE")>>
        BY <1>8, Sayings
    <2> QED
        BY <2>1
<1>10. EndOf(start, 1) = 2
    <2>1. start[1] + Len(Saying(calls[1])) = EndOf(start, 1)
        BY <1>3, <1>5, Zenon DEF Stands
    <2> QED
        BY <1>7, <1>9, <2>1
<1> QED
    BY <1>3, <1>5, <1>8, <1>10

\* What may come second in a REMOVE or CHANGE.
LEMMA SecondCall ==
    ASSUME Chain, 2 \in 1..Len(calls)
    PROVE  /\ calls[1].call = "remove" => calls[2].call \in {"from", "where", "value"}
           /\ calls[1].call = "change" => calls[2].call \in {"from", "where", "set"}
           /\ (calls[1].call \in {"remove", "change"} /\ calls[2].call = "where")
                 => calls[2].word = "WHERE"
<1>1. Allowed(calls[2]) /\ calls[2].call \notin Heads
    BY DEF Chain
<1>2. /\ calls[2].call \in Clauses \cup {"as"} => calls[1].call = "select"
      /\ calls[2].call = "set" => calls[1].call = "change"
      /\ calls[2].call = "value" => calls[1].call = "remove"
      /\ (calls[2].call = "where" /\ calls[2].word # "WHERE")
            => \E m \in 1..(2 - 1) : calls[m].call = "where"
    BY DEF Chain
<1>3. \A m \in 1..(2 - 1) : m = 1
    OBVIOUS
<1> QED
    BY <1>1, <1>2, <1>3 DEF Allowed

\* The condition that the parser takes from the words of where().
LEMMA WhereThere ==
    ASSUME TextInv, Arrived, NEW start, Stands(start), NEW n \in 1..Len(calls),
           calls[n].call = "where", start[n] + 3 < Len(text) \/ text = command,
           start[n] + 3 <= Len(text)
    PROVE  /\ ConditionFrom(start[n], JoinOf(calls[n].word)) = ConditionOf(calls[n])
           /\ EndOf(start, n) = start[n] + 4
<1> DEFINE c == calls[n]  s == Saying(c)  p == start[n]
<1>1. s = <<W(c.word), W(c.field), W(c.op), V(c.value)>>
    BY Sayings
<1>2. Len(s) = 4 /\ s[2] = W(c.field) /\ s[3] = W(c.op) /\ s[4] = V(c.value)
    BY <1>1
<1>3. p \in Nat /\ p + Len(s) = EndOf(start, n) /\ Len(text) \in Nat
    BY DEF Stands, TextInv, Words
<1>4. text[p + 2 - 1] = s[2] /\ text[p + 3 - 1] = s[3] /\ text[p + 4 - 1] = s[4]
    <2>1. \A r \in {2, 3, 4} : /\ r \in 1..Len(s) /\ p + r - 1 <= Len(text)
                              /\ (p + r - 1 < Len(text) \/ text = command)
        BY <1>2, <1>3
    <2> QED
        BY <2>1, CallArrived
<1>5. p + 2 - 1 = p + 1 /\ p + 3 - 1 = p + 2 /\ p + 4 - 1 = p + 3
    BY <1>3
<1>6. text[p + 1] = W(c.field) /\ text[p + 2] = W(c.op) /\ text[p + 3] = V(c.value)
    BY <1>2, <1>4, <1>5
<1> HIDE DEF c, s, p
<1>7. ConditionFrom(p, JoinOf(c.word)) = ConditionOf(c)
    BY <1>6, WordShapes DEF ConditionFrom, ConditionOf
<1> QED
    BY <1>2, <1>3, <1>7 DEF c, s, p

\* What the parser takes from the words of set().
LEMMA SetThere ==
    ASSUME TextInv, Arrived, NEW start, Stands(start), 2 \in 1..Len(calls), start[2] = 2,
           calls[2].call = "set", 5 <= Len(text)
    PROVE  /\ text[2].word = calls[2].field /\ text[4].value = calls[2].value
           /\ EndOf(start, 2) = 5
<1> DEFINE c == calls[2]  s == Saying(c)
<1>1. s = <<W(c.field), W("="), V(c.value)>>
    BY Sayings
<1>2. Len(s) = 3 /\ s[1] = W(c.field) /\ s[3] = V(c.value)
    BY <1>1
<1>3. 2 + Len(s) = EndOf(start, 2) /\ Len(text) \in Nat
    BY DEF Stands, TextInv, Words
<1>4. text[2 + 1 - 1] = s[1] /\ text[2 + 3 - 1] = s[3]
    <2>1. \A r \in {1, 3} : r \in 1..Len(s) /\ 2 + r - 1 < Len(text)
        BY <1>2, <1>3
    <2> QED
        BY <2>1, CallArrived
<1>5. text[2] = W(c.field) /\ text[4] = V(c.value)
    BY <1>2, <1>4
<1> QED
    BY <1>2, <1>3, <1>5, WordShapes

\* REMOVE and CHANGE in front of their conditions.
LEMMA AskedHead ==
    ASSUME SpeechInv, TextInv, ParserInv, Arrived,
           RemoveValue \/ RemoveWhere \/ ChangeAll \/ ChangeWhere
    PROVE  AskedInv'
<1>1. Len(text) \in Nat /\ Chain
    BY DEF TextInv, Words, SpeechInv
<1>2. \A p, word : WordAt(p, word) => p <= Len(text) /\ text[p] = W(word)
    BY DEF WordAt
<1>3. \A p : /\ TableAt(p) => p + 1 <= Len(text) /\ text[p] = W("IN")
             /\ ConditionAt(p) => p + 3 <= Len(text)
    BY DEF TableAt, WordAt, ConditionAt
<1>4. JoinOf("WHERE") = NoJoin
    BY Zenon DEF JoinOf, NoJoin
<1>5. ASSUME NEW start, Stands(start), EndOf(start, 1) = 2, 1 \in 1..Len(calls),
             3 <= Len(text), calls[1].call \in {"remove", "change"}
      PROVE  /\ 2 \in 1..Len(calls) /\ start[2] = 2
             /\ Allowed(calls[2]) /\ calls[2].call # "count"
             /\ text[2] = Saying(calls[2])[1]
             /\ (calls[2].call = "from" /\ 4 <= Len(text)) =>
                   text[3] # W("IN") /\ text[3] # W("=")
             /\ (calls[2].call = "where" /\ 6 <= Len(text)) => text[5] = V(calls[2].value)
    <2>1. 1 + 1 = 2
        OBVIOUS
    <2>2. /\ 2 \in 1..Len(calls) /\ start[2] = 2
          /\ Allowed(calls[2]) /\ calls[2].call \notin Heads
          /\ text[2] = Saying(calls[2])[1]
        BY <1>1, <1>5, <2>1, NextCall
    <2>3. ASSUME calls[2].call = "from", 4 <= Len(text)
          PROVE  text[3] # W("IN") /\ text[3] # W("=")
        <3> DEFINE t == calls[2].table
        <3>1. Saying(calls[2]) = <<W("IN"), W(t)>>
            BY <2>3, Sayings
        <3> HIDE DEF t
        <3>2. 2 \in 1..Len(Saying(calls[2])) /\ Saying(calls[2])[2] = W(t)
            BY <3>1
        <3>3. start[2] + 2 - 1 = 3 /\ 3 < Len(text) /\ 3 <= Len(text)
            BY <1>1, <2>2, <2>3
        <3>4. text[3] = W(t)
            BY <1>5, <2>2, <3>2, <3>3, CallArrived
        <3>5. t # "IN" /\ t # "="
            BY <2>2, <2>3 DEF Allowed, t
        <3> QED
            BY <3>4, <3>5, WordShapes
    <2>4. ASSUME calls[2].call = "where", 6 <= Len(text)
          PROVE  text[5] = V(calls[2].value)
        <3>1. Saying(calls[2]) = <<W(calls[2].word), W(calls[2].field), W(calls[2].op),
                                   V(calls[2].value)>>
            BY <2>4, Sayings
        <3>2. 4 \in 1..Len(Saying(calls[2])) /\ Saying(calls[2])[4] = V(calls[2].value)
            BY <3>1
        <3>3. start[2] + 4 - 1 = 5 /\ start[2] + 4 - 1 < Len(text)
              /\ start[2] + 4 - 1 <= Len(text)
            BY <1>1, <2>2, <2>4
        <3>4. text[start[2] + 4 - 1] = Saying(calls[2])[4]
            BY <1>5, <2>2, <3>2, <3>3, CallArrived
        <3> QED
            BY <3>2, <3>3, <3>4
    <2> QED
        BY <2>2, <2>3, <2>4 DEF Heads
<1>6. CASE RemoveValue
    <2>1. PICK ps : /\ WordAt(1, "REMOVE") /\ Len(text) >= 2
                    /\ text[2] # W("WHERE") /\ TableAt(3)
                    /\ ps = [NoParams EXCEPT !.kind = "REMOVE"]
                    /\ Parse("load", 5, ps, <<NameIs(text[2].value)>>)
        BY <1>6, Zenon DEF RemoveValue, NameIs
    <2>2. PICK start : Stands(start) /\ EndOf(start, 1) = 2
        BY <2>1, HeadCall
    <2>3. 1 \in 1..Len(calls) /\ calls[1].call = "remove"
        BY <2>1, HeadCall
    <2>4. 4 <= Len(text) /\ text[3] = W("IN")
        BY <1>3, <2>1
    <2>5. /\ 2 \in 1..Len(calls) /\ start[2] = 2 /\ text[2] = Saying(calls[2])[1]
          /\ calls[2].call = "from" => text[3] # W("IN")
        BY <1>1, <1>5, <2>2, <2>3, <2>4
    <2>6. calls[2].call = "value"
        <3>1. calls[2].call # "from"
            BY <2>4, <2>5, WordShapes
        <3>2. calls[2].call = "where" => calls[2].word = "WHERE"
            BY <1>1, <2>3, <2>5, SecondCall
        <3>3. calls[2].call = "where" => Saying(calls[2])[1] = W(calls[2].word)
            <4>1. calls[2].call = "where" =>
                     Saying(calls[2]) = <<W(calls[2].word), W(calls[2].field),
                                          W(calls[2].op), V(calls[2].value)>>
                BY Sayings
            <4> QED
                BY <4>1
        <3> QED
            BY <1>1, <2>1, <2>3, <2>5, <3>1, <3>2, <3>3, SecondCall
    <2>7. Saying(calls[2]) = <<V(calls[2].value)>>
        BY <2>6, Sayings
    <2>8. text[2] = V(calls[2].value) /\ Len(Saying(calls[2])) = 1
        BY <2>5, <2>7
    <2>9. EndOf(start, 2) = 3
        <3>1. start[2] + Len(Saying(calls[2])) = EndOf(start, 2)
            BY <2>2, <2>5, Zenon DEF Stands
        <3> QED
            BY <2>5, <2>8, <3>1
    <2>10. 3 \in 1..Len(calls) /\ calls[3].call = "from" /\ start[3] = 3
        <3>1. 2 + 1 = 3 /\ EndOf(start, 2) <= Len(text) /\ EndOf(start, 2) < Len(text)
            BY <1>1, <2>4, <2>9
        <3>2. /\ 3 \in 1..Len(calls) /\ Allowed(calls[3]) /\ calls[3].call \notin Heads
              /\ text[3] = Saying(calls[3])[1] /\ start[3] = 3
            BY <1>1, <2>2, <2>5, <2>9, <3>1, NextCall
        <3>3. calls[3].call # "set"
            BY <1>1, <2>3, <3>2 DEF Chain
        <3>4. calls[3].call = "where" => calls[3].word # "IN"
            BY <3>2 DEF Allowed
        <3> QED
            BY <2>4, <3>2, <3>3, <3>4, SaidFirst DEF Heads
    <2>11. NameIs(text[2].value) = NameIs(calls[2].value)
        BY <2>8, WordShapes
    <2>12. ps.kind = "REMOVE"
        BY <2>1, HeadParams
    <2> DEFINE cs == <<NameIs(text[2].value)>>
    <2>13. ByValue(2, cs)
        BY <2>3, <2>6, <2>11, Zenon DEF ByValue
    <2>14. 2 + 1 = 3 /\ Meant(5 - 1, 3)
        <3>1. start[3] + 1 <= Len(text) /\ start[3] + 1 = 5 - 1 /\ 2 + 1 = 3
            BY <1>1, <2>4, <2>10
        <3>2. Meant(start[3] + 1, 3)
            BY <2>2, <2>10, <3>1, TableArrived
        <3> QED
            BY <3>1, <3>2
    <2> HIDE DEF cs
    <2>15. Asked(start, 2, "load", 5, ps, cs)
        BY <2>5, <2>10, <2>12, <2>13, <2>14 DEF Asked
    <2> QED
        BY <2>1, <2>2, <2>15, AskedParse DEF cs
<1>7. ASSUME NEW start, Stands(start), NEW b \in {1, 2}, b + 1 \in 1..Len(calls),
             calls[b + 1].call = "where", calls[b + 1].word = "WHERE",
             start[b + 1] + 3 <= Len(text), NEW ps, Opened(b, ps), NEW p, p = start[b + 1],
             Parse("where", p + 4, ps, <<ConditionFrom(p, NoJoin)>>)
      PROVE  AskedInv'
    <2>0. CASE ~(p + 4 <= Len(text))
        <3>1. place' = "where" /\ pos' = p + 4 /\ text' = text
            BY <1>7, Zenon DEF Parse, builderVars
        <3>2. place' # "load" /\ ~(pos' <= Len(text'))
            BY <2>0, <3>1
        <3> QED
            BY <3>2 DEF AskedInv
    <2> SUFFICES ASSUME p + 4 <= Len(text)
                 PROVE  AskedInv'
        BY <2>0
    <2>1. ConditionFrom(p, NoJoin) = ConditionOf(calls[b + 1]) /\ EndOf(start, b + 1) = p + 4
        <3>1. start[b + 1] + 3 < Len(text)
            BY <1>1, <1>7 DEF Stands
        <3> QED
            BY <1>4, <1>7, <3>1, WhereThere
    <2> DEFINE cs == <<ConditionFrom(p, NoJoin)>>
    <2>2. Len(cs) = 1 /\ cs[1] = ConditionFrom(p, NoJoin)
        OBVIOUS
    <2> HIDE DEF cs
    <2>3. ByWheres(b + 1, b, cs)
        <3>1. \A m \in 1..Len(cs) : m = 1
            BY <2>2
        <3> QED
            BY <1>7, <2>1, <2>2, <3>1 DEF ByWheres
    <2>4. Asked(start, b + 1, "where", p + 4, ps, cs)
        BY <1>7, <2>1, <2>3 DEF Asked
    <2> QED
        BY <1>7, <2>4, AskedParse DEF cs
<1>8. CASE RemoveWhere
    <2>1. PICK ps : /\ WordAt(1, "REMOVE") /\ WordAt(2, "WHERE") /\ ConditionAt(2)
                    /\ ps = [NoParams EXCEPT !.kind = "REMOVE"]
                    /\ Parse("where", 6, ps, <<ConditionFrom(2, NoJoin)>>)
        BY <1>8, Zenon DEF RemoveWhere, NoJoin
    <2>4. 5 <= Len(text) /\ 2 <= Len(text) /\ text[2] = W("WHERE")
        BY <1>1, <1>2, <1>3, <2>1
    <2>2. PICK start : Stands(start) /\ EndOf(start, 1) = 2
        BY <2>1, <2>4, HeadCall
    <2>3. 1 \in 1..Len(calls) /\ calls[1].call = "remove"
        BY <2>1, <2>4, HeadCall
    <2>5. /\ 2 \in 1..Len(calls) /\ start[2] = 2 /\ text[2] = Saying(calls[2])[1]
          /\ Allowed(calls[2]) /\ calls[2].call # "count"
        BY <1>1, <1>5, <2>2, <2>3, <2>4
    <2>6. calls[2].call = "where" /\ calls[2].word = "WHERE"
        BY <2>4, <2>5, SaidFirst
    <2>7. Opened(1, ps)
        BY <2>1, <2>3, HeadParams DEF Opened
    <2>8. 1 + 1 = 2 /\ 2 + 4 = 6 /\ start[2] + 3 <= Len(text)
        BY <1>1, <2>4, <2>5
    <2> QED
        BY <1>7, <2>1, <2>2, <2>5, <2>6, <2>7, <2>8
<1>9. ASSUME WordAt(1, "CHANGE"), WordAt(3, "="), 6 <= Len(text), NEW x, text[5] = W(x)
      PROVE  /\ 2 \in 1..Len(calls)
             /\ \E start : /\ Stands(start) /\ EndOf(start, 2) = 5 /\ Opened(2, Assignment)
                           /\ start[2] = 2
    <2>1. PICK start : Stands(start) /\ EndOf(start, 1) = 2
        BY <1>9, HeadCall
    <2>2. 1 \in 1..Len(calls) /\ calls[1].call = "change"
        BY <1>9, HeadCall
    <2>3. text[3] = W("=")
        BY <1>2, <1>9
    <2>4. /\ 2 \in 1..Len(calls) /\ start[2] = 2
          /\ calls[2].call = "from" => text[3] # W("=")
          /\ calls[2].call = "where" => text[5] = V(calls[2].value)
        BY <1>1, <1>5, <1>9, <2>1, <2>2
    <2>5. calls[2].call = "set"
        BY <1>1, <1>9, <2>2, <2>3, <2>4, SecondCall, WordShapes
    <2>6. /\ text[2].word = calls[2].field /\ text[4].value = calls[2].value
          /\ EndOf(start, 2) = 5
        BY <1>1, <1>9, <2>1, <2>4, <2>5, SetThere
    <2>7. /\ Assignment.kind = "CHANGE" /\ Assignment.field = text[2].word
          /\ Assignment.value = text[4].value
        BY NoParamsFacts DEF Assignment
    <2>8. Opened(2, Assignment)
        BY <2>2, <2>5, <2>6, <2>7 DEF Opened
    <2> QED
        BY <2>1, <2>4, <2>6, <2>8
<1>10. ASSUME NEW start, Stands(start), 2 \in 1..Len(calls), EndOf(start, 2) = 5,
              6 <= Len(text), NEW ps, Opened(2, ps)
       PROVE  /\ 3 \in 1..Len(calls) /\ start[3] = 5
              /\ text[5] = W("IN") => calls[3].call = "from"
              /\ text[5] = W("WHERE") => calls[3].call = "where" /\ calls[3].word = "WHERE"
    <2>1. 2 + 1 = 3 /\ 5 <= Len(text) /\ 5 < Len(text)
        BY <1>1, <1>10
    <2>2. /\ 3 \in 1..Len(calls) /\ start[3] = 5 /\ Allowed(calls[3])
          /\ calls[3].call \notin Heads /\ text[5] = Saying(calls[3])[1]
        BY <1>1, <1>10, <2>1, NextCall
    <2>3. calls[2].call = "set"
        BY <1>10 DEF Opened
    <2>4. calls[3].call # "set"
        BY <1>1, <1>10, <2>2, <2>3 DEF Chain
    <2>5. calls[3].call = "where" => calls[3].word # "IN"
        BY <2>2 DEF Allowed
    <2> QED
        BY <2>2, <2>4, <2>5, SaidFirst DEF Heads
<1>11. CASE ChangeAll
    <2>1. /\ WordAt(1, "CHANGE") /\ WordAt(3, "=") /\ TableAt(5)
          /\ Parse("load", 7, Assignment, <<>>)
        BY <1>11, Zenon DEF ChangeAll
    <2>2. 6 <= Len(text) /\ text[5] = W("IN")
        BY <1>1, <1>3, <2>1
    <2>3. PICK start : Stands(start) /\ EndOf(start, 2) = 5 /\ Opened(2, Assignment)
        BY <1>9, <2>1, <2>2
    <2>4. 2 \in 1..Len(calls)
        BY <1>9, <2>1, <2>2
    <2>5. 3 \in 1..Len(calls) /\ calls[3].call = "from" /\ start[3] = 5
        BY <1>10, <2>2, <2>3, <2>4
    <2>6. ByWheres(2, 2, <<>>)
        BY DEF ByWheres
    <2>7. 2 + 1 = 3 /\ Meant(7 - 1, 3)
        <3>1. start[3] + 1 <= Len(text) /\ start[3] + 1 = 7 - 1 /\ 2 + 1 = 3
            BY <1>1, <2>2, <2>5
        <3>2. Meant(start[3] + 1, 3)
            BY <2>3, <2>5, <3>1, TableArrived
        <3> QED
            BY <3>1, <3>2
    <2> HIDE DEF Assignment
    <2>8. Asked(start, 2, "load", 7, Assignment, <<>>)
        BY <2>3, <2>4, <2>5, <2>6, <2>7 DEF Asked
    <2> QED
        BY <2>1, <2>3, <2>8, AskedParse
<1>12. CASE ChangeWhere
    <2>1. /\ WordAt(1, "CHANGE") /\ WordAt(3, "=") /\ WordAt(5, "WHERE") /\ ConditionAt(5)
          /\ Parse("where", 9, Assignment, <<ConditionFrom(5, NoJoin)>>)
        BY <1>12, Zenon DEF ChangeWhere, NoJoin
    <2>2. 8 <= Len(text) /\ 6 <= Len(text) /\ text[5] = W("WHERE")
        BY <1>1, <1>2, <1>3, <2>1
    <2>3. PICK start : Stands(start) /\ EndOf(start, 2) = 5 /\ Opened(2, Assignment)
        BY <1>9, <2>1, <2>2
    <2>4. 2 \in 1..Len(calls)
        BY <1>9, <2>1, <2>2
    <2>5. /\ 3 \in 1..Len(calls) /\ start[3] = 5
          /\ calls[3].call = "where" /\ calls[3].word = "WHERE"
        BY <1>10, <2>2, <2>3, <2>4
    <2>6. 2 + 1 = 3 /\ 5 + 4 = 9 /\ 5 + 3 = 8
        OBVIOUS
    <2> QED
        BY <1>7, <2>1, <2>2, <2>3, <2>5, <2>6
<1> QED
    BY <1>6, <1>8, <1>11, <1>12

\* A condition more, and the end of the conditions.
LEMMA AskedMore ==
    ASSUME SpeechInv, TextInv, ParserInv, Arrived, AskedInv, params.kind \in Writes,
           MoreCondition \/ EndConditions
    PROVE  AskedInv'
<1>1. /\ Len(text) \in Nat /\ Chain
      /\ \A p, word : WordAt(p, word) => p <= Len(text) /\ text[p] = W(word)
    BY DEF TextInv, Words, SpeechInv, WordAt
<1>2. place = "where"
    BY Zenon DEF MoreCondition, EndConditions, NoMoreConditions
<1>3. PICK start, n : Stands(start) /\ Asked(start, n, place, pos, params, conds)
    <2>1. pos <= Len(text)
        <3>1. \E word : WordAt(pos, word)
            BY Zenon DEF MoreCondition, EndConditions, TableAt
        <3> QED
            BY <3>1 DEF WordAt
    <2> QED
        BY <1>2, <2>1 DEF AskedInv
<1>4. n \in 1..Len(calls) /\ pos = EndOf(start, n)
    BY <1>2, <1>3 DEF Asked
<1>5. PICK b \in {1, 2} : Opened(b, params) /\ ByWheres(n, b, conds)
    BY <1>2, <1>3 DEF Asked
<1>6. PICK C : conds \in Seq(C)
    BY DEF ParserInv
<1>7. n = b + Len(conds) /\ Len(conds) \in Nat
    BY <1>5, <1>6 DEF ByWheres
<1>8. ASSUME NEW word \in {"IN", "AND", "OR"}, WordAt(pos, word), pos < Len(text)
      PROVE  /\ n + 1 \in 1..Len(calls) /\ start[n + 1] = pos
             /\ word = "IN" => calls[n + 1].call = "from"
             /\ word # "IN" => calls[n + 1].call = "where" /\ calls[n + 1].word = word
    <2>1. pos <= Len(text) /\ pos < Len(text) /\ text[pos] = W(word)
        BY <1>1, <1>8
    <2>2. /\ n + 1 \in 1..Len(calls) /\ start[n + 1] = pos /\ Allowed(calls[n + 1])
          /\ calls[n + 1].call \notin Heads /\ text[pos] = Saying(calls[n + 1])[1]
        BY <1>1, <1>3, <1>4, <2>1, NextCall
    <2>3. calls[n + 1].call # "set"
        <3>1. SUFFICES ASSUME calls[n + 1].call = "set"
                       PROVE  FALSE
            OBVIOUS
        <3>2. calls[1].call = "change"
            BY <1>1, <2>2, <3>1 DEF Chain
        <3>3. b = 2 /\ calls[2].call = "set"
            BY <1>5, <3>2 DEF Opened
        <3>4. 2 \in 1..Len(calls) /\ n + 1 # 2
            BY <1>4, <1>7, <3>3
        <3> QED
            BY <1>1, <2>2, <3>1, <3>3, <3>4 DEF Chain
    <2>4. calls[n + 1].call = "where" => calls[n + 1].word # "IN"
        BY <2>2 DEF Allowed
    <2>5. \/ calls[n + 1].call = "from" /\ word = "IN"
          \/ calls[n + 1].call = "where" /\ calls[n + 1].word = word
        BY <2>1, <2>2, <2>3, SaidFirst DEF Heads
    <2> QED
        BY <2>2, <2>4, <2>5
<1>9. CASE MoreCondition
    <2>1. PICK logic \in {"AND", "OR"} :
             /\ WordAt(pos, logic) /\ ConditionAt(pos)
             /\ Parse("where", pos + 4, params, Append(conds, ConditionFrom(pos, logic)))
        BY <1>9, Zenon DEF MoreCondition
    <2>0. CASE ~(pos + 4 <= Len(text))
        <3>1. place' = "where" /\ pos' = pos + 4 /\ text' = text
            BY <2>1, Zenon DEF Parse, builderVars
        <3>2. place' # "load" /\ ~(pos' <= Len(text'))
            BY <2>0, <3>1
        <3> QED
            BY <3>2 DEF AskedInv
    <2> SUFFICES ASSUME pos + 4 <= Len(text)
                 PROVE  AskedInv'
        BY <2>0
    <2>a. pos \in Nat /\ pos < Len(text) /\ pos + 3 < Len(text)
        <3>1. pos \in Nat
            BY DEF ParserInv
        <3> QED
            BY <1>1, <3>1
    <2>2. /\ n + 1 \in 1..Len(calls) /\ start[n + 1] = pos
          /\ calls[n + 1].call = "where" /\ calls[n + 1].word = logic
        BY <1>8, <2>1, <2>a
    <2>3. JoinOf(logic) = logic
        <3>1. logic # "WHERE"
            BY <2>1
        <3> QED
            BY <3>1, Zenon DEF JoinOf
    <2>4. pos + 3 <= Len(text)
        BY <2>1 DEF ConditionAt
    <2>5. /\ ConditionFrom(pos, logic) = ConditionOf(calls[n + 1])
          /\ EndOf(start, n + 1) = pos + 4
        BY <1>3, <2>2, <2>3, <2>4, <2>a, WhereThere
    <2> DEFINE c == ConditionFrom(pos, logic)  cs == Append(conds, c)
    <2> HIDE DEF c
    <2>6. /\ Len(cs) = Len(conds) + 1 /\ cs[Len(conds) + 1] = c
          /\ \A m \in 1..Len(conds) : cs[m] = conds[m]
        BY <1>6
    <2> HIDE DEF cs
    <2>7. ByWheres(n + 1, b, cs)
        <3>1. n + 1 = b + Len(cs) /\ n + 1 = b + (Len(conds) + 1)
            BY <1>7, <2>6
        <3>2. ASSUME NEW m \in 1..Len(cs)
              PROVE  calls[b + m].call = "where" /\ cs[m] = ConditionOf(calls[b + m])
            <4>1. CASE m = Len(conds) + 1
                BY <2>2, <2>5, <2>6, <3>1, <4>1 DEF c
            <4>2. CASE m \in 1..Len(conds)
                BY <1>5, <2>6, <4>2 DEF ByWheres
            <4> QED
                BY <1>7, <2>6, <4>1, <4>2
        <3> QED
            BY <3>1, <3>2 DEF ByWheres
    <2>8. Asked(start, n + 1, "where", pos + 4, params, cs)
        BY <1>5, <2>2, <2>5, <2>7 DEF Asked
    <2> QED
        BY <1>3, <2>1, <2>8, AskedParse DEF c, cs
<1>10. CASE EndConditions
    <2>1. /\ WordAt(pos, "IN") /\ pos + 1 <= Len(text)
          /\ Parse("load", pos + 2, params, conds)
        BY <1>10, Zenon DEF EndConditions, TableAt
    <2>2. pos \in Nat /\ pos < Len(text) /\ (pos + 2) - 1 = pos + 1
        <3>1. pos \in Nat
            BY DEF ParserInv
        <3> QED
            BY <1>1, <2>1, <3>1
    <2>3. n + 1 \in 1..Len(calls) /\ calls[n + 1].call = "from" /\ start[n + 1] = pos
        BY <1>8, <2>1, <2>2
    <2>4. Meant((pos + 2) - 1, n + 1)
        BY <1>3, <2>1, <2>2, <2>3, TableArrived
    <2>5. Asked(start, n, "load", pos + 2, params, conds)
        BY <1>4, <1>5, <2>3, <2>4 DEF Asked
    <2> QED
        BY <1>3, <2>1, <2>5, AskedParse
<1> QED
    BY <1>9, <1>10

\* So it is with every step.
LEMMA AskedStep ==
    ASSUME SpeechInv, TextInv, ParserInv, Arrived, AskedInv, [CommandNext]_commandVars
    PROVE  AskedInv'
<1>1. CASE place' \notin {"where", "load"} \/ params'.kind \notin Writes
    BY <1>1 DEF AskedInv
<1>2. CASE UNCHANGED commandVars
    <2>1. /\ calls' = calls /\ command' = command /\ place' = place /\ pos' = pos
          /\ params' = params /\ conds' = conds /\ text' = text
        BY <1>2 DEF commandVars, vars, builderVars, parserVars
    <2> QED
        BY <2>1 DEF AskedInv, Stands, EndOf, Asked, ByValue, Opened, ByWheres, Meant
<1>3. CASE BuilderNext /\ UNCHANGED <<vars, parserVars, rowVars, answerVars>>
    <2>1. text = <<>>
        BY <1>3, Zenon DEF BuilderNext, Select, Change, Remove, From, As, Where, WriteWhere,
                           SayWhere, GroupBy, OrderBy, Limit, Set, Value, Count, Get, Say
    <2>2. place' = "head"
        BY <1>3, <2>1 DEF TextInv, parserVars
    <2> QED
        BY <1>1, <2>2
<1>4. ASSUME NEW np, NEW q, NEW ps, NEW cs, Parse(np, q, ps, cs)
      PROVE  place' = np /\ params' = ps
    BY <1>4, Zenon DEF Parse
<1>5. CASE GetHead
    <2>1. \E q, ps : Parse("clauses", q, ps, <<>>)
        BY <1>5, HeadOfGet
    <2> QED
        BY <1>1, <1>4, <2>1
<1>6. CASE CountHead
    <2>1. params' = [NoParams EXCEPT !.kind = "COUNT"]
        BY <1>4, <1>6, Zenon DEF CountHead
    <2>2. params'.kind = "COUNT"
        BY <2>1, HeadParams
    <2> QED
        BY <1>1, <2>2 DEF Writes
<1>7. CASE WhereClause \/ EndText
    <2>1. place = "clauses" /\ params' = params
        BY <1>4, <1>7, Zenon DEF WhereClause, EndText
    <2>2. params.kind = "GET"
        BY <2>1 DEF ParserInv, KindFits
    <2> QED
        BY <1>1, <2>1, <2>2 DEF Writes
<1>8. CASE EndGetConditions \/ GroupClause \/ OrderClause \/ LimitClause \/ SkipWord
    <2>1. place' = "clauses"
        BY <1>4, <1>8, Zenon DEF EndGetConditions, GroupClause, OrderClause, LimitClause,
                                 SkipWord
    <2> QED
        BY <1>1, <2>1
<1>9. CASE MoreCondition \/ EndConditions
    <2>1. params' = params
        BY <1>4, <1>9, Zenon DEF MoreCondition, EndConditions
    <2> QED
        BY <1>1, <1>9, <2>1, AskedMore
<1>10. CASE RefuseText
    BY <1>1, <1>10, Zenon DEF RefuseText, Answer
<1>11. CASE Handler
    <2>1. place' \notin {"where", "load"}
        BY <1>11, HandlerPlaces
    <2> QED
        BY <1>1, <2>1
<1>12. CASE Parser
    BY <1>5, <1>6, <1>7, <1>8, <1>9, <1>10, <1>12, AskedHead, Zenon DEF Parser
<1> QED
    BY <1>2, <1>3, <1>11, <1>12, Zenon DEF CommandNext, Server

\* What the client has said and what the parser has made of it, always.
LEMMA AskedInvariance == CommandSpec => [](SpeechInv /\ AskedInv)
<1>1. CommandInit => SpeechInv /\ AskedInv
    <2> SUFFICES ASSUME CommandInit
                 PROVE  SpeechInv /\ AskedInv
        OBVIOUS
    <2>1. calls = <<>> /\ command = <<>> /\ text = <<>> /\ place = "head"
        BY Zenon DEF CommandInit, BuilderInit
    <2>2. Len(calls) = 0 /\ 1..0 = {} /\ calls \in Seq({}) /\ ~StartedBy("count")
        BY <2>1 DEF StartedBy
    <2>3. Chain
        BY <2>2 DEF Chain
    <2>4. Stands(<<>>)
        <3>1. <<>> \in Seq(Nat) /\ Len(<<>>) = 0
            OBVIOUS
        <3> QED
            BY <2>1, <2>2, <3>1 DEF Stands
    <2> QED
        BY <2>1, <2>2, <2>3, <2>4 DEF SpeechInv, Spelt, AskedInv
<1>2. CommandInv /\ RefusalInv /\ (SpeechInv /\ AskedInv) /\ [CommandNext]_commandVars
         => (SpeechInv /\ AskedInv)'
    <2> SUFFICES ASSUME CommandInv, RefusalInv, SpeechInv, AskedInv, [CommandNext]_commandVars
                 PROVE  SpeechInv' /\ AskedInv'
        OBVIOUS
    <2>1. TextInv /\ ParserInv /\ Arrived /\ \E start : Laid(start)
        BY DEF CommandInv, RefusalInv
    <2> QED
        BY <2>1, SpeechStep, AskedStep
<1> QED
    BY <1>1, <1>2, CommandInvariance, RefusalInvariance, PTL DEF CommandSpec

\* The calls of one name among the first n.
CallsOf(name, n) ==
    LET before == SubSeq(calls, 1, n) IN
    Among(before, {before[j] : j \in {j \in DOMAIN before : before[j].call = name}})

\* They are the calls from lo to hi, and a sequence has just those.
SideBySide(name, n, lo, hi) ==
    /\ lo \in Nat \ {0} /\ hi \in Nat /\ lo <= hi + 1 /\ hi <= n
    /\ \A p \in 1..n : calls[p].call = name <=> lo <= p /\ p <= hi
Part(r, lo, hi) ==
    /\ \E C : r \in Seq(C)
    /\ Len(r) = hi + 1 - lo
    /\ \A m \in 1..Len(r) : r[m] = calls[lo + m - 1]

\* Calls of one name that stand side by side are gathered as they stand.
LEMMA CallsBlock ==
    ASSUME Chain, NEW n \in 0..Len(calls), NEW name, NEW lo, NEW hi,
           SideBySide(name, n, lo, hi)
    PROVE  Part(CallsOf(name, n), lo, hi)
<1> DEFINE b == SubSeq(calls, 1, n)
           S == {b[j] : j \in {j \in DOMAIN b : b[j].call = name}}
           r == Among(b, S)
<1>1. PICK C : calls \in Seq(C)
    BY DEF Chain
<1>2. n \in Nat /\ n <= Len(calls)
    BY <1>1
<1>3. /\ b \in Seq(C) /\ Len(b) = n /\ DOMAIN b = 1..n
      /\ \A p \in 1..n : b[p] = calls[p]
    BY <1>1, <1>2
<1>4. r = CallsOf(name, n)
    BY Zenon DEF CallsOf
<1> HIDE DEF b
<1>5. Block(b, S, lo, hi)
    BY <1>3 DEF SideBySide, Block
<1> HIDE DEF S
<1>6. r \in Seq(C) /\ PartOf(r, b, lo, hi)
    BY <1>3, <1>5, AmongBlock
<1> HIDE DEF r
<1>7. ASSUME NEW m \in 1..Len(r)
      PROVE  r[m] = calls[lo + m - 1]
    <2>1. lo + m - 1 \in 1..n
        BY <1>2, <1>6 DEF PartOf, SideBySide
    <2> QED
        BY <1>3, <1>6, <2>1 DEF PartOf
<1> QED
    BY <1>4, <1>6, <1>7 DEF Part, PartOf

\* The conditions that value() asks for, and what a state says of them.
Named(s) == [n \in DOMAIN s |-> NameIs(s[n].value)]

Carried(n) ==
    /\ conds = Named(CallsOf("value", n)) \o ConditionsOf(CallsOf("where", n))
    /\ params.kind = "CHANGE" => /\ params.field = CallsOf("set", n)[1].field
                                 /\ params.value = CallsOf("set", n)[1].value

\* What ConditionsOf makes of a sequence of calls.
LEMMA ConditionsSaid ==
    ASSUME NEW s
    PROVE  ConditionsOf(s) = [n \in DOMAIN s |-> ConditionOf(s[n])]
BY Zenon DEF ConditionsOf, ConditionOf, JoinOf

\* The calls up to from() are carried out.
LEMMA CarriedOut ==
    ASSUME Chain, ParserInv, NEW start, NEW n, Asked(start, n, "load", pos, params, conds)
    PROVE  Carried(n)
<1>1. /\ n \in 1..Len(calls) /\ n + 1 \in 1..Len(calls) /\ calls[n + 1].call = "from"
      /\ Len(calls) \in Nat
    BY DEF Asked, Chain
<1>2. n \in 0..Len(calls) /\ n \in Nat
    BY <1>1
<1>3. PICK C : conds \in Seq(C)
    BY DEF ParserInv
<1>4. calls[1].call \in Heads
    BY <1>1 DEF Chain
<1>5. CASE ByValue(n, conds) /\ params.kind = "REMOVE"
    <2>1. n = 2 /\ calls[2].call = "value" /\ conds = <<NameIs(calls[2].value)>>
        BY <1>5 DEF ByValue
    <2>2. \A p \in 1..n : p = 1 \/ p = 2
        BY <2>1
    <2> DEFINE v == CallsOf("value", n)  w == CallsOf("where", n)
    <2>3. Part(v, 2, 2)
        <3>1. SideBySide("value", n, 2, 2)
            BY <1>4, <2>1, <2>2 DEF Heads, SideBySide
        <3> QED
            BY <1>2, <3>1, CallsBlock
    <2>4. Part(w, 1, 0)
        <3>1. SideBySide("where", n, 1, 0)
            BY <1>4, <2>1, <2>2 DEF Heads, SideBySide
        <3> QED
            BY <1>2, <3>1, CallsBlock
    <2> HIDE DEF v, w
    <2>5. Named(v) = <<NameIs(calls[2].value)>>
        <3>1. DOMAIN v = 1..1 /\ v[1] = calls[2]
            BY <2>3 DEF Part
        <3>2. Named(v) = [m \in 1..1 |-> NameIs(calls[2].value)]
            BY <3>1 DEF Named
        <3> QED
            BY <3>2
    <2>6. ConditionsOf(w) = <<>>
        <3>1. w = <<>>
            BY <2>4 DEF Part
        <3>2. ConditionsOf(w) = [m \in DOMAIN w |-> ConditionOf(w[m])]
            BY ConditionsSaid
        <3> QED
            BY <3>1, <3>2
    <2>7. conds \o <<>> = conds
        BY <1>3
    <2>8. conds = Named(v) \o ConditionsOf(w)
        BY <2>1, <2>5, <2>6, <2>7
    <2> QED
        BY <1>5, <2>8 DEF Carried, v, w
<1>6. ASSUME NEW b \in {1, 2}, Opened(b, params), ByWheres(n, b, conds)
      PROVE  Carried(n)
    <2>1. /\ n = b + Len(conds) /\ Len(conds) \in Nat
          /\ \A m \in 1..Len(conds) :
                calls[b + m].call = "where" /\ conds[m] = ConditionOf(calls[b + m])
        BY <1>3, <1>6 DEF ByWheres
    <2>2. \A p \in 1..n : p > b => calls[p].call = "where"
        <3> SUFFICES ASSUME NEW p \in 1..n, p > b
                     PROVE  calls[p].call = "where"
            OBVIOUS
        <3>1. p - b \in 1..Len(conds) /\ b + (p - b) = p
            BY <2>1
        <3> QED
            BY <2>1, <3>1
    <2>3. \A p \in 1..n : p > b \/ p = 1 \/ (p = 2 /\ b = 2)
        BY <2>1
    <2>4. b = 2 => calls[2].call = "set"
        BY <1>6 DEF Opened
    <2> DEFINE v == CallsOf("value", n)  w == CallsOf("where", n)  s == CallsOf("set", n)
    <2>5. Part(v, 1, 0)
        <3>1. SideBySide("value", n, 1, 0)
            BY <1>1, <1>4, <2>2, <2>3, <2>4 DEF Heads, SideBySide
        <3> QED
            BY <1>2, <3>1, CallsBlock
    <2>6. Part(w, b + 1, n)
        <3>1. \A p \in 1..n : calls[p].call = "where" <=> b + 1 <= p /\ p <= n
            BY <1>4, <2>2, <2>3, <2>4 DEF Heads
        <3>2. b + 1 \in Nat \ {0} /\ n \in Nat /\ b + 1 <= n + 1 /\ n <= n
            BY <1>1, <2>1
        <3>3. SideBySide("where", n, b + 1, n)
            BY <3>1, <3>2, Zenon DEF SideBySide
        <3> QED
            BY <1>2, <3>3, CallsBlock
    <2>7. params.kind = "CHANGE" => s[1] = calls[2] /\ b = 2
        <3>1. SUFFICES ASSUME params.kind = "CHANGE"
                       PROVE  s[1] = calls[2] /\ b = 2
            OBVIOUS
        <3>2. b = 2
            BY <1>6, <3>1 DEF Opened
        <3>3. SideBySide("set", n, 2, 2)
            BY <1>4, <2>1, <2>2, <2>3, <2>4, <3>2 DEF Heads, SideBySide
        <3>4. Part(s, 2, 2)
            BY <1>2, <3>3, CallsBlock
        <3> HIDE DEF s
        <3> QED
            BY <3>2, <3>4 DEF Part
    <2> HIDE DEF v, w, s
    <2>8. Named(v) = <<>>
        <3>1. v = <<>>
            BY <2>5 DEF Part
        <3> QED
            BY <3>1 DEF Named
    <2>9. ConditionsOf(w) = conds
        <3>1. Len(w) = Len(conds) /\ DOMAIN w = 1..Len(conds)
            BY <2>1, <2>6 DEF Part
        <3>2. \A m \in 1..Len(conds) : w[m] = calls[b + m]
            <4>1. \A m \in 1..Len(conds) : (b + 1) + m - 1 = b + m
                BY <2>1
            <4> QED
                BY <2>6, <3>1, <4>1 DEF Part
        <3>3. ConditionsOf(w) = [m \in 1..Len(conds) |-> ConditionOf(w[m])]
            BY <3>1, ConditionsSaid
        <3>4. conds = [m \in 1..Len(conds) |-> conds[m]]
            BY <1>3
        <3> QED
            BY <2>1, <3>2, <3>3, <3>4
    <2>10. <<>> \o conds = conds
        BY <1>3
    <2>11. conds = Named(v) \o ConditionsOf(w)
        BY <2>8, <2>9, <2>10
    <2>12. params.kind = "CHANGE" => /\ params.field = s[1].field
                                     /\ params.value = s[1].value
        BY <1>6, <2>7 DEF Opened
    <2> QED
        BY <2>11, <2>12 DEF Carried, v, w, s
<1> QED
    BY <1>5, <1>6 DEF Asked

\* A REMOVE or CHANGE is carried out with the conditions its client has asked for
\* before from(), all of them and no others, and a CHANGE with its field and value,
\* at whatever byte the text is cut.  The table is the one asked for, or, when the cut
\* is in its name, a beginning of that name.
THEOREM WritesAlwaysAsAsked == CommandSpec => []WritesAsAsked
<1>1. CommandInv /\ SpeechInv /\ AskedInv => WritesAsAsked
    <2> SUFFICES ASSUME CommandInv, SpeechInv, AskedInv, place = "load",
                        params.kind \in {"REMOVE", "CHANGE"}
                 PROVE  WritesAsAsked
        BY Zenon DEF WritesAsAsked
    <2>1. Chain /\ ParserInv
        BY DEF CommandInv, SpeechInv
    <2>2. PICK start, n : Asked(start, n, "load", pos, params, conds)
        BY DEF AskedInv, Writes
    <2>3. Carried(n)
        BY <2>1, <2>2, CarriedOut
    <2>4. /\ n \in 1..Len(calls) /\ n + 1 \in 1..Len(calls) /\ calls[n + 1].call = "from"
          /\ DOMAIN calls = 1..Len(calls)
        BY <2>1, <2>2 DEF Asked, Chain
    <2>5. \A j \in DOMAIN calls : calls[j].call = "from" => j = n + 1
        BY <2>1, <2>4 DEF Chain
    <2>6. FromAt = n + 1
        BY <2>4, <2>5 DEF FromAt
    <2>7. Called("from") /\ FromAt - 1 = n
        BY <2>4, <2>6 DEF Called
    <2>8. Meant(pos - 1, n + 1)
        BY <2>2 DEF Asked
    <2>9. \/ Dataset = W(calls[FromAt].table)
          \/ text # command /\ Dataset \in Beginnings(W(calls[FromAt].table))
        BY <2>6, <2>8 DEF Meant, Dataset
    <2> QED
        BY <2>3, <2>7, <2>9, ZenonT(40) DEF WritesAsAsked, Carried, CallsOf, Named, NameIs
<1> QED
    BY <1>1, CommandInvariance, AskedInvariance, PTL

-----------------------------------------------------------------------------
(* What the parser of a GET makes of the calls.                            *)

\* Behind call m conditions go on; behind it a clause is not lost.
Going(s, m) == m >= 1 /\ Keeps(s)[m] /\ s[m].call = "where"
Loose(s, m) == m = 0 \/ ~(Keeps(s)[m] /\ Open(s[m]))
\* A condition joined to the one before it: and(), or().
Joined(call) == call.call = "where" /\ call.word # "WHERE"

\* What Keeps says of call j, by what kept says of the one before it.
Rule(s, kept, j) ==
    CASE s[j].call = "as" -> FALSE
      [] s[j].call = "where" /\ s[j].word # "WHERE" ->
            j > 1 /\ kept[j - 1] /\ s[j - 1].call = "where"
      [] OTHER -> j = 1 \/ ~(kept[j - 1] /\ Open(s[j - 1]))

\* The recursive definition is one: there is a function that satisfies it.
LEMMA KeepsDef ==
    ASSUME NEW C, NEW s \in Seq(C)
    PROVE  Keeps(s) = [j \in 1..Len(s) |-> Rule(s, Keeps(s), j)]
<1> DEFINE T == {m \in Nat : \E f : f = [j \in 1..m |-> Rule(s, f, j)]}
<1>0. DOMAIN s = 1..Len(s) /\ Len(s) \in Nat
    OBVIOUS
<1>1. 0 \in T
    <2> DEFINE f == [j \in 1..0 |-> FALSE]
    <2>1. f = [j \in 1..0 |-> Rule(s, f, j)]
        <3>1. 1..0 = {}
            OBVIOUS
        <3> QED
            BY <3>1
    <2> HIDE DEF f
    <2> QED
        BY <2>1
<1>2. ASSUME NEW m \in Nat, m \in T
      PROVE  m + 1 \in T
    <2>1. PICK g : g = [j \in 1..m |-> Rule(s, g, j)]
        BY <1>2
    <2>2. \A j \in 1..m : g[j] = Rule(s, g, j)
        BY <2>1
    <2> DEFINE h == [j \in 1..(m + 1) |-> IF j = m + 1 THEN Rule(s, g, j) ELSE g[j]]
    <2>3. \A j \in 1..(m + 1) : h[j] = Rule(s, h, j)
        <3> SUFFICES ASSUME NEW j \in 1..(m + 1)
                     PROVE  h[j] = Rule(s, h, j)
            OBVIOUS
        <3>1. h[j] = Rule(s, g, j)
            BY <2>2
        <3>2. j # 1 => h[j - 1] = g[j - 1]
            OBVIOUS
        <3>3. j > 1 <=> j # 1
            OBVIOUS
        <3> HIDE DEF h
        <3>4. Rule(s, g, j) = Rule(s, h, j)
            BY <3>2, <3>3, Zenon DEF Rule
        <3> QED
            BY <3>1, <3>4
    <2>4. h = [j \in 1..(m + 1) |-> Rule(s, h, j)]
        <3>1. DOMAIN h = 1..(m + 1) /\ h = [j \in 1..(m + 1) |-> h[j]]
            OBVIOUS
        <3> HIDE DEF h
        <3> QED
            BY <3>1, <2>3
    <2> HIDE DEF h
    <2> QED
        BY <2>4
<1>3. Nat \subseteq T
    <2> HIDE DEF T
    <2> QED
        BY <1>1, <1>2, Induction
<1>4. PICK f : f = [j \in 1..Len(s) |-> Rule(s, f, j)]
    BY <1>0, <1>3
<1>5. Keeps(s) = CHOOSE g : g = [j \in 1..Len(s) |-> Rule(s, g, j)]
    BY <1>0, Zenon DEF Keeps, Rule
<1> QED
    BY <1>4, <1>5

\* Which call is lost, by what is before it.
LEMMA KeepsNext ==
    ASSUME NEW C, NEW s \in Seq(C), NEW m \in Nat, m < Len(s)
    PROVE  LET c == s[m + 1]
               kept == Keeps(s)[m + 1] IN
           /\ c.call = "as" => ~kept
           /\ Joined(c) => (kept <=> Going(s, m))
           /\ (c.call # "as" /\ ~Joined(c)) => (kept <=> Loose(s, m))
           /\ Going(s, m) => ~Loose(s, m)
<1>1. m + 1 \in 1..Len(s) /\ (m + 1) - 1 = m /\ (m + 1 > 1 <=> m >= 1) /\ (m + 1 = 1 <=> m = 0)
      /\ (m >= 1 => m # 0)
    OBVIOUS
<1>2. Keeps(s)[m + 1] = Rule(s, Keeps(s), m + 1)
    <2>1. PICK kept : kept = Keeps(s)
        OBVIOUS
    <2>2. kept = [j \in 1..Len(s) |-> Rule(s, kept, j)]
        BY <2>1, KeepsDef
    <2>3. kept[m + 1] = Rule(s, kept, m + 1)
        BY <1>1, <2>2
    <2> QED
        BY <2>1, <2>3, Zenon
<1>3. s[m].call = "where" => Open(s[m])
    BY Zenon DEF Open
<1>4. Going(s, m) => ~Loose(s, m)
    BY <1>1, <1>3, Zenon DEF Going, Loose
<1>5. CASE s[m + 1].call = "as"
    <2>1. s[m + 1].call # "where"
        BY <1>5
    <2>2. ~Keeps(s)[m + 1]
        BY <1>2, <1>5, Zenon DEF Rule
    <2> QED
        BY <1>5, <1>4, <2>1, <2>2 DEF Joined
<1>6. CASE Joined(s[m + 1])
    <2>1. s[m + 1].call # "as"
        BY <1>6 DEF Joined
    <2>2. Keeps(s)[m + 1] <=> (m >= 1 /\ Keeps(s)[m] /\ s[m].call = "where")
        BY <1>1, <1>2, <1>6, <2>1, Zenon DEF Joined, Rule
    <2> QED
        BY <1>6, <1>4, <2>1, <2>2, Zenon DEF Going
<1>7. CASE s[m + 1].call # "as" /\ ~Joined(s[m + 1])
    <2>1. Keeps(s)[m + 1] <=> (m = 0 \/ ~(Keeps(s)[m] /\ Open(s[m])))
        BY <1>1, <1>2, <1>7, Zenon DEF Joined, Rule
    <2> QED
        BY <1>7, <1>4, <2>1, Zenon DEF Loose
<1> QED
    BY <1>5, <1>6, <1>7, Zenon

-----------------------------------------------------------------------------
\* x is what f gives for the last of the numbers up to m in S, or d.
Latest(S, f, m, x, d) ==
    \/ x = d /\ \A j \in S : j > m
    \/ \E j \in S : j <= m /\ x = f[j] /\ \A l \in S : l <= m => l <= j

\* The last of the numbers in S.
Top(S) == CHOOSE j \in S : \A l \in S : l <= j

\* Before the first of them it is d.
LEMMA LatestNone ==
    ASSUME NEW S, S \subseteq Nat \ {0}, NEW f, NEW d
    PROVE  Latest(S, f, 0, d, d)
BY DEF Latest

\* A number outside S leaves it.
LEMMA LatestSame ==
    ASSUME NEW S, S \subseteq Nat, NEW m \in Nat, m + 1 \notin S, NEW f, NEW x, NEW d,
           Latest(S, f, m, x, d)
    PROVE  Latest(S, f, m + 1, x, d)
<1>1. \A j \in S : j <= m + 1 <=> j <= m
    OBVIOUS
<1>2. \A j \in S : j > m + 1 <=> j > m
    OBVIOUS
<1> QED
    BY <1>1, <1>2, Zenon DEF Latest

\* One in S takes its place.
LEMMA LatestNew ==
    ASSUME NEW S, S \subseteq Nat, NEW m \in Nat, m + 1 \in S, NEW f, NEW d
    PROVE  Latest(S, f, m + 1, f[m + 1], d)
BY DEF Latest

\* Behind all of them it is what f gives for the last, if there is one.
LEMMA LatestLast ==
    ASSUME NEW n \in Nat, NEW S, S \subseteq 1..n, NEW f, NEW x, NEW d, Latest(S, f, n, x, d)
    PROVE  \/ S = {} /\ x = d
           \/ S # {} /\ Top(S) \in S /\ x = f[Top(S)]
<1>1. CASE S = {}
    BY <1>1, Zenon DEF Latest
<1>2. CASE S # {}
    <2>1. \A j \in S : ~(j > n)
        OBVIOUS
    <2>2. PICK j \in S : x = f[j] /\ \A l \in S : l <= n => l <= j
        BY <1>2, <2>1, Zenon DEF Latest
    <2>3. \A l \in S : l <= j
        BY <2>2
    <2>4. \A z \in S : (\A l \in S : l <= z) => z = j
        BY <2>3
    <2>5. j = Top(S)
        BY <2>3, <2>4 DEF Top
    <2> QED
        BY <1>2, <2>2, <2>5
<1> QED
    BY <1>1, <1>2

-----------------------------------------------------------------------------
(* The words of the calls behind from().                                   *)

\* The words at which the parser begins a clause, and the calls behind from().
ClauseWords == {W("WHERE"), W("GROUP"), W("ORDER"), W("LIMIT")}
Behinds == Clauses \cup {"as", "where"}

\* The order of orderBy() is a word more, or none.
LEMMA OrderWords ==
    ASSUME NEW call, Allowed(call), call.call = "orderBy"
    PROVE  \/ Open(call) /\ Saying(call) = <<W("ORDER"), W("BY"), W(call.field)>>
           \/ /\ ~Open(call) /\ call.order \in {"ASC", "DESC"}
              /\ Saying(call) = <<W("ORDER"), W("BY"), W(call.field), W(call.order)>>
<1>1. \/ Ending(call.order) = <<>> /\ Open(call)
      \/ Ending(call.order) = <<W(call.order)>> /\ ~Open(call)
    BY Zenon DEF Ending, Open
<1>2. Saying(call) = <<W("ORDER"), W("BY"), W(call.field)>> \o Ending(call.order)
    BY Sayings
<1>3. CASE Ending(call.order) = <<>> /\ Open(call)
    BY <1>2, <1>3
<1>4. CASE Ending(call.order) = <<W(call.order)>> /\ ~Open(call)
    <2>1. Ending(call.order) \in {<<>>, <<W("ASC")>>, <<W("DESC")>>}
        BY DEF Allowed
    <2>2. W(call.order) = W("ASC") \/ W(call.order) = W("DESC")
        BY <1>4, <2>1
    <2>3. call.order \in {"ASC", "DESC"}
        BY <2>2, WordShapes
    <2> QED
        BY <1>2, <1>4, <2>3, LongerByOne
<1> QED
    BY <1>1, <1>3, <1>4

\* The first word of a call says which it is, and none of the others begins a clause.
LEMMA BehindWords ==
    ASSUME NEW call, Allowed(call), call.call \in Behinds
    PROVE  LET s == Saying(call) IN
           /\ Len(s) \in Nat /\ Len(s) >= 1
           /\ call.call = "as" => s[1] = W("AS")
           /\ call.call = "where" => s[1] = W(call.word)
           /\ call.call = "groupBy" => s[1] = W("GROUP")
           /\ call.call = "orderBy" => s[1] = W("ORDER")
           /\ call.call = "limit" => s[1] = W("LIMIT")
           /\ \A p \in 2..Len(s) : s[p] \notin ClauseWords
<1> DEFINE s == Saying(call)
<1>0. /\ \A x : x \notin Keywords => W(x) \notin ClauseWords
      /\ \A x : V(x) \notin ClauseWords
      /\ \A x : [limit |-> x] \notin ClauseWords
      /\ W("BY") \notin ClauseWords /\ W("alias") \notin ClauseWords
      /\ W("ASC") \notin ClauseWords /\ W("DESC") \notin ClauseWords
    <2>1. \A x, y : [limit |-> x] # W(y)
        <3>1. \A x, y : DOMAIN [limit |-> x] = {"limit"} /\ DOMAIN W(y) = {"word"}
            BY DEF W
        <3>2. "limit" \notin {"word"}
            OBVIOUS
        <3> QED
            BY <3>1, <3>2
    <2> QED
        BY <2>1, WordShapes DEF ClauseWords, Keywords
<1>1. CASE call.call = "as"
    <2>1. s = <<W("AS"), W("alias")>>
        BY <1>1, Sayings
    <2>2. Len(s) = 2 /\ s[1] = W("AS") /\ s[2] = W("alias")
        BY <2>1
    <2>3. \A p \in 2..Len(s) : p = 2
        BY <2>2
    <2> QED
        BY <1>0, <1>1, <2>2, <2>3
<1>2. CASE call.call = "where"
    <2>1. s = <<W(call.word), W(call.field), W(call.op), V(call.value)>>
        BY <1>2, Sayings
    <2>2. /\ Len(s) = 4 /\ s[1] = W(call.word) /\ s[2] = W(call.field)
          /\ s[3] = W(call.op) /\ s[4] = V(call.value)
        BY <2>1
    <2>3. \A p \in 2..Len(s) : p = 2 \/ p = 3 \/ p = 4
        BY <2>2
    <2>4. call.field \notin Keywords /\ call.op \notin Keywords
        BY <1>2 DEF Allowed
    <2> QED
        BY <1>0, <1>2, <2>2, <2>3, <2>4
<1>3. CASE call.call = "groupBy"
    <2>1. s = <<W("GROUP"), W("BY"), W(call.field)>>
        BY <1>3, Sayings
    <2>2. Len(s) = 3 /\ s[1] = W("GROUP") /\ s[2] = W("BY") /\ s[3] = W(call.field)
        BY <2>1
    <2>3. \A p \in 2..Len(s) : p = 2 \/ p = 3
        BY <2>2
    <2>4. call.field \notin Keywords
        BY <1>3 DEF Allowed
    <2> QED
        BY <1>0, <1>3, <2>2, <2>3, <2>4
<1>4. CASE call.call = "orderBy"
    <2>1. call.field \notin Keywords
        BY <1>4 DEF Allowed
    <2>2. CASE s = <<W("ORDER"), W("BY"), W(call.field)>>
        <3>1. Len(s) = 3 /\ s[1] = W("ORDER") /\ s[2] = W("BY") /\ s[3] = W(call.field)
            BY <2>2
        <3>2. \A p \in 2..Len(s) : p = 2 \/ p = 3
            BY <3>1
        <3> QED
            BY <1>0, <1>4, <2>1, <3>1, <3>2
    <2>3. CASE /\ s = <<W("ORDER"), W("BY"), W(call.field), W(call.order)>>
               /\ call.order \in {"ASC", "DESC"}
        <3>1. /\ Len(s) = 4 /\ s[1] = W("ORDER") /\ s[2] = W("BY") /\ s[3] = W(call.field)
              /\ s[4] = W(call.order)
            BY <2>3
        <3>2. \A p \in 2..Len(s) : p = 2 \/ p = 3 \/ p = 4
            BY <3>1
        <3> QED
            BY <1>0, <1>4, <2>1, <2>3, <3>1, <3>2
    <2> QED
        BY <1>4, <2>2, <2>3, OrderWords
<1>5. CASE call.call = "limit"
    <2>1. s = <<W("LIMIT"), [limit |-> call.limit]>>
        BY <1>5, Sayings
    <2>2. Len(s) = 2 /\ s[1] = W("LIMIT") /\ s[2] = [limit |-> call.limit]
        BY <2>1
    <2>3. \A p \in 2..Len(s) : p = 2
        BY <2>2
    <2> QED
        BY <1>0, <1>5, <2>2, <2>3
<1> QED
    BY <1>1, <1>2, <1>3, <1>4, <1>5 DEF Behinds, Clauses

-----------------------------------------------------------------------------
(* The calls that are kept, and what they leave.                           *)

\* The positions of the kept calls of a name, of the orders with a direction, and what
\* the calls say.
Picked(s, name) == {j \in DOMAIN s : Keeps(s)[j] /\ s[j].call = name}
Directed(s) == {j \in Picked(s, "orderBy") : ~Open(s[j])}
Taken(s) == [j \in DOMAIN s |-> j]
FieldsOf(s) == [j \in DOMAIN s |-> s[j].field]
DirectionsOf(s) == [j \in DOMAIN s |-> s[j].order = "DESC"]
LimitsOf(s) == [j \in DOMAIN s |-> s[j].limit]

\* The conditions of the calls up to m, and the other parameters.
WheresHeard(s, m, cs) ==
    LET w == Gathered(Taken(s), Picked(s, "where"))[m] IN
    cs = [n \in DOMAIN w |-> ConditionOf(s[w[n]])]
Heard(s, m, ps, cs) ==
    /\ WheresHeard(s, m, cs)
    /\ Latest(Picked(s, "groupBy"), FieldsOf(s), m, ps.group, NoJoin)
    /\ Latest(Picked(s, "orderBy"), FieldsOf(s), m, ps.order, NoJoin)
    /\ Latest(Directed(s), DirectionsOf(s), m, ps.desc, FALSE)
    /\ Latest(Picked(s, "limit"), LimitsOf(s), m, ps.limit, -1)

\* The positions of the calls of one name are among those of all.
LEMMA PickedFacts ==
    ASSUME NEW C, NEW s \in Seq(C)
    PROVE  /\ \A name : Picked(s, name) \subseteq 1..Len(s)
           /\ Directed(s) \subseteq 1..Len(s)
           /\ \A j \in 1..Len(s) :
                 /\ \A name : j \in Picked(s, name) <=> Keeps(s)[j] /\ s[j].call = name
                 /\ j \in Directed(s) <=> Keeps(s)[j] /\ s[j].call = "orderBy" /\ ~Open(s[j])
<1>1. DOMAIN s = 1..Len(s)
    OBVIOUS
<1> QED
    BY <1>1, Zenon DEF Picked, Directed

\* A call that is not a where() leaves the conditions.
LEMMA WheresSame ==
    ASSUME NEW C, NEW s \in Seq(C), NEW m \in Nat, m < Len(s), NEW cs,
           WheresHeard(s, m, cs), m + 1 \notin Picked(s, "where")
    PROVE  WheresHeard(s, m + 1, cs)
<1> DEFINE t == Taken(s)  S == Picked(s, "where")  g == Gathered(t, S)
<1>1. Len(t) = Len(s) /\ t[m + 1] = m + 1 /\ t \in Seq(Nat)
    BY DEF Taken
<1>2. m + 1 \in 0..Len(t) /\ m + 1 # 0 /\ (m + 1) - 1 = m /\ Len(t) \in Nat
    BY <1>1
<1> HIDE DEF t, S
<1>3. g = [n \in 0..Len(t) |->
             IF n = 0 THEN <<>>
             ELSE IF t[n] \in S THEN Append(g[n - 1], t[n]) ELSE g[n - 1]]
    BY <1>2, GatheredDef
<1> HIDE DEF g
<1>4. g[m + 1] = g[m]
    BY <1>1, <1>2, <1>3 DEF S
<1> QED
    BY <1>4, Zenon DEF WheresHeard, g, t, S

\* One that is kept adds its own.
LEMMA WheresMore ==
    ASSUME NEW C, NEW s \in Seq(C), NEW m \in Nat, m < Len(s), NEW cs,
           WheresHeard(s, m, cs), m + 1 \in Picked(s, "where")
    PROVE  WheresHeard(s, m + 1, Append(cs, ConditionOf(s[m + 1])))
<1> DEFINE t == Taken(s)  S == Picked(s, "where")  g == Gathered(t, S)
<1>1. Len(t) = Len(s) /\ t[m + 1] = m + 1 /\ t \in Seq(Nat)
    BY DEF Taken
<1>2. m + 1 \in 0..Len(t) /\ m + 1 # 0 /\ (m + 1) - 1 = m /\ Len(t) \in Nat /\ m \in 0..Len(t)
    BY <1>1
<1> HIDE DEF t, S
<1>3. g = [n \in 0..Len(t) |->
             IF n = 0 THEN <<>>
             ELSE IF t[n] \in S THEN Append(g[n - 1], t[n]) ELSE g[n - 1]]
    BY <1>2, GatheredDef
<1>4. PICK w : w = g[m]
    OBVIOUS
<1>5. w \in Seq(Nat)
    BY <1>1, <1>2, <1>4, GatheredFollows
<1> HIDE DEF g
<1>6. g[m + 1] = Append(w, m + 1)
    BY <1>1, <1>2, <1>3, <1>4 DEF S
<1>7. cs = [n \in DOMAIN w |-> ConditionOf(s[w[n]])]
    BY <1>4, Zenon DEF WheresHeard, g, t, S
<1>8. PICK v : v = Append(w, m + 1)
    OBVIOUS
<1>9. Append(cs, ConditionOf(s[m + 1])) = [n \in DOMAIN v |-> ConditionOf(s[v[n]])]
    <2>1. PICK c : c = ConditionOf(s[m + 1])
        OBVIOUS
    <2>2. /\ Len(v) = Len(w) + 1 /\ v[Len(w) + 1] = m + 1 /\ DOMAIN v = 1..(Len(w) + 1)
          /\ \A n \in 1..Len(w) : v[n] = w[n]
          /\ Len(w) \in Nat /\ DOMAIN w = 1..Len(w)
        BY <1>5, <1>8
    <2>3. \E D : cs \in Seq(D)
        <3>1. cs \in Seq({ConditionOf(s[w[n]]) : n \in 1..Len(w)})
            BY <1>7, <2>2
        <3> QED
            BY <3>1
    <2>4. PICK D : cs \in Seq(D)
        BY <2>3
    <2>6. Len(cs) = Len(w)
        BY <1>7, <2>2, <2>3
    <2>7. PICK r : r = Append(cs, c)
        OBVIOUS
    <2>8. /\ Len(r) = Len(w) + 1 /\ r[Len(w) + 1] = c
          /\ \A n \in 1..Len(w) : r[n] = cs[n]
          /\ \E E : r \in Seq(E)
        <3>1. cs \in Seq(D \cup {c})
            BY <2>4
        <3> QED
            BY <2>2, <2>6, <2>7, <3>1
    <2>9. r = [n \in 1..(Len(w) + 1) |-> r[n]]
        BY <2>2, <2>8
    <2>10. ASSUME NEW n \in 1..(Len(w) + 1)
           PROVE  r[n] = ConditionOf(s[v[n]])
        <3>1. CASE n = Len(w) + 1
            BY <2>1, <2>2, <2>8, <3>1
        <3>2. CASE n \in 1..Len(w)
            BY <1>7, <2>2, <2>8, <3>2
        <3> QED
            BY <2>2, <3>1, <3>2
    <2> QED
        BY <2>1, <2>2, <2>7, <2>9, <2>10
<1> QED
    BY <1>6, <1>8, <1>9, Zenon DEF WheresHeard, g, t, S

\* What a call that is kept changes.
Hears(c, ps, cs, qs, ds) ==
    /\ ds = IF c.call = "where" THEN Append(cs, ConditionOf(c)) ELSE cs
    /\ qs.group = IF c.call = "groupBy" THEN c.field ELSE ps.group
    /\ qs.order = IF c.call = "orderBy" THEN c.field ELSE ps.order
    /\ (c.call = "orderBy" /\ ~Open(c)) => qs.desc = (c.order = "DESC")
    /\ ~(c.call = "orderBy" /\ ~Open(c)) => qs.desc = ps.desc
    /\ qs.limit = IF c.call = "limit" THEN c.limit ELSE ps.limit

\* A call that is lost changes nothing.
LEMMA HeardSame ==
    ASSUME NEW C, NEW s \in Seq(C), NEW m \in Nat, m < Len(s), NEW ps, NEW cs,
           Heard(s, m, ps, cs), ~Keeps(s)[m + 1]
    PROVE  Heard(s, m + 1, ps, cs)
<1>1. /\ \A name : Picked(s, name) \subseteq Nat /\ m + 1 \notin Picked(s, name)
      /\ Directed(s) \subseteq Nat /\ m + 1 \notin Directed(s)
    <2>1. m + 1 \in 1..Len(s) /\ 1..Len(s) \subseteq Nat
        OBVIOUS
    <2> QED
        BY <2>1, PickedFacts
<1>2. WheresHeard(s, m + 1, cs)
    BY <1>1, WheresSame DEF Heard
<1> QED
    BY <1>1, <1>2, LatestSame DEF Heard

\* One that is kept changes what it is about.
LEMMA HeardMore ==
    ASSUME NEW C, NEW s \in Seq(C), NEW m \in Nat, m < Len(s), NEW ps, NEW cs,
           Heard(s, m, ps, cs), Keeps(s)[m + 1], NEW qs, NEW ds,
           Hears(s[m + 1], ps, cs, qs, ds)
    PROVE  Heard(s, m + 1, qs, ds)
<1> DEFINE c == s[m + 1]
<1>1. /\ \A name : Picked(s, name) \subseteq Nat
      /\ \A name : m + 1 \in Picked(s, name) <=> c.call = name
      /\ Directed(s) \subseteq Nat
      /\ m + 1 \in Directed(s) <=> c.call = "orderBy" /\ ~Open(c)
    <2>1. m + 1 \in 1..Len(s) /\ 1..Len(s) \subseteq Nat
        OBVIOUS
    <2> QED
        BY <2>1, PickedFacts
<1>2. /\ FieldsOf(s)[m + 1] = c.field /\ LimitsOf(s)[m + 1] = c.limit
      /\ DirectionsOf(s)[m + 1] = (c.order = "DESC")
    <2>1. m + 1 \in DOMAIN s
        OBVIOUS
    <2> QED
        BY <2>1 DEF FieldsOf, LimitsOf, DirectionsOf
<1> HIDE DEF c
<1>3. WheresHeard(s, m + 1, ds)
    <2>1. CASE c.call = "where"
        BY <1>1, <2>1, WheresMore DEF Heard, Hears, c
    <2>2. CASE c.call # "where"
        BY <1>1, <2>2, WheresSame DEF Heard, Hears, c
    <2> QED
        BY <2>1, <2>2
<1>4. Latest(Picked(s, "groupBy"), FieldsOf(s), m + 1, qs.group, NoJoin)
    <2>1. CASE c.call = "groupBy"
        BY <1>1, <1>2, <2>1, LatestNew DEF Hears, c
    <2>2. CASE c.call # "groupBy"
        BY <1>1, <2>2, LatestSame DEF Heard, Hears, c
    <2> QED
        BY <2>1, <2>2
<1>5. Latest(Picked(s, "orderBy"), FieldsOf(s), m + 1, qs.order, NoJoin)
    <2>1. CASE c.call = "orderBy"
        BY <1>1, <1>2, <2>1, LatestNew DEF Hears, c
    <2>2. CASE c.call # "orderBy"
        BY <1>1, <2>2, LatestSame DEF Heard, Hears, c
    <2> QED
        BY <2>1, <2>2
<1>6. Latest(Directed(s), DirectionsOf(s), m + 1, qs.desc, FALSE)
    <2>1. CASE c.call = "orderBy" /\ ~Open(c)
        <3>1. qs.desc = DirectionsOf(s)[m + 1]
            BY <1>2, <2>1, Zenon DEF Hears, c
        <3> QED
            BY <1>1, <2>1, <3>1, LatestNew
    <2>2. CASE ~(c.call = "orderBy" /\ ~Open(c))
        <3>1. qs.desc = ps.desc
            BY <2>2, Zenon DEF Hears, c
        <3> QED
            BY <1>1, <2>2, <3>1, LatestSame DEF Heard
    <2> QED
        BY <2>1, <2>2
<1>7. Latest(Picked(s, "limit"), LimitsOf(s), m + 1, qs.limit, -1)
    <2>1. CASE c.call = "limit"
        BY <1>1, <1>2, <2>1, LatestNew DEF Hears, c
    <2>2. CASE c.call # "limit"
        BY <1>1, <2>2, LatestSame DEF Heard, Hears, c
    <2> QED
        BY <2>1, <2>2
<1> QED
    BY <1>3, <1>4, <1>5, <1>6, <1>7 DEF Heard

-----------------------------------------------------------------------------
(* Where the parser of a GET is.                                           *)

\* The calls behind call F, which is from().
Rest(F) == SubSeq(calls, F + 1, Len(calls))

\* Call F is from(), behind select() and perhaps as().
Opening(F) ==
    /\ F \in {2, 3} /\ F \in 1..Len(calls)
    /\ calls[1].call = "select" /\ calls[F].call = "from"
    /\ F = 3 <=> calls[2].call = "as"

\* The parameters say what select() and as() said.
Titled(ps) ==
    ps.kind = "GET" /\ ps.fields = calls[1].fields /\ ps.alias = (calls[2].call = "as")

\* It has heard m calls behind from(), and q is its place in the text: behind the
\* conditions of the m-th; or, between two clauses, behind the m-th, or within the
\* words of the m-th, which is lost, or past the end.
Reached(start, F, m, np, q) ==
    LET s == Rest(F)
        end == EndOf(start, F + m) IN
    /\ m \in 0..Len(s)
    /\ np = "where" => Going(s, m) /\ q = end
    /\ np = "clauses" => \/ q = end /\ Loose(s, m)
                         \/ /\ m >= 1 /\ ~Keeps(s)[m]
                            /\ start[F + m] < q /\ q < end
                         \/ q > Len(command) /\ m = Len(s)
    /\ np = "load" => m = Len(s)

\* The parser of a GET whose text is whole has heard the first calls, and no more.
HeardInv ==
    (place \in {"clauses", "where", "load"} /\ params.kind = "GET" /\ text = command) =>
        \E start, F, m : /\ Stands(start) /\ Opening(F) /\ Titled(params)
                         /\ Heard(Rest(F), m, params, conds)
                         /\ Reached(start, F, m, place, pos)

\* A step of the parser to such a state.
LEMMA HeardParse ==
    ASSUME NEW np, NEW q, NEW ps, NEW cs, Parse(np, q, ps, cs),
           NEW start, Stands(start), NEW F, Opening(F), Titled(ps),
           NEW m, Heard(Rest(F), m, ps, cs), Reached(start, F, m, np, q)
    PROVE  HeardInv'
<1>1. /\ place' = np /\ pos' = q /\ params' = ps /\ conds' = cs
      /\ calls' = calls /\ command' = command
    BY Zenon DEF Parse, builderVars
<1>2. Stands(start)'
    BY <1>1 DEF Stands, EndOf
<1>3. Opening(F)' /\ Titled(params)'
    BY <1>1 DEF Opening, Titled
<1>4. Rest(F)' = Rest(F)
    BY <1>1 DEF Rest
<1>5. Heard(Rest(F), m, params, conds)'
    BY <1>1, <1>4
<1>6. Reached(start, F, m, place, pos)'
    BY <1>1, <1>4 DEF Reached, EndOf
<1> QED
    BY <1>2, <1>3, <1>5, <1>6 DEF HeardInv

\* The calls behind from() are clauses.
LEMMA RestFacts ==
    ASSUME Chain, NEW F, Opening(F)
    PROVE  LET s == Rest(F) IN
           /\ \E C : s \in Seq(C)
           /\ Len(s) \in Nat /\ Len(s) = Len(calls) - F /\ F \in Nat
           /\ \A m \in 1..Len(s) :
                 /\ F + m \in 1..Len(calls) /\ s[m] = calls[F + m]
                 /\ Allowed(s[m]) /\ s[m].call \in Behinds
<1>1. PICK C : calls \in Seq(C)
    BY DEF Chain
<1>2. F \in Nat /\ F >= 2 /\ F <= Len(calls) /\ Len(calls) \in Nat
    BY <1>1 DEF Opening
<1>3. PICK s : s = Rest(F)
    OBVIOUS
<1>4. /\ s \in Seq(C) /\ Len(s) = Len(calls) - F
      /\ \A m \in 1..Len(s) : s[m] = calls[F + m]
    BY <1>1, <1>2, <1>3 DEF Rest
<1>5. ASSUME NEW m \in 1..Len(s)
      PROVE  F + m \in 1..Len(calls) /\ Allowed(s[m]) /\ s[m].call \in Behinds
    <2>1. F + m \in 1..Len(calls) /\ F + m # 1 /\ F + m # F
        BY <1>2, <1>4
    <2>2. Allowed(s[m]) /\ s[m].call \notin Heads
        BY <1>4, <2>1 DEF Chain
    <2>3. s[m].call # "from"
        BY <1>4, <2>1 DEF Chain, Opening
    <2>4. s[m].call # "set" /\ s[m].call # "value"
        BY <1>4, <2>1 DEF Chain, Opening
    <2> QED
        BY <2>1, <2>2, <2>3, <2>4 DEF Allowed, Behinds, Clauses
<1> QED
    BY <1>2, <1>3, <1>4, <1>5

\* The whole text is there, and m calls behind from() are.
Listening(start, F, m) ==
    /\ Chain /\ TextInv /\ Arrived /\ text = command
    /\ Stands(start) /\ Opening(F) /\ m \in 0..Len(Rest(F))

\* Where the words of call m end and the text goes on, the next call begins.
LEMMA NextHeard ==
    ASSUME NEW start, NEW F, NEW m, Listening(start, F, m), EndOf(start, F + m) <= Len(text)
    PROVE  LET s == Rest(F)
               c == s[m + 1]
               n == F + (m + 1) IN
           /\ m \in Nat /\ m < Len(s) /\ m + 1 \in 0..Len(s) /\ \E C : s \in Seq(C)
           /\ n \in 1..Len(calls) /\ calls[n] = c /\ Allowed(c) /\ c.call \in Behinds
           /\ start[n] = EndOf(start, F + m) /\ start[n] \in Nat
           /\ EndOf(start, n) = start[n] + Len(Saying(c)) /\ Len(Saying(c)) \in Nat
           /\ Len(Saying(c)) >= 1
           /\ text[start[n]] = Saying(c)[1]
           /\ \A p \in 1..Len(Saying(c)) :
                 start[n] + p - 1 <= Len(text) => text[start[n] + p - 1] = Saying(c)[p]
<1> DEFINE s == Rest(F)  c == s[m + 1]  n == F + (m + 1)
<1>1. /\ \E C : s \in Seq(C)
      /\ Len(s) \in Nat /\ Len(s) = Len(calls) - F /\ F \in Nat /\ F \in 1..Len(calls)
      /\ \A j \in 1..Len(s) : /\ F + j \in 1..Len(calls) /\ s[j] = calls[F + j]
                             /\ Allowed(s[j]) /\ s[j].call \in Behinds
    <2>1. F \in 1..Len(calls)
        BY DEF Listening, Opening
    <2> QED
        BY <2>1, RestFacts DEF Listening
<1>2. m \in Nat /\ m <= Len(s) /\ F + m \in 1..Len(calls) /\ (F + m) + 1 = n
    <2>1. m \in 0..Len(s)
        BY DEF Listening
    <2>2. Len(calls) \in Nat
        BY DEF Listening, Chain
    <2> QED
        BY <1>1, <2>1, <2>2
<1>3. /\ n \in 1..Len(calls) /\ start[n] = EndOf(start, F + m)
      /\ text[EndOf(start, F + m)] = Saying(calls[n])[1]
    BY <1>2, NextCall DEF Listening
<1>4. m < Len(s) /\ m + 1 \in 1..Len(s) /\ m + 1 \in 0..Len(s)
    BY <1>1, <1>2, <1>3
<1>5. calls[n] = c /\ Allowed(c) /\ c.call \in Behinds
    BY <1>1, <1>4
<1> HIDE DEF s, c, n
<1>6. /\ start[n] \in Nat /\ start[n] + Len(Saying(calls[n])) = EndOf(start, n)
      /\ Len(Saying(calls[n])) \in Nat
    <2>1. start \in Seq(Nat) /\ Len(start) = Len(calls)
        BY DEF Listening, Stands
    <2>2. start[n] \in Nat
        BY <1>3, <2>1
    <2>3. start[n] + Len(Saying(calls[n])) = EndOf(start, n) /\ Len(Saying(calls[n])) \in Nat
        BY <1>3, Zenon DEF Listening, Stands
    <2> QED
        BY <2>2, <2>3
<1>7. Len(Saying(c)) >= 1
    BY <1>5, BehindWords
<1>8. \A p \in 1..Len(Saying(c)) :
         start[n] + p - 1 <= Len(text) => text[start[n] + p - 1] = Saying(c)[p]
    BY <1>3, <1>5, CallArrived DEF Listening
<1> QED
    BY <1>1, <1>2, <1>3, <1>4, <1>5, <1>6, <1>7, <1>8 DEF s, c, n

\* Where they end and the text does, all calls are heard.
LEMMA LastHeard ==
    ASSUME NEW start, NEW F, NEW m, Listening(start, F, m), EndOf(start, F + m) > Len(text)
    PROVE  m = Len(Rest(F))
<1>1. /\ Len(Rest(F)) \in Nat /\ Len(Rest(F)) = Len(calls) - F /\ F \in Nat
      /\ \A j \in 1..Len(Rest(F)) : /\ F + j \in 1..Len(calls) /\ Rest(F)[j] = calls[F + j]
                                   /\ Allowed(Rest(F)[j]) /\ Rest(F)[j].call \in Behinds
    BY RestFacts DEF Listening
<1> SUFFICES ASSUME m # Len(Rest(F))
             PROVE  FALSE
    OBVIOUS
<1>2. m \in Nat /\ m + 1 \in 1..Len(Rest(F)) /\ F + m # Len(calls) /\ (F + m) + 1 = F + (m + 1)
    BY <1>1 DEF Listening
<1>3. PICK n : n = F + (m + 1)
    OBVIOUS
<1>4. EndOf(start, F + m) = start[n] /\ n \in 1..Len(calls)
    BY <1>1, <1>2, <1>3 DEF EndOf
<1>5. Len(Saying(calls[n])) \in Nat /\ Len(Saying(calls[n])) >= 1
    BY <1>1, <1>2, <1>3, BehindWords
<1>6. /\ start[n] + Len(Saying(calls[n])) = EndOf(start, n)
      /\ EndOf(start, n) <= Len(command) + 1
      /\ start[n] \in Nat
    <2>1. /\ start[n] + Len(Saying(calls[n])) = EndOf(start, n)
          /\ EndOf(start, n) <= Len(command) + 1
        BY <1>4, Zenon DEF Listening, Stands
    <2>2. start \in Seq(Nat) /\ Len(start) = Len(calls)
        BY DEF Listening, Stands
    <2> QED
        BY <1>4, <2>1, <2>2
<1>7. Len(text) = Len(command) /\ Len(command) \in Nat
    BY DEF Listening, TextInv, Phrase, Words
<1> QED
    BY <1>4, <1>5, <1>6, <1>7

\* Some number of calls is heard, with the parser at np and q.
Goes(start, F, np, q, ps, cs) ==
    \E m : Heard(Rest(F), m, ps, cs) /\ Reached(start, F, m, np, q)

\* A word more is passed over behind the m-th call, when the next is lost.
LEMMA StepInto ==
    ASSUME NEW start, NEW F, NEW m, Listening(start, F, m), NEW ps, NEW cs,
           Heard(Rest(F), m, ps, cs), NEW q, q = EndOf(start, F + m), q \in Nat,
           q <= Len(text) => ~Keeps(Rest(F))[m + 1]
    PROVE  Goes(start, F, "clauses", q + 1, ps, cs)
<1>0. Len(text) = Len(command) /\ Len(command) \in Nat /\ m \in 0..Len(Rest(F))
    BY DEF Listening, TextInv, Phrase, Words
<1>1. CASE q > Len(text)
    <2>1. m = Len(Rest(F))
        BY <1>1, LastHeard
    <2>2. q + 1 > Len(command)
        BY <1>0, <1>1
    <2>3. Reached(start, F, m, "clauses", q + 1)
        BY <1>0, <2>1, <2>2 DEF Reached
    <2> QED
        BY <2>3 DEF Goes
<1>2. CASE q <= Len(text)
    <2> DEFINE s == Rest(F)  c == s[m + 1]  n == F + (m + 1)
    <2>1. /\ m \in Nat /\ m < Len(s) /\ m + 1 \in 0..Len(s) /\ \E C : s \in Seq(C)
          /\ start[n] = q /\ EndOf(start, n) = q + Len(Saying(c))
          /\ Len(Saying(c)) \in Nat /\ Len(Saying(c)) >= 1
        BY <1>2, NextHeard
    <2>2. Heard(s, m + 1, ps, cs)
        BY <1>2, <2>1, HeardSame
    <2>3. Loose(s, m + 1)
        BY <1>2, Zenon DEF Loose
    <2> HIDE DEF c
    <2>4. m + 1 >= 1 /\ q < q + 1 /\ (q + 1 = EndOf(start, n) \/ q + 1 < EndOf(start, n))
        BY <2>1
    <2>5. Reached(start, F, m + 1, "clauses", q + 1)
        BY <1>2, <2>1, <2>3, <2>4 DEF Reached
    <2> QED
        BY <2>2, <2>5 DEF Goes
<1> QED
    BY <1>0, <1>1, <1>2

\* A word that begins a clause stands where a call begins.
LEMMA ClauseBegins ==
    ASSUME NEW start, NEW F, NEW m, Listening(start, F, m), NEW q \in Nat,
           Reached(start, F, m, "clauses", q), q <= Len(text), text[q] \in ClauseWords
    PROVE  q = EndOf(start, F + m) /\ Loose(Rest(F), m)
<1>0. Len(text) = Len(command) /\ Len(command) \in Nat
    BY DEF Listening, TextInv, Phrase, Words
<1> SUFFICES ASSUME m >= 1, start[F + m] < q, q < EndOf(start, F + m)
             PROVE  FALSE
    BY <1>0 DEF Reached
<1> DEFINE s == Rest(F)  c == s[m]  n == F + m
<1>1. m \in 1..Len(s)
    BY RestFacts DEF Listening
<1>2. n \in 1..Len(calls) /\ calls[n] = c /\ Allowed(c) /\ c.call \in Behinds
    BY <1>1, RestFacts DEF Listening
<1> HIDE DEF s, c, n
<1>3. /\ start[n] + Len(Saying(c)) = EndOf(start, n) /\ Len(Saying(c)) \in Nat
      /\ start[n] \in Nat
    <2>1. start[n] + Len(Saying(calls[n])) = EndOf(start, n) /\ Len(Saying(calls[n])) \in Nat
        BY <1>2, Zenon DEF Listening, Stands
    <2>2. start \in Seq(Nat) /\ Len(start) = Len(calls)
        BY DEF Listening, Stands
    <2> QED
        BY <1>2, <2>1, <2>2
<1>4. PICK p : p = q - start[n] + 1
    OBVIOUS
<1>5. p \in 2..Len(Saying(c)) /\ p \in 1..Len(Saying(c)) /\ start[n] + p - 1 = q
    BY <1>3, <1>4 DEF n
<1>6. text[start[n] + p - 1] = Saying(c)[p]
    BY <1>2, <1>5, CallArrived DEF Listening
<1>7. Saying(c)[p] \notin ClauseWords
    BY <1>2, <1>5, BehindWords
<1> QED
    BY <1>5, <1>6, <1>7

\* Which call a clause's word begins; it is kept.
LEMMA ClauseHeard ==
    ASSUME NEW start, NEW F, NEW m, Listening(start, F, m), EndOf(start, F + m) <= Len(text),
           Loose(Rest(F), m), text[EndOf(start, F + m)] \in ClauseWords
    PROVE  LET c == Rest(F)[m + 1]
               w == text[EndOf(start, F + m)] IN
           /\ Keeps(Rest(F))[m + 1]
           /\ w = W("WHERE") => c.call = "where" /\ c.word = "WHERE"
           /\ w = W("GROUP") => c.call = "groupBy"
           /\ w = W("ORDER") => c.call = "orderBy"
           /\ w = W("LIMIT") => c.call = "limit"
<1> DEFINE s == Rest(F)  c == s[m + 1]
<1>1. /\ m \in Nat /\ m < Len(s) /\ \E C : s \in Seq(C)
      /\ Allowed(c) /\ c.call \in Behinds
      /\ text[EndOf(start, F + m)] = Saying(c)[1]
    BY NextHeard
<1> HIDE DEF c
<1>2. c.call # "as" /\ (c.call = "where" => c.word = "WHERE")
    <2>1. c.call = "as" => Saying(c)[1] = W("AS")
        BY <1>1, BehindWords
    <2>2. c.call = "where" => Saying(c)[1] = W(c.word)
        BY <1>1, BehindWords
    <2>3. c.call = "where" => c.word \in {"WHERE", "AND", "OR"}
        BY <1>1 DEF Allowed
    <2> QED
        BY <1>1, <2>1, <2>2, <2>3, WordShapes DEF ClauseWords
<1>3. Keeps(s)[m + 1]
    BY <1>1, <1>2, KeepsNext DEF Joined, c
<1>4. /\ c.call = "where" => Saying(c)[1] = W("WHERE")
      /\ c.call = "groupBy" => Saying(c)[1] = W("GROUP")
      /\ c.call = "orderBy" => Saying(c)[1] = W("ORDER")
      /\ c.call = "limit" => Saying(c)[1] = W("LIMIT")
    BY <1>1, <1>2, BehindWords
<1>5. c.call \in {"where", "groupBy", "orderBy", "limit"}
    BY <1>1, <1>2 DEF Behinds, Clauses
<1> QED
    BY <1>1, <1>2, <1>3, <1>4, <1>5, WordShapes DEF c

\* What leaves nothing to go on.
LEMMA NotOpen ==
    ASSUME NEW c, c.call \in {"groupBy", "limit"}
    PROVE  ~Open(c)
<1>1. c.call # "where" /\ c.call # "orderBy"
    OBVIOUS
<1> QED
    BY <1>1, Zenon DEF Open

\* The state of the parser of a GET, with what it has heard.
Hearing(start, F, m) ==
    /\ Listening(start, F, m) /\ ParserInv /\ params.kind = "GET"
    /\ Titled(params) /\ Heard(Rest(F), m, params, conds)
    /\ Reached(start, F, m, place, pos)

\* Behind a clause that is kept.
LEMMA StepOver ==
    ASSUME NEW start, NEW F, NEW m, Listening(start, F, m), EndOf(start, F + m) <= Len(text),
           Heard(Rest(F), m, params, conds), Keeps(Rest(F))[m + 1],
           NEW ps, NEW cs, Hears(Rest(F)[m + 1], params, conds, ps, cs)
    PROVE  /\ Rest(F)[m + 1].call = "where" =>
                 Goes(start, F, "where", EndOf(start, F + (m + 1)), ps, cs)
           /\ ~Open(Rest(F)[m + 1]) =>
                 Goes(start, F, "clauses", EndOf(start, F + (m + 1)), ps, cs)
<1> DEFINE s == Rest(F)  c == s[m + 1]
<1>1. /\ m \in Nat /\ m < Len(s) /\ m + 1 \in 0..Len(s) /\ \E C : s \in Seq(C)
      /\ m + 1 >= 1
    BY NextHeard
<1>2. Heard(s, m + 1, ps, cs)
    BY <1>1, HeardMore
<1> DEFINE e == EndOf(start, F + (m + 1))
<1>3. Reached(start, F, m + 1, "where", e) \/ c.call # "where"
    BY <1>1 DEF Reached, Going
<1>4. Reached(start, F, m + 1, "clauses", e) \/ Open(c)
    BY <1>1 DEF Reached, Loose
<1> HIDE DEF e, s
<1> QED
    BY <1>2, <1>3, <1>4 DEF Goes, s, e

\* A step of the parser that goes on so keeps the invariant.
LEMMA GoesOn ==
    ASSUME NEW start, NEW F, NEW m, Listening(start, F, m), NEW np, NEW q, NEW ps, NEW cs,
           Parse(np, q, ps, cs), Titled(ps), Goes(start, F, np, q, ps, cs)
    PROVE  HeardInv'
<1>1. PICK h : Heard(Rest(F), h, ps, cs) /\ Reached(start, F, h, np, q)
    BY DEF Goes
<1>2. Stands(start) /\ Opening(F)
    BY DEF Listening
<1> QED
    BY <1>1, <1>2, HeardParse

\* WHERE.
LEMMA WhereHeard ==
    ASSUME NEW start, NEW F, NEW m, Hearing(start, F, m), WhereClause
    PROVE  HeardInv'
<1> DEFINE s == Rest(F)  c == s[m + 1]  n == F + (m + 1)
<1>1. /\ place = "clauses" /\ WordAt(pos, "WHERE") /\ ConditionAt(pos)
      /\ Parse("where", pos + 4, params, Append(conds, ConditionFrom(pos, NoJoin)))
    BY Zenon DEF WhereClause, NoJoin
<1>2. /\ pos \in Nat /\ pos <= Len(text) /\ text[pos] = W("WHERE") /\ pos + 3 <= Len(text)
      /\ text[pos] \in ClauseWords
    BY <1>1 DEF WordAt, ConditionAt, Hearing, ParserInv, ClauseWords
<1>3. Listening(start, F, m) /\ Heard(s, m, params, conds) /\ Titled(params)
    BY DEF Hearing
<1>4. pos = EndOf(start, F + m) /\ Loose(s, m)
    BY <1>1, <1>2, <1>3, ClauseBegins DEF Hearing
<1>5. Keeps(s)[m + 1] /\ c.call = "where" /\ c.word = "WHERE"
    BY <1>2, <1>3, <1>4, ClauseHeard
<1>6. n \in 1..Len(calls) /\ calls[n] = c /\ start[n] = pos
    BY <1>2, <1>3, <1>4, NextHeard
<1> HIDE DEF c, n
<1>7. JoinOf("WHERE") = NoJoin
    BY Zenon DEF JoinOf, NoJoin
<1>8. ConditionFrom(pos, NoJoin) = ConditionOf(c) /\ EndOf(start, n) = pos + 4
    BY <1>2, <1>3, <1>5, <1>6, <1>7, WhereThere DEF Listening
<1> DEFINE cs == Append(conds, ConditionOf(c))
<1>9. Hears(c, params, conds, params, cs)
    BY <1>5 DEF Hears
<1> HIDE DEF cs
<1>10. Goes(start, F, "where", EndOf(start, n), params, cs)
    BY <1>2, <1>3, <1>4, <1>5, <1>9, StepOver DEF c, n
<1>11. Parse("where", pos + 4, params, cs)
    BY <1>1, <1>8 DEF cs
<1> QED
    BY <1>3, <1>8, <1>10, <1>11, GoesOn

\* GROUP BY.
LEMMA GroupHeard ==
    ASSUME NEW start, NEW F, NEW m, Hearing(start, F, m), GroupClause
    PROVE  HeardInv'
<1> DEFINE s == Rest(F)  c == s[m + 1]  n == F + (m + 1)
           ps == [params EXCEPT !.group = text[pos + 2].word]
<1>1. /\ place = "clauses" /\ WordAt(pos, "GROUP") /\ KeyAt(pos)
      /\ Parse("clauses", pos + 3, ps, conds)
    BY Zenon DEF GroupClause
<1>2. /\ pos \in Nat /\ pos <= Len(text) /\ text[pos] = W("GROUP") /\ pos + 2 <= Len(text)
      /\ text[pos] \in ClauseWords
    BY <1>1 DEF WordAt, KeyAt, Hearing, ParserInv, ClauseWords
<1>3. Listening(start, F, m) /\ Heard(s, m, params, conds) /\ Titled(params)
    BY DEF Hearing
<1>4. pos = EndOf(start, F + m) /\ Loose(s, m)
    BY <1>1, <1>2, <1>3, ClauseBegins DEF Hearing
<1>5. Keeps(s)[m + 1] /\ c.call = "groupBy"
    BY <1>2, <1>3, <1>4, ClauseHeard
<1>6. /\ start[n] = pos /\ EndOf(start, n) = start[n] + Len(Saying(c))
      /\ \A p \in 1..Len(Saying(c)) :
            start[n] + p - 1 <= Len(text) => text[start[n] + p - 1] = Saying(c)[p]
    BY <1>2, <1>3, <1>4, NextHeard
<1>7. /\ ps.kind = params.kind /\ ps.fields = params.fields /\ ps.alias = params.alias
      /\ ps.order = params.order /\ ps.desc = params.desc /\ ps.limit = params.limit
      /\ ps.group = text[pos + 2].word
    <2>1. "group" \in DOMAIN params
        BY NoParamsFacts DEF Hearing, ParserInv, ParamsOK
    <2> QED
        BY <2>1
<1> HIDE DEF c, n, ps
<1>8. Saying(c) = <<W("GROUP"), W("BY"), W(c.field)>>
    BY <1>5, Sayings
<1>9. Len(Saying(c)) = 3 /\ Saying(c)[3] = W(c.field)
    BY <1>8
<1>10. text[pos + 2] = W(c.field) /\ EndOf(start, n) = pos + 3
    <2>1. 3 \in 1..Len(Saying(c)) /\ start[n] + 3 - 1 = pos + 2
        BY <1>2, <1>6, <1>9
    <2> QED
        BY <1>2, <1>6, <1>9, <2>1
<1>11. ps.group = c.field
    BY <1>10, <1>7, WordShapes
<1>12. Hears(c, params, conds, ps, conds)
    BY <1>5, <1>11, <1>7 DEF Hears
<1>13. Goes(start, F, "clauses", EndOf(start, n), ps, conds)
    <2>1. ~Open(c)
        BY <1>5, NotOpen
    <2> QED
        BY <1>2, <1>3, <1>4, <1>5, <1>12, <2>1, StepOver DEF c, n
<1>14. Titled(ps)
    BY <1>3, <1>7 DEF Titled
<1> QED
    BY <1>1, <1>3, <1>10, <1>13, <1>14, GoesOn

\* LIMIT.
LEMMA LimitHeard ==
    ASSUME NEW start, NEW F, NEW m, Hearing(start, F, m), LimitClause
    PROVE  HeardInv'
<1> DEFINE s == Rest(F)  c == s[m + 1]  n == F + (m + 1)
           ps == [params EXCEPT !.limit = text[pos + 1].limit]
<1>1. /\ place = "clauses" /\ WordAt(pos, "LIMIT") /\ LimitAt(pos)
      /\ Parse("clauses", pos + 2, ps, conds)
    BY Zenon DEF LimitClause
<1>2. /\ pos \in Nat /\ pos <= Len(text) /\ text[pos] = W("LIMIT") /\ pos + 1 <= Len(text)
      /\ text[pos] \in ClauseWords
    BY <1>1 DEF WordAt, LimitAt, Hearing, ParserInv, ClauseWords
<1>3. Listening(start, F, m) /\ Heard(s, m, params, conds) /\ Titled(params)
    BY DEF Hearing
<1>4. pos = EndOf(start, F + m) /\ Loose(s, m)
    BY <1>1, <1>2, <1>3, ClauseBegins DEF Hearing
<1>5. Keeps(s)[m + 1] /\ c.call = "limit"
    BY <1>2, <1>3, <1>4, ClauseHeard
<1>6. /\ start[n] = pos /\ EndOf(start, n) = start[n] + Len(Saying(c))
      /\ \A p \in 1..Len(Saying(c)) :
            start[n] + p - 1 <= Len(text) => text[start[n] + p - 1] = Saying(c)[p]
    BY <1>2, <1>3, <1>4, NextHeard
<1>7. /\ ps.kind = params.kind /\ ps.fields = params.fields /\ ps.alias = params.alias
      /\ ps.order = params.order /\ ps.desc = params.desc /\ ps.group = params.group
      /\ ps.limit = text[pos + 1].limit
    <2>1. "limit" \in DOMAIN params
        BY NoParamsFacts DEF Hearing, ParserInv, ParamsOK
    <2> QED
        BY <2>1
<1> HIDE DEF c, n, ps
<1>8. Saying(c) = <<W("LIMIT"), [limit |-> c.limit]>>
    BY <1>5, Sayings
<1>9. Len(Saying(c)) = 2 /\ Saying(c)[2] = [limit |-> c.limit]
    BY <1>8
<1>10. text[pos + 1] = [limit |-> c.limit] /\ EndOf(start, n) = pos + 2
    <2>1. 2 \in 1..Len(Saying(c)) /\ start[n] + 2 - 1 = pos + 1
        BY <1>2, <1>6, <1>9
    <2> QED
        BY <1>2, <1>6, <1>9, <2>1
<1>11. ps.limit = c.limit
    BY <1>10, <1>7
<1>12. Hears(c, params, conds, ps, conds)
    BY <1>5, <1>11, <1>7 DEF Hears
<1>13. Goes(start, F, "clauses", EndOf(start, n), ps, conds)
    <2>1. ~Open(c)
        BY <1>5, NotOpen
    <2> QED
        BY <1>2, <1>3, <1>4, <1>5, <1>12, <2>1, StepOver DEF c, n
<1>14. Titled(ps)
    BY <1>3, <1>7 DEF Titled
<1> QED
    BY <1>1, <1>3, <1>10, <1>13, <1>14, GoesOn

\* A word that begins no clause.
LEMMA SkipHeard ==
    ASSUME NEW start, NEW F, NEW m, Hearing(start, F, m), SkipWord
    PROVE  HeardInv'
<1> DEFINE s == Rest(F)  c == s[m + 1]
<1>1. /\ place = "clauses" /\ pos <= Len(text) /\ text[pos] \notin ClauseWords
      /\ Parse("clauses", pos + 1, params, conds)
    BY Zenon DEF SkipWord, ClauseWords
<1>2. /\ Listening(start, F, m) /\ Heard(s, m, params, conds) /\ Titled(params)
      /\ Reached(start, F, m, "clauses", pos) /\ pos \in Nat
    BY <1>1 DEF Hearing, ParserInv
<1>3. Len(text) = Len(command) /\ Len(command) \in Nat
    BY <1>2 DEF Listening, TextInv, Phrase, Words
<1>4. CASE pos = EndOf(start, F + m) /\ Loose(s, m)
    <2>1. /\ m \in Nat /\ m < Len(s) /\ \E C : s \in Seq(C)
          /\ Allowed(c) /\ c.call \in Behinds
          /\ start[F + (m + 1)] = pos /\ text[start[F + (m + 1)]] = Saying(c)[1]
        <3>1. EndOf(start, F + m) <= Len(text)
            BY <1>1, <1>4
        <3> QED
            BY <1>2, <1>4, <3>1, NextHeard
    <2> HIDE DEF c
    <2>2. c.call = "as" \/ Joined(c)
        BY <1>1, <2>1, BehindWords DEF Joined, ClauseWords, Behinds, Clauses
    <2>3. ~Keeps(s)[m + 1]
        BY <1>4, <2>1, <2>2, KeepsNext DEF c
    <2>4. Goes(start, F, "clauses", pos + 1, params, conds)
        BY <1>2, <1>4, <2>3, StepInto
    <2> QED
        BY <1>1, <1>2, <2>4, GoesOn
<1>5. CASE /\ m >= 1 /\ ~Keeps(s)[m]
           /\ start[F + m] < pos /\ pos < EndOf(start, F + m)
    <2>1. F + m \in 1..Len(calls) /\ m \in Nat /\ m \in 0..Len(s)
        BY <1>2, <1>5, RestFacts DEF Listening
    <2>2. start[F + m] \in Nat /\ EndOf(start, F + m) \in Nat
        <3>1. /\ start[F + m] + Len(Saying(calls[F + m])) = EndOf(start, F + m)
              /\ Len(Saying(calls[F + m])) \in Nat
            BY <1>2, <2>1, Zenon DEF Listening, Stands
        <3>2. start \in Seq(Nat) /\ Len(start) = Len(calls)
            BY <1>2 DEF Listening, Stands
        <3>3. start[F + m] \in Nat
            BY <2>1, <3>2
        <3> QED
            BY <3>1, <3>3
    <2>3. /\ start[F + m] < pos + 1
          /\ pos + 1 = EndOf(start, F + m) \/ pos + 1 < EndOf(start, F + m)
        BY <1>2, <1>5, <2>2
    <2>4. Loose(s, m)
        BY <1>5, Zenon DEF Loose
    <2>5. Reached(start, F, m, "clauses", pos + 1)
        BY <1>5, <2>1, <2>3, <2>4 DEF Reached
    <2>6. Goes(start, F, "clauses", pos + 1, params, conds)
        BY <1>2, <2>5 DEF Goes
    <2> QED
        BY <1>1, <1>2, <2>6, GoesOn
<1> QED
    BY <1>1, <1>2, <1>3, <1>4, <1>5 DEF Reached

\* The end of the text.
LEMMA EndHeard ==
    ASSUME NEW start, NEW F, NEW m, Hearing(start, F, m), EndText
    PROVE  HeardInv'
<1> DEFINE s == Rest(F)
<1>1. place = "clauses" /\ pos > Len(text) /\ Parse("load", pos, params, conds)
    BY Zenon DEF EndText
<1>2. /\ Listening(start, F, m) /\ Heard(s, m, params, conds) /\ Titled(params)
      /\ Reached(start, F, m, "clauses", pos) /\ pos \in Nat
    BY <1>1 DEF Hearing, ParserInv
<1>3. Len(text) = Len(command) /\ Len(command) \in Nat /\ m \in 0..Len(s)
    BY <1>2 DEF Listening, TextInv, Phrase, Words
<1>4. ASSUME pos = EndOf(start, F + m)
      PROVE  m = Len(s)
    <2>1. EndOf(start, F + m) > Len(text)
        BY <1>1, <1>4
    <2> QED
        BY <1>2, <2>1, LastHeard
<1>5. ASSUME m >= 1, pos < EndOf(start, F + m)
      PROVE  FALSE
    <2>1. F + m \in 1..Len(calls)
        BY <1>2, <1>3, <1>5, RestFacts DEF Listening
    <2>2. EndOf(start, F + m) <= Len(command) + 1
        BY <1>2, <2>1, Zenon DEF Listening, Stands
    <2>3. EndOf(start, F + m) \in Nat
        <3>1. /\ start[F + m] + Len(Saying(calls[F + m])) = EndOf(start, F + m)
              /\ Len(Saying(calls[F + m])) \in Nat
            BY <1>2, <2>1, Zenon DEF Listening, Stands
        <3>2. start \in Seq(Nat) /\ Len(start) = Len(calls)
            BY <1>2 DEF Listening, Stands
        <3>3. start[F + m] \in Nat
            BY <2>1, <3>2
        <3> QED
            BY <3>1, <3>3
    <2> QED
        BY <1>1, <1>2, <1>3, <1>5, <2>2, <2>3
<1>6. m = Len(s)
    BY <1>2, <1>4, <1>5 DEF Reached
<1>7. Reached(start, F, m, "load", pos)
    BY <1>3, <1>6 DEF Reached
<1>8. Goes(start, F, "load", pos, params, conds)
    BY <1>2, <1>7 DEF Goes
<1> QED
    BY <1>1, <1>2, <1>8, GoesOn

\* AND and OR, and the end of the conditions.
LEMMA ConditionsHeard ==
    ASSUME NEW start, NEW F, NEW m, Hearing(start, F, m), MoreCondition \/ EndGetConditions
    PROVE  HeardInv'
<1> DEFINE s == Rest(F)  c == s[m + 1]  n == F + (m + 1)
<1>1. place = "where"
    BY Zenon DEF MoreCondition, EndGetConditions, NoMoreConditions
<1>2. /\ Listening(start, F, m) /\ Heard(s, m, params, conds) /\ Titled(params)
      /\ Going(s, m) /\ pos = EndOf(start, F + m) /\ pos \in Nat
    BY <1>1 DEF Hearing, ParserInv, Reached
<1>3. ASSUME pos <= Len(text)
      PROVE  /\ m \in Nat /\ m < Len(s) /\ \E C : s \in Seq(C)
             /\ Allowed(c) /\ c.call \in Behinds /\ text[pos] = Saying(c)[1]
             /\ n \in 1..Len(calls) /\ calls[n] = c /\ start[n] = pos
    BY <1>2, <1>3, NextHeard
<1>4. CASE MoreCondition
    <2>1. PICK logic \in {"AND", "OR"} :
             /\ WordAt(pos, logic) /\ ConditionAt(pos)
             /\ Parse("where", pos + 4, params, Append(conds, ConditionFrom(pos, logic)))
        BY <1>4, Zenon DEF MoreCondition
    <2>2. pos <= Len(text) /\ text[pos] = W(logic) /\ pos + 3 <= Len(text)
        BY <2>1 DEF WordAt, ConditionAt
    <2>3. /\ m \in Nat /\ m < Len(s) /\ \E C : s \in Seq(C)
          /\ Allowed(c) /\ c.call \in Behinds /\ text[pos] = Saying(c)[1]
          /\ n \in 1..Len(calls) /\ calls[n] = c /\ start[n] = pos
        BY <1>3, <2>2
    <2> HIDE DEF c, n
    <2>4. c.call = "where" /\ c.word = logic
        <3>1. Saying(c)[1] = W(logic)
            BY <2>2, <2>3
        <3>2. /\ c.call = "as" => Saying(c)[1] = W("AS")
              /\ c.call = "where" => Saying(c)[1] = W(c.word)
              /\ c.call = "groupBy" => Saying(c)[1] = W("GROUP")
              /\ c.call = "orderBy" => Saying(c)[1] = W("ORDER")
              /\ c.call = "limit" => Saying(c)[1] = W("LIMIT")
            BY <2>3, BehindWords
        <3> QED
            BY <2>3, <3>1, <3>2, WordShapes DEF Behinds, Clauses
    <2>5. Keeps(s)[m + 1]
        <3>1. Joined(c)
            BY <2>4 DEF Joined
        <3> QED
            BY <1>2, <2>3, <3>1, KeepsNext DEF c
    <2>6. JoinOf(logic) = logic
        <3>1. logic # "WHERE"
            OBVIOUS
        <3> QED
            BY <3>1, Zenon DEF JoinOf
    <2>7. ConditionFrom(pos, logic) = ConditionOf(c) /\ EndOf(start, n) = pos + 4
        BY <1>2, <2>2, <2>3, <2>4, <2>6, WhereThere DEF Listening
    <2> DEFINE cs == Append(conds, ConditionOf(c))
    <2>8. Hears(c, params, conds, params, cs)
        BY <2>4 DEF Hears
    <2> HIDE DEF cs
    <2>9. Goes(start, F, "where", EndOf(start, n), params, cs)
        BY <1>2, <2>2, <2>4, <2>5, <2>8, StepOver DEF c, n
    <2>10. Parse("where", pos + 4, params, cs)
        BY <2>1, <2>7 DEF cs
    <2> QED
        BY <1>2, <2>7, <2>9, <2>10, GoesOn
<1>5. CASE EndGetConditions
    <2>1. /\ ~WordAt(pos, "AND") /\ ~WordAt(pos, "OR")
          /\ Parse("clauses", pos + 1, params, conds)
        BY <1>5, Zenon DEF EndGetConditions, NoMoreConditions
    <2>2. ASSUME pos <= Len(text)
          PROVE  ~Keeps(s)[m + 1]
        <3>1. /\ m \in Nat /\ m < Len(s) /\ \E C : s \in Seq(C)
              /\ Allowed(c) /\ c.call \in Behinds /\ text[pos] = Saying(c)[1]
            BY <1>3, <2>2
        <3>2. text[pos] # W("AND") /\ text[pos] # W("OR")
            BY <2>1, <2>2 DEF WordAt
        <3> HIDE DEF c
        <3>3. ~Joined(c)
            <4>1. c.call = "where" => Saying(c)[1] = W(c.word)
                BY <3>1, BehindWords
            <4>2. c.call = "where" => c.word \in {"WHERE", "AND", "OR"}
                BY <3>1 DEF Allowed
            <4> QED
                BY <3>1, <3>2, <4>1, <4>2 DEF Joined
        <3> QED
            BY <1>2, <3>1, <3>3, KeepsNext DEF c
    <2>3. Goes(start, F, "clauses", pos + 1, params, conds)
        BY <1>2, <2>2, StepInto
    <2> QED
        BY <1>2, <2>1, <2>3, GoesOn
<1> QED
    BY <1>4, <1>5

\* The direction is one or the other.
LEMMA DescBoolean ==
    ASSUME NEW s, NEW m, NEW ps, NEW cs, Heard(s, m, ps, cs)
    PROVE  ps.desc \in BOOLEAN
<1>1. Latest(Directed(s), DirectionsOf(s), m, ps.desc, FALSE)
    BY DEF Heard
<1>2. \A j \in Directed(s) : j \in DOMAIN s
    BY DEF Directed, Picked
<1>3. \A j \in DOMAIN s : DirectionsOf(s)[j] = (s[j].order = "DESC")
    BY DEF DirectionsOf
<1>4. \A j \in DOMAIN s : (s[j].order = "DESC") \in BOOLEAN
    BY Zenon
<1>5. \A j \in Directed(s) : DirectionsOf(s)[j] \in BOOLEAN
    BY <1>2, <1>3, <1>4, Zenon
<1> QED
    BY <1>1, <1>5, Zenon DEF Latest

\* ORDER BY.  The word behind the key is the order, or is lost with its call.
LEMMA OrderHeard ==
    ASSUME NEW start, NEW F, NEW m, Hearing(start, F, m), OrderClause
    PROVE  HeardInv'
<1> DEFINE s == Rest(F)  c == s[m + 1]  n == F + (m + 1)
           Way(d) == d <=> WordAt(pos + 3, "DESC") \/ (params.desc /\ ~WordAt(pos + 3, "ASC"))
<1>1. {"kind", "group", "order", "desc", "limit", "fields", "alias"} \subseteq DOMAIN params
    BY NoParamsFacts DEF Hearing, ParserInv, ParamsOK
<1>2. PICK d \in BOOLEAN :
         /\ Way(d) /\ place = "clauses" /\ WordAt(pos, "ORDER") /\ KeyAt(pos)
         /\ Parse("clauses", pos + 4,
                  [params EXCEPT !.order = text[pos + 2].word, !.desc = d], conds)
    <2> DEFINE d == \/ WordAt(pos + 3, "DESC")
                    \/ params.desc /\ ~WordAt(pos + 3, "ASC")
    <2>1. [params EXCEPT !.order = text[pos + 2].word,
                         !.desc = WordAt(pos + 3, "DESC") \/ (@ /\ ~WordAt(pos + 3, "ASC"))]
          = [params EXCEPT !.order = text[pos + 2].word, !.desc = d]
        BY <1>1
    <2>2. d \in BOOLEAN /\ Way(d)
        BY Zenon
    <2> HIDE DEF d
    <2>3. Parse("clauses", pos + 4,
                [params EXCEPT !.order = text[pos + 2].word, !.desc = d], conds)
        BY <2>1 DEF OrderClause
    <2>4. place = "clauses" /\ WordAt(pos, "ORDER") /\ KeyAt(pos)
        BY Zenon DEF OrderClause
    <2> QED
        BY <2>2, <2>3, <2>4
<1> DEFINE ps == [params EXCEPT !.order = text[pos + 2].word, !.desc = d]
<1>3. /\ pos \in Nat /\ pos <= Len(text) /\ text[pos] = W("ORDER") /\ pos + 2 <= Len(text)
      /\ text[pos] \in ClauseWords /\ Len(text) \in Nat
    BY <1>2 DEF WordAt, KeyAt, Hearing, ParserInv, ClauseWords, Listening, TextInv, Words
<1>4. /\ Listening(start, F, m) /\ Heard(s, m, params, conds) /\ Titled(params)
      /\ params.desc \in BOOLEAN
    BY DescBoolean DEF Hearing
<1>5. pos = EndOf(start, F + m) /\ Loose(s, m)
    BY <1>2, <1>3, <1>4, ClauseBegins DEF Hearing
<1>6. Keeps(s)[m + 1] /\ c.call = "orderBy"
    BY <1>3, <1>4, <1>5, ClauseHeard
<1>7. /\ start[n] = pos /\ EndOf(start, n) = start[n] + Len(Saying(c))
      /\ \A p \in 1..Len(Saying(c)) :
            start[n] + p - 1 <= Len(text) => text[start[n] + p - 1] = Saying(c)[p]
      /\ Allowed(c)
    BY <1>3, <1>4, <1>5, NextHeard
<1>8. /\ m \in Nat /\ m < Len(s) /\ m + 1 \in 0..Len(s) /\ \E C : s \in Seq(C)
      /\ n \in 1..Len(calls)
    BY <1>3, <1>4, <1>5, NextHeard
<1>9. /\ ps.kind = params.kind /\ ps.fields = params.fields /\ ps.alias = params.alias
      /\ ps.group = params.group /\ ps.limit = params.limit
      /\ ps.order = text[pos + 2].word /\ ps.desc = d
    BY <1>1
<1>10. Parse("clauses", pos + 4, ps, conds)
    BY <1>2
<1> HIDE DEF c, n, ps
<1>11. Titled(ps)
    BY <1>4, <1>9 DEF Titled
<1>12. Len(Saying(c)) >= 3 /\ Saying(c)[3] = W(c.field) /\ Len(Saying(c)) \in Nat
    <2>1. \/ Saying(c) = <<W("ORDER"), W("BY"), W(c.field)>>
          \/ Saying(c) = <<W("ORDER"), W("BY"), W(c.field), W(c.order)>>
        BY <1>6, <1>7, OrderWords
    <2> QED
        BY <2>1
<1>13. ps.order = c.field
    <2>1. 3 \in 1..Len(Saying(c)) /\ start[n] + 3 - 1 = pos + 2
        BY <1>3, <1>7, <1>12
    <2>2. text[pos + 2] = W(c.field)
        BY <1>3, <1>7, <1>12, <2>1
    <2> QED
        BY <1>9, <2>2, WordShapes
<1>14. CASE Open(c)
    <2>1. EndOf(start, n) = pos + 3
        <3>1. Saying(c) = <<W("ORDER"), W("BY"), W(c.field)>>
            BY <1>6, <1>7, <1>14, OrderWords
        <3>2. Len(Saying(c)) = 3
            BY <3>1
        <3> QED
            BY <1>7, <3>2
    <2>2. Listening(start, F, m + 1)
        BY <1>4, <1>8 DEF Listening
    <2>3. ASSUME pos + 3 <= Len(text)
          PROVE  /\ text[pos + 3] # W("DESC") /\ text[pos + 3] # W("ASC")
                 /\ ~Keeps(s)[(m + 1) + 1]
        <3> DEFINE e == s[(m + 1) + 1]
        <3>1. EndOf(start, F + (m + 1)) <= Len(text)
            BY <2>1, <2>3 DEF n
        <3>2. /\ m + 1 \in Nat /\ m + 1 < Len(s) /\ Allowed(e) /\ e.call \in Behinds
              /\ start[F + ((m + 1) + 1)] = pos + 3
              /\ text[start[F + ((m + 1) + 1)]] = Saying(e)[1]
            BY <2>1, <2>2, <3>1, NextHeard DEF n
        <3> HIDE DEF e
        <3>3. Saying(e)[1] # W("DESC") /\ Saying(e)[1] # W("ASC")
            <4>1. /\ e.call = "as" => Saying(e)[1] = W("AS")
                  /\ e.call = "where" => Saying(e)[1] = W(e.word)
                  /\ e.call = "groupBy" => Saying(e)[1] = W("GROUP")
                  /\ e.call = "orderBy" => Saying(e)[1] = W("ORDER")
                  /\ e.call = "limit" => Saying(e)[1] = W("LIMIT")
                BY <3>2, BehindWords
            <4>2. e.call = "where" => e.word \in {"WHERE", "AND", "OR"}
                BY <3>2 DEF Allowed
            <4> QED
                BY <3>2, <4>1, <4>2, WordShapes DEF Behinds, Clauses
        <3>4. ~Loose(s, m + 1) /\ ~Going(s, m + 1)
            <4>1. m + 1 # 0
                BY <1>8
            <4>2. s[m + 1].call # "where"
                BY <1>6 DEF c
            <4> QED
                BY <1>6, <1>14, <4>1, <4>2, Zenon DEF Loose, Going, c
        <3>5. ~Keeps(s)[(m + 1) + 1]
            BY <1>8, <3>2, <3>4, KeepsNext DEF e
        <3> QED
            BY <3>2, <3>3, <3>5
    <2>4. ~WordAt(pos + 3, "DESC") /\ ~WordAt(pos + 3, "ASC")
        BY <2>3 DEF WordAt
    <2>5. ps.desc = params.desc
        <3>1. d <=> params.desc
            BY <1>2, <2>4
        <3>2. d = params.desc
            BY <1>4, <3>1, Zenon
        <3> QED
            BY <1>9, <3>2
    <2>6. Hears(c, params, conds, ps, conds)
        BY <1>6, <1>9, <1>13, <1>14, <2>5 DEF Hears
    <2>7. Heard(s, m + 1, ps, conds)
        BY <1>4, <1>6, <1>8, <2>6, HeardMore DEF c
    <2>8. pos + 3 = EndOf(start, F + (m + 1)) /\ pos + 3 \in Nat
        BY <1>3, <2>1 DEF n
    <2>9. Goes(start, F, "clauses", (pos + 3) + 1, ps, conds)
        BY <2>2, <2>3, <2>7, <2>8, StepInto
    <2>10. (pos + 3) + 1 = pos + 4
        BY <1>3
    <2> QED
        BY <1>4, <1>10, <1>11, <2>9, <2>10, GoesOn
<1>15. CASE ~Open(c)
    <2>1. /\ c.order \in {"ASC", "DESC"}
          /\ Saying(c) = <<W("ORDER"), W("BY"), W(c.field), W(c.order)>>
        BY <1>6, <1>7, <1>15, OrderWords
    <2>2. Len(Saying(c)) = 4 /\ Saying(c)[4] = W(c.order)
        BY <2>1
    <2>3. EndOf(start, n) = pos + 4
        BY <1>7, <2>2
    <2>4. pos + 3 <= Len(text)
        <3>1. EndOf(start, n) <= Len(command) + 1
            BY <1>4, <1>8, Zenon DEF Listening, Stands
        <3>2. Len(text) = Len(command)
            BY <1>4 DEF Listening
        <3> QED
            BY <1>3, <2>3, <3>1, <3>2
    <2>5. text[pos + 3] = W(c.order)
        <3>1. 4 \in 1..Len(Saying(c)) /\ start[n] + 4 - 1 = pos + 3
            BY <1>3, <1>7, <2>2
        <3> QED
            BY <1>7, <2>2, <2>4, <3>1
    <2>6. /\ WordAt(pos + 3, "DESC") <=> c.order = "DESC"
          /\ WordAt(pos + 3, "ASC") <=> c.order = "ASC"
        BY <2>4, <2>5, WordShapes DEF WordAt
    <2>7. ps.desc = (c.order = "DESC")
        <3>1. d <=> c.order = "DESC"
            BY <1>2, <2>1, <2>6
        <3>2. d = (c.order = "DESC")
            BY <3>1, Zenon
        <3> QED
            BY <1>9, <3>2
    <2>8. Hears(c, params, conds, ps, conds)
        BY <1>6, <1>9, <1>13, <1>15, <2>7 DEF Hears
    <2>9. Goes(start, F, "clauses", EndOf(start, n), ps, conds)
        BY <1>3, <1>4, <1>5, <1>6, <1>15, <2>8, StepOver DEF c, n
    <2> QED
        BY <1>4, <1>10, <1>11, <2>3, <2>9, GoesOn
<1> QED
    BY <1>14, <1>15

\* What may come second and third in a GET.
LEMMA SelectCalls ==
    ASSUME Chain, 2 \in 1..Len(calls), calls[1].call = "select"
    PROVE  /\ Allowed(calls[2]) /\ calls[2].call \in {"from", "as"}
           /\ (3 \in 1..Len(calls) /\ calls[2].call = "as") =>
                 Allowed(calls[3]) /\ calls[3].call = "from"
<1>1. ASSUME NEW n \in 1..Len(calls), n # 1
      PROVE  /\ Allowed(calls[n])
             /\ \/ calls[n].call \in {"from", "as"}
                \/ \E j \in 1..(n - 1) : calls[j].call = "from"
    <2>1. Allowed(calls[n]) /\ calls[n].call \notin Heads
        BY <1>1 DEF Chain
    <2>2. calls[n].call # "set" /\ calls[n].call # "value"
        BY <1>1 DEF Chain
    <2>3. (calls[n].call \in Clauses \/ calls[n].call = "where") =>
             \E j \in 1..(n - 1) : calls[j].call = "from"
        BY <1>1 DEF Chain
    <2> QED
        BY <2>1, <2>2, <2>3 DEF Allowed
<1>2. Allowed(calls[2]) /\ calls[2].call \in {"from", "as"}
    <2>1. \A j \in 1..(2 - 1) : j = 1
        OBVIOUS
    <2>2. calls[1].call # "from" /\ 2 # 1
        OBVIOUS
    <2> QED
        BY <1>1, <2>1, <2>2
<1>3. ASSUME 3 \in 1..Len(calls), calls[2].call = "as"
      PROVE  Allowed(calls[3]) /\ calls[3].call = "from"
    <2>1. \A j \in 1..(3 - 1) : j = 1 \/ j = 2
        OBVIOUS
    <2>2. calls[3].call # "as"
        BY <1>3 DEF Chain
    <2>3. calls[1].call # "from" /\ calls[2].call # "from" /\ 3 # 1
        BY <1>3
    <2> QED
        BY <1>1, <1>3, <2>1, <2>2, <2>3
<1> QED
    BY <1>2, <1>3

\* GET, the fields, the alias and the table.
LEMMA HeadHeard ==
    ASSUME SpeechInv, TextInv, ParserInv, Arrived, text = command, GetHead
    PROVE  HeardInv'
<1> DEFINE in == IF WordAt(3, "AS") THEN 5 ELSE 3
<1>1. PICK ps : /\ ps = [NoParams EXCEPT !.kind = "GET", !.fields = text[2].word,
                                       !.alias = in = 5]
                /\ WordAt(1, "GET") /\ TableAt(in) /\ Parse("clauses", in + 2, ps, <<>>)
    BY Zenon DEF GetHead
<1>2. Chain /\ Len(text) \in Nat /\ in \in {3, 5} /\ in + 1 <= Len(text) /\ text[in] = W("IN")
      /\ text[1] = W("GET") /\ 1 <= Len(text)
    BY <1>1 DEF SpeechInv, TextInv, Words, TableAt, WordAt
<1>3. /\ ps.kind = "GET" /\ ps.fields = text[2].word /\ ps.alias = (in = 5)
      /\ ps.group = NoParams.group /\ ps.order = NoParams.order
      /\ ps.desc = NoParams.desc /\ ps.limit = NoParams.limit
    <2>1. {"kind", "fields", "alias"} \subseteq DOMAIN NoParams
        BY NoParamsFacts
    <2> QED
        BY <1>1, <2>1
<1>4. /\ NoParams.group = NoJoin /\ NoParams.order = NoJoin
      /\ NoParams.desc = FALSE /\ NoParams.limit = -1
    <2> DEFINE R(e) == [kind |-> e, fields |-> "*", alias |-> FALSE, group |-> e, order |-> e,
                        desc |-> FALSE, limit |-> -1, field |-> e, value |-> 0]
    <2>1. \A e : R(e).group = e /\ R(e).order = e /\ R(e).desc = FALSE /\ R(e).limit = -1
        OBVIOUS
    <2>2. NoParams = R(NoJoin)
        BY Zenon DEF NoParams, NoJoin
    <2> HIDE DEF R
    <2> QED
        BY <2>1, <2>2, Zenon
<1>5. 1 \in 1..Len(calls)
    <2>1. text # <<>>
        BY <1>2
    <2>2. calls # <<>>
        BY <2>1 DEF SpeechInv
    <2>3. Len(calls) \in Nat /\ Len(calls) # 0
        BY <2>2 DEF SpeechInv, Chain
    <2> QED
        BY <2>3
<1>6. ~StartedBy("count") /\ calls[1].call # "count"
    <2>1. W("GET") # W("COUNT")
        BY WordShapes
    <2>2. command[1] = W("GET") /\ calls # <<>>
        BY <1>2, <1>5
    <2> QED
        BY <2>1, <2>2 DEF SpeechInv, Spelt, StartedBy
<1>7. PICK start : Stands(start)
    BY <1>6 DEF SpeechInv, Spelt
<1>8. Allowed(calls[1]) /\ calls[1].call \in Heads
    BY <1>2, <1>5 DEF Chain
<1>9. start[1] = 1 /\ Saying(calls[1])[1] = W("GET")
    <2>1. start[1] = 1
        BY <1>5, <1>7 DEF Stands
    <2>2. 1 \in 1..Len(Saying(calls[1]))
        BY <1>6, <1>8, SaidFirst
    <2>3. text[start[1] + 1 - 1] = Saying(calls[1])[1]
        BY <1>2, <1>5, <1>7, <2>1, <2>2, CallArrived
    <2> QED
        BY <1>2, <2>1, <2>3
<1>10. calls[1].call = "select"
    <2>1. calls[1].call = "remove" => Saying(calls[1])[1] = W("REMOVE")
        <3>1. calls[1].call = "remove" => Saying(calls[1]) = <<W("REMOVE")>>
            BY Sayings
        <3> QED
            BY <3>1
    <2>2. calls[1].call = "change" => Saying(calls[1])[1] = W("CHANGE")
        <3>1. calls[1].call = "change" => Saying(calls[1]) = <<W("CHANGE")>>
            BY Sayings
        <3> QED
            BY <3>1
    <2> QED
        BY <1>6, <1>8, <1>9, <2>1, <2>2, WordShapes DEF Heads
<1>11. Saying(calls[1]) = <<W("GET"), W(calls[1].fields)>>
    BY <1>10, Sayings
<1>12. EndOf(start, 1) = 3 /\ text[2] = W(calls[1].fields)
    <2>1. Len(Saying(calls[1])) = 2 /\ Saying(calls[1])[2] = W(calls[1].fields)
        BY <1>11
    <2>2. start[1] + Len(Saying(calls[1])) = EndOf(start, 1)
        BY <1>5, <1>7, Zenon DEF Stands
    <2>3. 2 \in 1..Len(Saying(calls[1])) /\ start[1] + 2 - 1 = 2 /\ 2 <= Len(text)
        BY <1>2, <1>9, <2>1
    <2> QED
        BY <1>2, <1>5, <1>7, <1>9, <2>1, <2>2, <2>3, CallArrived
<1>13. /\ 2 \in 1..Len(calls) /\ start[2] = 3 /\ text[3] = Saying(calls[2])[1]
       /\ Allowed(calls[2]) /\ calls[2].call \in {"from", "as"}
    <2>1. EndOf(start, 1) <= Len(text) /\ 1 + 1 = 2
        BY <1>2, <1>12
    <2>2. 2 \in 1..Len(calls) /\ start[2] = 3 /\ text[3] = Saying(calls[2])[1]
        BY <1>2, <1>5, <1>7, <1>12, <2>1, NextCall
    <2> QED
        BY <1>2, <1>10, <2>2, SelectCalls
<1>14. ASSUME NEW F \in {2, 3}, F \in 1..Len(calls), calls[F].call = "from",
              F = 3 <=> calls[2].call = "as", start[F] = in, in = 5 <=> F = 3
       PROVE  HeardInv'
    <2>1. Opening(F)
        BY <1>10, <1>14 DEF Opening
    <2>2. Titled(ps)
        <3>1. ps.fields = calls[1].fields
            BY <1>3, <1>12, WordShapes
        <3>2. (in = 5) <=> (calls[2].call = "as")
            BY <1>14
        <3>3. ps.alias = (calls[2].call = "as")
            BY <1>3, <3>2
        <3> QED
            BY <1>3, <3>1, <3>3 DEF Titled
    <2>3. EndOf(start, F) = in + 2
        <3>1. Saying(calls[F]) = <<W("IN"), W(calls[F].table)>>
            BY <1>14, Sayings
        <3>2. Len(Saying(calls[F])) = 2
            BY <3>1
        <3>3. start[F] + Len(Saying(calls[F])) = EndOf(start, F)
            BY <1>7, <1>14, Zenon DEF Stands
        <3> QED
            BY <1>14, <3>2, <3>3
    <2>4. PICK C : Rest(F) \in Seq(C)
        BY <1>2, <2>1, RestFacts
    <2>5. Heard(Rest(F), 0, ps, <<>>)
        <3> DEFINE s == Rest(F)
        <3>1. /\ \A name : Picked(s, name) \subseteq Nat \ {0}
              /\ Directed(s) \subseteq Nat \ {0}
            <4>1. 1..Len(s) \subseteq Nat \ {0}
                BY <2>4
            <4> QED
                BY <2>4, <4>1, PickedFacts
        <3>2. WheresHeard(s, 0, <<>>)
            <4>1. Len(Taken(s)) \in Nat
                BY <2>4 DEF Taken
            <4>2. PICK w : w = Gathered(Taken(s), Picked(s, "where"))[0]
                OBVIOUS
            <4>3. w = <<>>
                BY <4>1, <4>2, GatheredDef
            <4>4. <<>> = [j \in DOMAIN w |-> ConditionOf(s[w[j]])]
                BY <4>3
            <4> QED
                BY <4>2, <4>4, Zenon DEF WheresHeard
        <3> QED
            BY <1>3, <1>4, <3>1, <3>2, LatestNone DEF Heard
    <2>6. Reached(start, F, 0, "clauses", in + 2)
        <3>1. Len(Rest(F)) \in Nat /\ F + 0 = F
            BY <2>4
        <3> QED
            BY <2>3, <3>1 DEF Reached, Loose
    <2> QED
        BY <1>1, <1>7, <2>1, <2>2, <2>5, <2>6, HeardParse
<1>15. CASE calls[2].call = "as"
    <2>1. Saying(calls[2]) = <<W("AS"), W("alias")>>
        BY <1>15, Sayings
    <2>2. Len(Saying(calls[2])) = 2 /\ Saying(calls[2])[1] = W("AS")
        BY <2>1
    <2>3. in = 5
        BY <1>2, <1>13, <2>2 DEF WordAt
    <2>4. EndOf(start, 2) = 5
        <3>1. start[2] + Len(Saying(calls[2])) = EndOf(start, 2)
            BY <1>7, <1>13, Zenon DEF Stands
        <3> QED
            BY <1>13, <2>2, <3>1
    <2>5. EndOf(start, 2) <= Len(text) /\ 2 + 1 = 3
        BY <1>2, <2>3, <2>4
    <2>6. 3 \in 1..Len(calls) /\ start[3] = 5
        BY <1>2, <1>7, <1>13, <2>4, <2>5, NextCall
    <2>7. calls[3].call = "from"
        BY <1>2, <1>10, <1>13, <1>15, <2>6, SelectCalls
    <2> QED
        BY <1>14, <1>15, <2>3, <2>6, <2>7
<1>16. CASE calls[2].call = "from"
    <2>1. Saying(calls[2]) = <<W("IN"), W(calls[2].table)>>
        BY <1>16, Sayings
    <2>2. Saying(calls[2])[1] = W("IN") /\ W("IN") # W("AS")
        BY <2>1, WordShapes
    <2>3. in = 3
        BY <1>13, <2>2 DEF WordAt
    <2> HIDE DEF in
    <2>4. in # 5 /\ calls[2].call # "as" /\ 2 # 3
        BY <1>16, <2>3
    <2> QED
        BY <1>13, <1>14, <1>16, <2>3, <2>4
<1> QED
    BY <1>13, <1>15, <1>16

\* So it is with every step.
LEMMA HeardStep ==
    ASSUME SpeechInv, TextInv, ParserInv, Arrived, HeardInv, [CommandNext]_commandVars
    PROVE  HeardInv'
<1>1. CASE \/ place' \notin {"clauses", "where", "load"} \/ params'.kind # "GET"
           \/ text' # command'
    BY <1>1 DEF HeardInv
<1>2. CASE UNCHANGED commandVars
    <2>1. /\ calls' = calls /\ command' = command /\ place' = place /\ pos' = pos
          /\ params' = params /\ conds' = conds /\ text' = text
        BY <1>2 DEF commandVars, vars, builderVars, parserVars
    <2> SUFFICES ASSUME place \in {"clauses", "where", "load"}, params.kind = "GET",
                        text = command
                 PROVE  HeardInv'
        BY <1>1, <2>1
    <2>2. PICK start, F, m : /\ Stands(start) /\ Opening(F) /\ Titled(params)
                             /\ Heard(Rest(F), m, params, conds)
                             /\ Reached(start, F, m, place, pos)
        BY DEF HeardInv
    <2>3. Stands(start)' /\ Opening(F)' /\ Titled(params)'
        BY <2>1, <2>2 DEF Stands, EndOf, Opening, Titled
    <2>4. Rest(F)' = Rest(F)
        BY <2>1 DEF Rest
    <2>5. Heard(Rest(F), m, params, conds)' /\ Reached(start, F, m, place, pos)'
        BY <2>1, <2>2, <2>4 DEF Reached, EndOf
    <2> QED
        BY <2>3, <2>5 DEF HeardInv
<1>3. CASE BuilderNext /\ UNCHANGED <<vars, parserVars, rowVars, answerVars>>
    <2>1. text = <<>>
        BY <1>3, Zenon DEF BuilderNext, Select, Change, Remove, From, As, Where, WriteWhere,
                           SayWhere, GroupBy, OrderBy, Limit, Set, Value, Count, Get, Say
    <2>2. place' = "head"
        BY <1>3, <2>1 DEF TextInv, parserVars
    <2> QED
        BY <1>1, <2>2
<1>4. ASSUME NEW np, NEW q, NEW ps, NEW cs, Parse(np, q, ps, cs)
      PROVE  params' = ps /\ text' = text /\ command' = command
    BY <1>4, Zenon DEF Parse, builderVars
<1>5. CASE GetHead
    <2>1. text' = text /\ command' = command
        BY <1>4, <1>5, Zenon DEF GetHead
    <2> QED
        BY <1>1, <1>5, <2>1, HeadHeard
<1>6. CASE RemoveValue \/ RemoveWhere \/ ChangeAll \/ ChangeWhere \/ CountHead
    <2>1. \/ \E x \in {"REMOVE", "COUNT"} : params' = [NoParams EXCEPT !.kind = x]
          \/ \E x, y : params' = [NoParams EXCEPT !.kind = "CHANGE", !.field = x, !.value = y]
        <3>1. CASE RemoveValue \/ RemoveWhere
            BY <1>4, <3>1, Zenon DEF RemoveValue, RemoveWhere
        <3>2. CASE CountHead
            BY <1>4, <3>2, Zenon DEF CountHead
        <3>3. CASE ChangeAll \/ ChangeWhere
            <4>1. params' = Assignment
                BY <1>4, <3>3, Zenon DEF ChangeAll, ChangeWhere
            <4> QED
                BY <4>1, Zenon DEF Assignment
        <3> QED
            BY <1>6, <3>1, <3>2, <3>3
    <2>2. params'.kind # "GET"
        BY <2>1, HeadParams
    <2> QED
        BY <1>1, <2>2
<1>7. CASE \/ WhereClause \/ MoreCondition \/ EndGetConditions \/ GroupClause \/ OrderClause
           \/ LimitClause \/ SkipWord \/ EndText
    <2>1. place \in {"clauses", "where"}
        BY <1>7, Zenon DEF WhereClause, MoreCondition, EndGetConditions, NoMoreConditions,
                           GroupClause, OrderClause, LimitClause, SkipWord, EndText
    <2>2. CASE text = command /\ params.kind = "GET"
        <3>1. PICK start, F, m : /\ Stands(start) /\ Opening(F) /\ Titled(params)
                                 /\ Heard(Rest(F), m, params, conds)
                                 /\ Reached(start, F, m, place, pos)
            BY <2>1, <2>2 DEF HeardInv
        <3>2. Hearing(start, F, m)
            BY <2>2, <3>1 DEF Hearing, Listening, SpeechInv, Reached
        <3> QED
            BY <1>7, <3>2, WhereHeard, GroupHeard, OrderHeard, LimitHeard, SkipHeard, EndHeard,
               ConditionsHeard, Zenon
    <2>3. CASE text # command
        <3>1. text' = text /\ command' = command
            BY <1>4, <1>7, Zenon DEF WhereClause, MoreCondition, EndGetConditions, GroupClause,
                                     OrderClause, LimitClause, SkipWord, EndText
        <3> QED
            BY <1>1, <2>3, <3>1
    <2>4. CASE params.kind # "GET"
        <3>1. place = "where" /\ MoreCondition
            <4>1. place # "clauses"
                BY <2>4 DEF ParserInv, KindFits
            <4> QED
                BY <1>7, <2>1, <2>4, <4>1, Zenon
                   DEF WhereClause, EndGetConditions, GroupClause, OrderClause, LimitClause,
                       SkipWord, EndText
        <3>2. params' = params
            BY <1>4, <3>1, Zenon DEF MoreCondition
        <3> QED
            BY <1>1, <2>4, <3>2
    <2> QED
        BY <2>2, <2>3, <2>4
<1>8. CASE EndConditions
    <2>1. params.kind # "GET" /\ params' = params
        BY <1>4, <1>8, Zenon DEF EndConditions
    <2> QED
        BY <1>1, <2>1
<1>9. CASE RefuseText
    BY <1>1, <1>9, Zenon DEF RefuseText, Answer
<1>10. CASE Handler
    <2>1. place' \notin {"clauses", "where", "load"}
        BY <1>10, HandlerPlaces
    <2> QED
        BY <1>1, <2>1
<1>11. CASE Parser
    BY <1>5, <1>6, <1>7, <1>8, <1>9, <1>11, Zenon DEF Parser
<1> QED
    BY <1>2, <1>3, <1>10, <1>11, Zenon DEF CommandNext, Server

\* What the parser of a GET has heard, always.
LEMMA HeardInvariance == CommandSpec => []HeardInv
<1>1. CommandInit => HeardInv
    <2>1. CommandInit => place = "head"
        BY Zenon DEF CommandInit
    <2> QED
        BY <2>1 DEF HeardInv
<1>2. CommandInv /\ RefusalInv /\ SpeechInv /\ HeardInv /\ [CommandNext]_commandVars
         => HeardInv'
    BY HeardStep DEF CommandInv, RefusalInv
<1> QED
    BY <1>1, <1>2, CommandInvariance, RefusalInvariance, AskedInvariance, PTL DEF CommandSpec

\* The call of from() that the invariant looks for.
LEMMA FromFound ==
    ASSUME Chain, NEW F, Opening(F)
    PROVE  FromAt = F
<1>1. F \in DOMAIN calls
    BY DEF Chain, Opening
<1>2. \A j \in DOMAIN calls : calls[j].call = "from" => j = F
    BY DEF Chain, Opening
<1> QED
    BY <1>1, <1>2 DEF FromAt, Opening

\* A GET that arrives whole is parsed as its calls mean: what the clauses that are not
\* lost say, and nothing else.
THEOREM GetsAlwaysAsAsked == CommandSpec => []ParsedAsAsked
<1>1. CommandInv /\ SpeechInv /\ HeardInv => ParsedAsAsked
    <2> SUFFICES ASSUME CommandInv, SpeechInv, HeardInv, place = "load", params.kind = "GET",
                        text = command
                 PROVE  ParsedAsAsked
        BY Zenon DEF ParsedAsAsked
    <2>1. PICK start, F, m : /\ Opening(F) /\ Titled(params)
                             /\ Heard(Rest(F), m, params, conds)
                             /\ Reached(start, F, m, place, pos)
        BY DEF HeardInv
    <2>2. Chain
        BY DEF SpeechInv
    <2>3. PICK C : Rest(F) \in Seq(C)
        BY <2>1, <2>2, RestFacts
    <2>4. m = Len(Rest(F)) /\ m \in Nat
        BY <2>1, <2>3 DEF Reached
    <2>5. FromAt = F
        BY <2>1, <2>2, FromFound
    <2>6. Behind = Rest(F)
        BY <2>5 DEF Behind, Rest
    <2> DEFINE s == Behind
    <2>7. s \in Seq(C) /\ Heard(s, m, params, conds) /\ Len(s) = m
        BY <2>1, <2>3, <2>4, <2>6
    <2>8. /\ \A name : Picked(s, name) \subseteq 1..m
          /\ Directed(s) \subseteq 1..m
        BY <2>7, PickedFacts
    <2>9. /\ \A j \in 1..m : FieldsOf(s)[j] = s[j].field /\ LimitsOf(s)[j] = s[j].limit
          /\ \A j \in 1..m : DirectionsOf(s)[j] = (s[j].order = "DESC")
        <3>1. DOMAIN s = 1..m
            BY <2>7
        <3> QED
            BY <3>1 DEF FieldsOf, LimitsOf, DirectionsOf
    <2>12. params.group = LastKept(LAMBDA c : c.call = "groupBy", LAMBDA c : c.field, "")
        <3> DEFINE S == Picked(s, "groupBy")
        <3>1. LastKept(LAMBDA c : c.call = "groupBy", LAMBDA c : c.field, "")
                 = IF S = {} THEN NoJoin ELSE s[Top(S)].field
            BY Zenon DEF LastKept, Picked, Kept, Top, NoJoin
        <3>2. \/ S = {} /\ params.group = NoJoin
              \/ S # {} /\ Top(S) \in S /\ params.group = FieldsOf(s)[Top(S)]
            BY <2>4, <2>7, <2>8, LatestLast DEF Heard
        <3> HIDE DEF s, S
        <3>3. params.group = IF S = {} THEN NoJoin ELSE s[Top(S)].field
            BY <2>8, <2>9, <3>2 DEF S
        <3> QED
            BY <3>1, <3>3, Zenon
    <2>13. params.order = LastKept(LAMBDA c : c.call = "orderBy", LAMBDA c : c.field, "")
        <3> DEFINE S == Picked(s, "orderBy")
        <3>1. LastKept(LAMBDA c : c.call = "orderBy", LAMBDA c : c.field, "")
                 = IF S = {} THEN NoJoin ELSE s[Top(S)].field
            BY Zenon DEF LastKept, Picked, Kept, Top, NoJoin
        <3>2. \/ S = {} /\ params.order = NoJoin
              \/ S # {} /\ Top(S) \in S /\ params.order = FieldsOf(s)[Top(S)]
            BY <2>4, <2>7, <2>8, LatestLast DEF Heard
        <3> HIDE DEF s, S
        <3>3. params.order = IF S = {} THEN NoJoin ELSE s[Top(S)].field
            BY <2>8, <2>9, <3>2 DEF S
        <3> QED
            BY <3>1, <3>3, Zenon
    <2>14. params.limit = LastKept(LAMBDA c : c.call = "limit", LAMBDA c : c.limit, -1)
        <3> DEFINE S == Picked(s, "limit")
        <3>1. LastKept(LAMBDA c : c.call = "limit", LAMBDA c : c.limit, -1)
                 = IF S = {} THEN -1 ELSE s[Top(S)].limit
            BY Zenon DEF LastKept, Picked, Kept, Top
        <3>2. \/ S = {} /\ params.limit = -1
              \/ S # {} /\ Top(S) \in S /\ params.limit = LimitsOf(s)[Top(S)]
            BY <2>4, <2>7, <2>8, LatestLast DEF Heard
        <3> HIDE DEF s, S
        <3>3. params.limit = IF S = {} THEN -1 ELSE s[Top(S)].limit
            BY <2>8, <2>9, <3>2 DEF S
        <3> QED
            BY <3>1, <3>3, Zenon
    <2>15. params.desc = LastKept(LAMBDA c : c.call = "orderBy" /\ c.order # "",
                                  LAMBDA c : c.order = "DESC", FALSE)
        <3> DEFINE S == Directed(s)
                   R == {j \in DOMAIN s : /\ Kept[j]
                                          /\ s[j].call = "orderBy" /\ s[j].order # ""}
        <3>0. S = R
            BY Zenon DEF Directed, Picked, Kept, Open
        <3>1. LastKept(LAMBDA c : c.call = "orderBy" /\ c.order # "",
                       LAMBDA c : c.order = "DESC", FALSE)
                 = IF R = {} THEN FALSE ELSE s[Top(R)].order = "DESC"
            BY Zenon DEF LastKept, Top
        <3>2. \/ S = {} /\ params.desc = FALSE
              \/ S # {} /\ Top(S) \in S /\ params.desc = DirectionsOf(s)[Top(S)]
            BY <2>4, <2>7, <2>8, LatestLast DEF Heard
        <3> HIDE DEF s, S, R
        <3>3. S = {} => params.desc = FALSE
            BY <3>2
        <3>4. S # {} => params.desc = (s[Top(S)].order = "DESC")
            BY <2>8, <2>9, <3>2, Zenon DEF S
        <3> QED
            BY <3>0, <3>1, <3>3, <3>4, Zenon
    <2> DEFINE w == Among(Taken(s), Picked(s, "where"))
    <2>10. conds = ConditionsOf([n \in DOMAIN w |-> s[w[n]]])
        <3>1. Len(Taken(s)) = m
            BY <2>4, <2>7 DEF Taken
        <3>2. PICK v : v = w
            OBVIOUS
        <3>3. v = Gathered(Taken(s), Picked(s, "where"))[m]
            BY <3>1, <3>2, Zenon DEF Among
        <3>4. conds = [n \in DOMAIN v |-> ConditionOf(s[v[n]])]
            BY <2>7, <3>3, Zenon DEF Heard, WheresHeard
        <3>5. PICK u : u = [n \in DOMAIN v |-> s[v[n]]]
            OBVIOUS
        <3>6. ConditionsOf(u) = [n \in DOMAIN u |-> ConditionOf(u[n])]
            BY ConditionsSaid
        <3> HIDE DEF s, w
        <3>7. ConditionsOf(u) = [n \in DOMAIN v |-> ConditionOf(s[v[n]])]
            BY <3>5, <3>6
        <3> QED
            BY <3>2, <3>4, <3>5, <3>7
    <2>11. /\ params.fields = calls[1].fields
           /\ params.alias = (calls[2].call = "as")
        BY <2>1, Zenon DEF Titled
    <2> QED
        BY <2>10, <2>11, <2>12, <2>13, <2>14, <2>15, Zenon
           DEF ParsedAsAsked, Picked, Taken, Kept
<1> QED
    BY <1>1, CommandInvariance, AskedInvariance, HeardInvariance, PTL
=============================================================================
