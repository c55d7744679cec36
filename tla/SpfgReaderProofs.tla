-------------------------- MODULE SpfgReaderProofs --------------------------
(***************************************************************************)
(* What the reader can rely on, in two halves.                             *)
(*                                                                         *)
(* The first is about any text: nothing is assumed of the letters, and the *)
(* lemmas follow one letter through the parser, the trail and the loader,  *)
(* each from what the one before it may have done.                         *)
(*                                                                         *)
(* The second is about the text of a saved grid.  Such a text is a walk    *)
(* over a few spots, and wherever it is on that walk the parser, the trail *)
(* and the loader are where the spot says.                                 *)
(***************************************************************************)
EXTENDS SpfgReader, SequenceTheorems, WellFoundedInduction, TLAPS

Modes == {"DONE", "KEY", "OBJECT", "ARRAY"}

\* At the bottom of the stack, and nowhere else, there is "DONE".
StackOK(p) == /\ p.stack \in Seq(Modes)
              /\ Len(p.stack) >= 1
              /\ \A k \in 1..Len(p.stack) : p.stack[k] = "DONE" <=> k = 1

\* What a letter can do to the parser, as the trail sees it: the containers that
\* stay open are of the kind they were, one is opened only where a value is
\* expected, and after one was closed the state is OK.
Follows(p, q) ==
  LET n == Len(p.stack)
      m == Len(q.stack)
  IN  /\ m <= n + 1
      /\ \A k \in 1..n : k <= m => Opened[q.stack[k]] = Opened[p.stack[k]]
      /\ m > n => /\ p.state # "OK"
                  /\ q.token = "NO"
                  /\ Opened[q.stack[m]] = IF q.state = "OB" THEN "OBJECT" ELSE "ARRAY"
      /\ m < n => q.state = "OK"
      /\ q.token \notin {"NO", "KS"} => p.state # "OK"
      /\ q.token = "KS" => m >= 2

LEMMA Prefix ==
  ASSUME NEW S, NEW s \in Seq(S), NEW n \in 0..Len(s)
  PROVE  /\ SubSeq(s, 1, n) \in Seq(S)
         /\ Len(SubSeq(s, 1, n)) = n
         /\ \A k \in 1..n : SubSeq(s, 1, n)[k] = s[k]
<1>1. n \in Int /\ \A k \in 1..n : s[k] \in S
  OBVIOUS
<1> QED
  BY <1>1, SubSeqProperties

LEMMA LastAndFront ==
  ASSUME NEW S, NEW s \in Seq(S), Len(s) >= 1
  PROVE  /\ Last(s) = s[Len(s)] /\ Last(s) \in S
         /\ Front(s) \in Seq(S) /\ Len(Front(s)) = Len(s) - 1
         /\ \A k \in 1..Len(s) - 1 : Front(s)[k] = s[k]
<1> DEFINE n == Len(s) - 1
<1>1. n \in 0..Len(s) /\ Last(s) = s[Len(s)] /\ Last(s) \in S
  BY DEF Last
<1>2. Front(s) = SubSeq(s, 1, n)
  BY DEF Front
<1> HIDE DEF n
<1>3. /\ Front(s) \in Seq(S) /\ Len(Front(s)) = n
      /\ \A k \in 1..n : Front(s)[k] = s[k]
  BY <1>1, <1>2, Prefix
<1> QED
  BY <1>1, <1>3 DEF n

\* The rules that move the stack: one is opened, one closed, or key and value of
\* an object take turns.
Pushed(p, r) == /\ p.state \in {"GO", "VA", "AR"}
                /\ \/ r.to = "OB" /\ r.stack = Append(p.stack, "KEY")
                   \/ r.to = "AR" /\ r.stack = Append(p.stack, "ARRAY")
Popped(p, r) == /\ Last(p.stack) \in {"KEY", "OBJECT", "ARRAY"}
                /\ r.to = "OK" /\ r.stack = Front(p.stack)
Swapped(p, r) == /\ Last(p.stack) \in {"KEY", "OBJECT"}
                 /\ r.to \in {"KE", "VA"}
                 /\ \E m \in {"KEY", "OBJECT"} : r.stack = Append(Front(p.stack), m)
Unmoved(p, r) == /\ r.stack = p.stack
                 /\ r.to = "CO" => Last(p.stack) = "KEY"

\* A rule that lets a letter through in a state, with a mode on top.
Rule(p, r, c, in, on, to, stack) ==
  /\ r.c = c /\ p.state \in in /\ Last(p.stack) \in on
  /\ r.to = to /\ r.stack = stack

LEMMA RuleCases ==
  ASSUME NEW p, NEW c, NEW r \in Structured(p, c)
  PROVE  /\ r.c = c
         /\ \/ Rule(p, r, "{", {"GO", "VA", "AR"}, {Last(p.stack)}, "OB", Append(p.stack, "KEY"))
            \/ Rule(p, r, "[", {"GO", "VA", "AR"}, {Last(p.stack)}, "AR", Append(p.stack, "ARRAY"))
            \/ Rule(p, r, "}", {"OB"}, {"KEY"}, "OK", Front(p.stack))
            \/ Rule(p, r, "}", Ending, {"OBJECT"}, "OK", Front(p.stack))
            \/ Rule(p, r, "]", Ending \cup {"AR"}, {"ARRAY"}, "OK", Front(p.stack))
            \/ Rule(p, r, ",", Ending, {"OBJECT"}, "KE", Append(Front(p.stack), "KEY"))
            \/ Rule(p, r, ",", Ending, {"ARRAY"}, "VA", p.stack)
            \/ Rule(p, r, ":", {"CO"}, {"KEY"}, "VA", Append(Front(p.stack), "OBJECT"))
            \/ Rule(p, r, "quote", {"ST"}, {"KEY"}, "CO", p.stack)
            \/ Rule(p, r, "quote", {"ST"}, {"ARRAY", "OBJECT"}, "OK", p.stack)
<1> DEFINE rule(char, in, on, to, stack) ==
             [c |-> char, in |-> in, on |-> on, to |-> to, stack |-> stack]
<1>0. /\ r.c = c /\ p.state \in r.in /\ Last(p.stack) \in r.on
      /\ \/ r = rule("{", {"GO", "VA", "AR"}, {Last(p.stack)}, "OB", Append(p.stack, "KEY"))
         \/ r = rule("[", {"GO", "VA", "AR"}, {Last(p.stack)}, "AR", Append(p.stack, "ARRAY"))
         \/ r = rule("}", {"OB"}, {"KEY"}, "OK", Front(p.stack))
         \/ r = rule("}", Ending, {"OBJECT"}, "OK", Front(p.stack))
         \/ r = rule("]", Ending \cup {"AR"}, {"ARRAY"}, "OK", Front(p.stack))
         \/ r = rule(",", Ending, {"OBJECT"}, "KE", Append(Front(p.stack), "KEY"))
         \/ r = rule(",", Ending, {"ARRAY"}, "VA", p.stack)
         \/ r = rule(":", {"CO"}, {"KEY"}, "VA", Append(Front(p.stack), "OBJECT"))
         \/ r = rule("quote", {"ST"}, {"KEY"}, "CO", p.stack)
         \/ r = rule("quote", {"ST"}, {"ARRAY", "OBJECT"}, "OK", p.stack)
  BY Zenon DEF Structured
<1>1. CASE r = rule("{", {"GO", "VA", "AR"}, {Last(p.stack)}, "OB", Append(p.stack, "KEY"))
  <2>1. Rule(p, r, "{", {"GO", "VA", "AR"}, {Last(p.stack)}, "OB", Append(p.stack, "KEY"))
    BY <1>0, <1>1 DEF Rule
  <2> QED
    BY <1>0, <2>1
<1>2. CASE r = rule("[", {"GO", "VA", "AR"}, {Last(p.stack)}, "AR", Append(p.stack, "ARRAY"))
  <2>1. Rule(p, r, "[", {"GO", "VA", "AR"}, {Last(p.stack)}, "AR", Append(p.stack, "ARRAY"))
    BY <1>0, <1>2 DEF Rule
  <2> QED
    BY <1>0, <2>1
<1>3. CASE r = rule("}", {"OB"}, {"KEY"}, "OK", Front(p.stack))
  <2>1. Rule(p, r, "}", {"OB"}, {"KEY"}, "OK", Front(p.stack))
    BY <1>0, <1>3 DEF Rule
  <2> QED
    BY <1>0, <2>1
<1>4. CASE r = rule("}", Ending, {"OBJECT"}, "OK", Front(p.stack))
  <2>1. Rule(p, r, "}", Ending, {"OBJECT"}, "OK", Front(p.stack))
    BY <1>0, <1>4 DEF Rule
  <2> QED
    BY <1>0, <2>1
<1>5. CASE r = rule("]", Ending \cup {"AR"}, {"ARRAY"}, "OK", Front(p.stack))
  <2>1. Rule(p, r, "]", Ending \cup {"AR"}, {"ARRAY"}, "OK", Front(p.stack))
    BY <1>0, <1>5 DEF Rule
  <2> QED
    BY <1>0, <2>1
<1>6. CASE r = rule(",", Ending, {"OBJECT"}, "KE", Append(Front(p.stack), "KEY"))
  <2>1. Rule(p, r, ",", Ending, {"OBJECT"}, "KE", Append(Front(p.stack), "KEY"))
    BY <1>0, <1>6 DEF Rule
  <2> QED
    BY <1>0, <2>1
<1>7. CASE r = rule(",", Ending, {"ARRAY"}, "VA", p.stack)
  <2>1. Rule(p, r, ",", Ending, {"ARRAY"}, "VA", p.stack)
    BY <1>0, <1>7 DEF Rule
  <2> QED
    BY <1>0, <2>1
<1>8. CASE r = rule(":", {"CO"}, {"KEY"}, "VA", Append(Front(p.stack), "OBJECT"))
  <2>1. Rule(p, r, ":", {"CO"}, {"KEY"}, "VA", Append(Front(p.stack), "OBJECT"))
    BY <1>0, <1>8 DEF Rule
  <2> QED
    BY <1>0, <2>1
<1>9. CASE r = rule("quote", {"ST"}, {"KEY"}, "CO", p.stack)
  <2>1. Rule(p, r, "quote", {"ST"}, {"KEY"}, "CO", p.stack)
    BY <1>0, <1>9 DEF Rule
  <2> QED
    BY <1>0, <2>1
<1>10. CASE r = rule("quote", {"ST"}, {"ARRAY", "OBJECT"}, "OK", p.stack)
  <2>1. Rule(p, r, "quote", {"ST"}, {"ARRAY", "OBJECT"}, "OK", p.stack)
    BY <1>0, <1>10 DEF Rule
  <2> QED
    BY <1>0, <2>1
<1> QED
  BY <1>0, <1>1, <1>2, <1>3, <1>4, <1>5, <1>6, <1>7, <1>8, <1>9, <1>10

LEMMA Rules ==
  ASSUME NEW p, NEW c, NEW r \in Structured(p, c)
  PROVE  Pushed(p, r) \/ Popped(p, r) \/ Swapped(p, r) \/ Unmoved(p, r)
<1>1. ASSUME NEW on,
             \/ Rule(p, r, "{", {"GO", "VA", "AR"}, on, "OB", Append(p.stack, "KEY"))
             \/ Rule(p, r, "[", {"GO", "VA", "AR"}, on, "AR", Append(p.stack, "ARRAY"))
      PROVE  Pushed(p, r)
  BY <1>1 DEF Rule, Pushed
<1>2. ASSUME NEW ch, NEW in, NEW on \in {{"KEY"}, {"OBJECT"}, {"ARRAY"}},
             Rule(p, r, ch, in, on, "OK", Front(p.stack))
      PROVE  Popped(p, r)
  BY <1>2 DEF Rule, Popped
<1>3. ASSUME NEW ch, NEW in, NEW on \in {{"KEY"}, {"OBJECT"}}, NEW to \in {"KE", "VA"},
             NEW m \in {"KEY", "OBJECT"},
             Rule(p, r, ch, in, on, to, Append(Front(p.stack), m))
      PROVE  Swapped(p, r)
  BY <1>3 DEF Rule, Swapped
<1>4. ASSUME NEW ch, NEW in, NEW on, NEW to, Rule(p, r, ch, in, on, to, p.stack),
             to = "CO" => on = {"KEY"}
      PROVE  Unmoved(p, r)
  BY <1>4 DEF Rule, Unmoved
<1>5. ASSUME Rule(p, r, ",", Ending, {"ARRAY"}, "VA", p.stack)
      PROVE  Unmoved(p, r)
  BY <1>5 DEF Rule, Unmoved
<1>6. ASSUME Rule(p, r, "quote", {"ST"}, {"ARRAY", "OBJECT"}, "OK", p.stack)
      PROVE  Unmoved(p, r)
  BY <1>4, <1>6
<1>7. ASSUME Rule(p, r, "quote", {"ST"}, {"KEY"}, "CO", p.stack)
      PROVE  Unmoved(p, r)
  BY <1>4, <1>7
<1>8. ASSUME \/ Rule(p, r, "}", {"OB"}, {"KEY"}, "OK", Front(p.stack))
             \/ Rule(p, r, "}", Ending, {"OBJECT"}, "OK", Front(p.stack))
             \/ Rule(p, r, "]", Ending \cup {"AR"}, {"ARRAY"}, "OK", Front(p.stack))
      PROVE  Popped(p, r)
  BY <1>2, <1>8
<1>9. ASSUME \/ Rule(p, r, ",", Ending, {"OBJECT"}, "KE", Append(Front(p.stack), "KEY"))
             \/ Rule(p, r, ":", {"CO"}, {"KEY"}, "VA", Append(Front(p.stack), "OBJECT"))
      PROVE  Swapped(p, r)
  BY <1>3, <1>9
<1> QED
  BY <1>1, <1>5, <1>6, <1>7, <1>8, <1>9, RuleCases, Zenon

\* What the new stack is, for each way of moving it.
LEMMA StackMoves ==
  ASSUME NEW p, StackOK(p), NEW r, NEW st, st = r.stack,
         Pushed(p, r) \/ Popped(p, r) \/ Swapped(p, r) \/ Unmoved(p, r)
  PROVE  /\ st \in Seq(Modes) /\ Len(st) >= 1
         /\ \A k \in 1..Len(st) : st[k] = "DONE" <=> k = 1
         /\ Len(st) <= Len(p.stack) + 1
         /\ \A k \in 1..Len(p.stack) :
              k <= Len(st) => Opened[st[k]] = Opened[p.stack[k]]
         /\ Len(st) > Len(p.stack) =>
              /\ Pushed(p, r)
              /\ Opened[st[Len(st)]] = IF r.to = "OB" THEN "OBJECT" ELSE "ARRAY"
         /\ Len(st) < Len(p.stack) => r.to = "OK"
         /\ r.to = "CO" => Len(st) >= 2
<1> DEFINE n == Len(p.stack)
           front == Front(p.stack)
<1>1. /\ p.stack \in Seq(Modes) /\ n \in Nat /\ n >= 1
      /\ \A k \in 1..n : p.stack[k] \in Modes /\ (p.stack[k] = "DONE" <=> k = 1)
  BY DEF StackOK
<1>2. /\ Last(p.stack) = p.stack[n]
      /\ front \in Seq(Modes) /\ Len(front) = n - 1
      /\ \A k \in 1..n - 1 : front[k] = p.stack[k]
  BY <1>1, LastAndFront
<1>3. ASSUME NEW s \in Seq(Modes), NEW m \in Modes
      PROVE  /\ Append(s, m) \in Seq(Modes) /\ Len(Append(s, m)) = Len(s) + 1
             /\ \A k \in 1..Len(s) : Append(s, m)[k] = s[k]
             /\ Append(s, m)[Len(s) + 1] = m
  BY <1>3, AppendProperties
<1> HIDE DEF front
<1>4. CASE Pushed(p, r)
  <2>1. PICK m \in Modes \ {"DONE"} :
          /\ st = Append(p.stack, m)
          /\ Opened[m] = IF r.to = "OB" THEN "OBJECT" ELSE "ARRAY"
          /\ r.to # "CO"
    BY <1>4 DEF Pushed, Modes, Opened
  <2>2. /\ st \in Seq(Modes) /\ Len(st) = n + 1 /\ st[n + 1] = m
        /\ \A k \in 1..n : st[k] = p.stack[k]
    BY <2>1, <1>1, <1>3
  <2> QED
    BY <1>1, <1>4, <2>1, <2>2
<1>5. CASE Popped(p, r)
  <2>1. n >= 2 /\ st = front /\ r.to = "OK"
    BY <1>1, <1>2, <1>5 DEF Popped, front
  <2>2. /\ st \in Seq(Modes) /\ Len(st) = n - 1
        /\ \A k \in 1..n - 1 : st[k] = p.stack[k]
    BY <1>2, <2>1
  <2>3. \A k \in 1..Len(st) : st[k] = "DONE" <=> k = 1
    BY <1>1, <2>1, <2>2
  <2> QED
    BY <1>1, <2>1, <2>2, <2>3
<1>6. CASE Swapped(p, r)
  <2>1. PICK m \in {"KEY", "OBJECT"} : st = Append(front, m)
    BY <1>6 DEF Swapped, front
  <2>2. /\ n >= 2 /\ r.to \in {"KE", "VA"}
        /\ Opened[m] = "OBJECT" /\ Opened[p.stack[n]] = "OBJECT"
    BY <1>1, <1>2, <1>6, <2>1 DEF Swapped, Opened
  <2>3. /\ st \in Seq(Modes) /\ Len(st) = n /\ st[n] = m
        /\ \A k \in 1..n - 1 : st[k] = p.stack[k]
    BY <1>1, <1>2, <1>3, <2>1 DEF Modes
  <2>4. \A k \in 1..n : st[k] = "DONE" <=> k = 1
    BY <1>1, <2>1, <2>2, <2>3
  <2>5. \A k \in 1..n : Opened[st[k]] = Opened[p.stack[k]]
    BY <1>1, <2>2, <2>3
  <2> QED
    BY <1>1, <2>2, <2>3, <2>4, <2>5
<1>7. CASE Unmoved(p, r)
  <2>1. st = p.stack /\ (r.to = "CO" => n >= 2)
    BY <1>1, <1>2, <1>7 DEF Unmoved
  <2> QED
    BY <1>1, <2>1
<1> QED
  BY <1>4, <1>5, <1>6, <1>7

LEMMA ParserStep ==
  ASSUME NEW p, StackOK(p), NEW l, NEW q \in Parsed(p, l)
  PROVE  StackOK(q) /\ Follows(p, q)
<1>1. CASE p.state = "ST" /\ l.c # "quote"
  <2>1. q.stack = p.stack /\ q.token = "NO"
    BY <1>1 DEF Parsed
  <2> QED
    BY <2>1 DEF StackOK, Follows
<1>2. CASE /\ ~(p.state = "ST" /\ l.c # "quote")
           /\ p.state \in DOMAIN Moves /\ l.c \in DOMAIN Moves[p.state]
  <2>1. /\ q.stack = p.stack
        /\ q.token = Token(p.state, Moves[p.state][l.c])
    BY <1>2 DEF Parsed
  <2>2. p.state # "ST" /\ p.state # "OK"
    BY <1>2 DEF Moves
  <2>3. q.token # "KS"
    BY <2>1, <2>2 DEF Token, ValueToken
  <2> QED
    BY <2>1, <2>2, <2>3 DEF StackOK, Follows
<1>3. CASE /\ ~(p.state = "ST" /\ l.c # "quote")
           /\ ~(p.state \in DOMAIN Moves /\ l.c \in DOMAIN Moves[p.state])
  <2>0. PICK r \in Structured(p, l.c) :
          q = [state |-> r.to, stack |-> r.stack, token |-> Token(p.state, r.to),
               lex |-> p.lex]
    BY <1>3, Zenon DEF Parsed
  <2>1. q.state = r.to /\ q.stack = r.stack /\ q.token = Token(p.state, r.to)
    BY <2>0
  <2>2. Pushed(p, r) \/ Popped(p, r) \/ Swapped(p, r) \/ Unmoved(p, r)
    BY <2>1, Rules
  <2>3. /\ q.token = "KS" => r.to = "CO"
        /\ q.token \notin {"NO", "KS"} => p.state # "OK"
        /\ p.state \in {"GO", "VA", "AR"} => q.token = "NO"
    BY <2>1 DEF Token, ValueToken
  <2> QED
    BY <2>1, <2>2, <2>3, StackMoves DEF StackOK, Follows, Pushed
<1> QED
  BY <1>1, <1>2, <1>3

-----------------------------------------------------------------------------
(* The trail *)

IsItem(x) == x = [type |-> x.type, isItem |-> x.isItem, idx |-> x.idx,
                  key |-> x.key, count |-> x.count]

\* The containers that are open in the trail.
Height(it) == IF it[Len(it)].type = "LEAF" THEN Len(it) - 1 ELSE Len(it)

\* The containers of the parser are open in the trail too, and no others unless
\* one was closed by the last letter, which also ended a value.  What an array
\* holds is its items, and they have no key.
TrailOK(p, it) ==
  LET n == Len(p.stack)
      h == Height(it)
  IN  /\ \E S : it \in Seq(S)
      /\ Len(it) >= 1 /\ it[1].type = "ROOT"
      /\ \A k \in 1..Len(it) : IsItem(it[k])
      /\ \A k \in 1..h : it[k].type # "LEAF"
      /\ n <= h /\ (h > n => p.state = "OK")
      /\ \A k \in 1..n : it[k].type = Opened[p.stack[k]]
      /\ \A k \in 2..Len(it) : it[k].isItem <=> it[k - 1].type = "ARRAY"
      /\ \A k \in 2..Len(it) : it[k].isItem => it[k].key = NoKey

\* It grows by one item at most, and an item that takes the place of another is
\* the item of an array if that one was.
Grown(i, j) == /\ Len(j) <= Len(i) + 1
               /\ \A k \in 1..Len(i) : k <= Len(j) => (j[k].isItem <=> i[k].isItem)

Open(it) == IF Last(it).type = "LEAF" THEN Front(it) ELSE it
CountedIn(p, open) == IF Last(p.stack) = "ARRAY"
                      THEN [open EXCEPT ![Len(open)].count = @ + 1] ELSE open

\* The last key, once a letter has been read.
KeyAfter(q, t) == IF q.token = "KS" THEN q.lex ELSE t.key

LEMMA TrailedCases ==
  ASSUME NEW p, NEW q, NEW t, NEW u \in Trailed(p, q, t)
  PROVE  \/ /\ Child(p, q) = "none"
            /\ u.items = Left(Open(t.items), Len(q.stack))
            /\ u.key = KeyAfter(q, t)
         \/ /\ Child(p, q) # "none"
            /\ \E item : /\ IsItem(item)
                         /\ item.type = Child(p, q)
                         /\ item.isItem <=> Last(p.stack) = "ARRAY"
                         /\ item.key = IF Last(p.stack) = "OBJECT" THEN KeyAfter(q, t)
                                       ELSE NoKey
                         /\ u.items = Left(Append(CountedIn(p, Open(t.items)), item),
                                           Len(q.stack))
<1> DEFINE inside == Last(p.stack)
           items == Open(t.items)
           key == KeyAfter(q, t)
           item == [type   |-> Child(p, q),
                    isItem |-> inside = "ARRAY",
                    idx    |-> IF inside = "ARRAY" THEN items[Len(items)].count ELSE 0,
                    key    |-> IF inside = "OBJECT" THEN key ELSE NoKey,
                    count  |-> 0]
<1>1. CASE Child(p, q) = "none"
  <2>1. u = [items |-> Left(items, Len(q.stack)), key |-> key]
    BY <1>1, Zenon DEF Trailed, Open, KeyAfter
  <2> QED
    BY <1>1, <2>1
<1>2. CASE Child(p, q) # "none"
  <2>1. u = [items |-> Left(Append(CountedIn(p, items), item), Len(q.stack)),
             key |-> NoKey]
    BY <1>2, Zenon DEF Trailed, Open, CountedIn, KeyAfter
  <2>2. /\ IsItem(item) /\ item.type = Child(p, q)
        /\ item.isItem <=> inside = "ARRAY"
        /\ item.key = IF inside = "OBJECT" THEN key ELSE NoKey
    BY DEF IsItem
  <2> QED
    BY <1>2, <2>1, <2>2
<1> QED
  BY <1>1, <1>2

\* What is open, with the item counted in it that is about to be added.
LEMMA OpenPart ==
  ASSUME NEW p, StackOK(p), NEW it, TrailOK(p, it),
         NEW c \in {Open(it), CountedIn(p, Open(it))}
  PROVE  LET h == Height(it)
         IN  /\ h \in Nat /\ h >= 1 /\ Len(c) = h /\ \E S : c \in Seq(S)
             /\ \A k \in 1..h : /\ IsItem(c[k])
                                /\ c[k].type = it[k].type
                                /\ c[k].isItem = it[k].isItem
                                /\ c[k].key = it[k].key
<1> DEFINE h == Height(it)
           o == Open(it)
           x == [o[h] EXCEPT !.count = @ + 1]
<1>1. PICK S : it \in Seq(S)
  BY DEF TrailOK
<1>2. h \in Nat /\ h >= 1 /\ Len(it) \in Nat /\ h <= Len(it)
  BY <1>1 DEF TrailOK, StackOK, Height
<1>3. /\ o \in Seq(S) /\ Len(o) = h
      /\ \A k \in 1..h : o[k] = it[k] /\ IsItem(o[k])
  <2>1. Last(it) = it[Len(it)] /\ Len(it) >= 1
    BY DEF Last, TrailOK
  <2>2. /\ Front(it) \in Seq(S) /\ Len(Front(it)) = Len(it) - 1
        /\ \A k \in 1..Len(it) - 1 : Front(it)[k] = it[k]
    BY <1>1, <2>1, LastAndFront
  <2>3. \A k \in 1..h : IsItem(it[k])
    BY <1>2 DEF TrailOK
  <2> QED
    BY <1>1, <1>2, <2>1, <2>2, <2>3 DEF Open, Height
<1> HIDE DEF h, o
<1>4. /\ IsItem(x) /\ x.type = o[h].type /\ x.isItem = o[h].isItem /\ x.key = o[h].key
  <2>1. IsItem(o[h])
    BY <1>2, <1>3
  <2> QED
    BY <2>1 DEF IsItem
<1> HIDE DEF x
<1>5. CASE c # o
  <2> DEFINE d == [o EXCEPT ![h] = x]
  <2>1. o \in Seq(S \cup {x})
    BY <1>3, SeqMonotonic
  <2>2. /\ d \in Seq(S \cup {x}) /\ Len(d) = h
        /\ \A k \in 1..h : d[k] = IF k = h THEN x ELSE o[k]
    BY <1>2, <1>3, <2>1, ExceptSeq
  <2>3. c = [o EXCEPT ![Len(o)].count = @ + 1]
    BY <1>5, Zenon DEF o, CountedIn
  <2>4. c = d
    BY <1>3, <2>3 DEF x
  <2> HIDE DEF d
  <2> QED
    BY <1>2, <1>3, <1>4, <1>5, <2>2, <2>4 DEF h, o
<1>6. CASE c = o
  BY <1>2, <1>3, <1>6 DEF h, o
<1> QED
  BY <1>5, <1>6

LEMMA ChildKinds ==
  ASSUME NEW p, NEW q, StackOK(p), StackOK(q), Follows(p, q)
  PROVE  LET n == Len(p.stack)
             m == Len(q.stack)
         IN  /\ Child(p, q) = "none" => m <= n /\ q.token \in {"NO", "KS"}
             /\ Child(p, q) # "none" => p.state # "OK"
             /\ Child(p, q) = "LEAF" => m <= n
             /\ Child(p, q) \notin {"none", "LEAF"} =>
                  m = n + 1 /\ Child(p, q) = Opened[q.stack[m]] /\ q.token = "NO"
             /\ Child(p, q) \in {"none", "LEAF", "OBJECT", "ARRAY"}
  BY DEF StackOK, Follows, Child

\* What becomes of the trail: it is cut to what is open, or an item is added.
Shape(p, q, t, u) ==
  LET n == Len(p.stack)
      i == t.items
      j == u.items
  IN  /\ Child(p, q) = "none" =>
           /\ Len(j) = Len(q.stack)
           /\ u.key = KeyAfter(q, t)
           /\ \A k \in 1..Len(q.stack) : j[k].type = i[k].type
      /\ Child(p, q) # "none" =>
           /\ Len(j) = n + 1 /\ Height(i) = n
           /\ j[n + 1].type = Child(p, q)
           /\ j[n + 1].key = IF Last(p.stack) = "OBJECT" THEN KeyAfter(q, t) ELSE NoKey
           /\ \A k \in 1..n : j[k].type = i[k].type

LEMMA TrailStep ==
  ASSUME NEW p, NEW q, NEW t, StackOK(p), StackOK(q), Follows(p, q),
         TrailOK(p, t.items), NEW u \in Trailed(p, q, t)
  PROVE  /\ TrailOK(q, u.items) /\ Grown(t.items, u.items)
         /\ q.token # "NO" => Len(u.items) >= 2
         /\ Shape(p, q, t, u)
<1> DEFINE it == t.items
           n == Len(p.stack)
           m == Len(q.stack)
           h == Height(it)
           child == Child(p, q)
<1>1. /\ n \in Nat /\ m \in Nat /\ n >= 1 /\ m >= 1 /\ m <= n + 1
      /\ \A k \in 1..n : k <= m => Opened[q.stack[k]] = Opened[p.stack[k]]
      /\ m < n => q.state = "OK"
      /\ q.token = "KS" => m >= 2
  BY DEF StackOK, Follows
<1>2. /\ h \in Nat /\ h >= 1 /\ h >= n /\ (h > n => p.state = "OK")
      /\ Len(it) \in {h, h + 1}
      /\ it[1].type = "ROOT"
      /\ \A k \in 1..h : it[k].type # "LEAF" /\ k \in 1..Len(it)
      /\ \A k \in 1..n : it[k].type = Opened[p.stack[k]]
      /\ \A k \in 2..Len(it) : it[k].isItem <=> it[k - 1].type = "ARRAY"
      /\ \A k \in 2..Len(it) : it[k].isItem => it[k].key = NoKey
  <2>1. h \in Nat /\ h >= 1
    BY OpenPart
  <2>2. PICK S : it \in Seq(S)
    BY DEF TrailOK
  <2>3. Len(it) \in Nat
    BY <2>2
  <2>4. Len(it) \in {h, h + 1}
    BY <2>1, <2>3 DEF Height
  <2>5. \A k \in 1..h : k \in 1..Len(it)
    BY <2>1, <2>3, <2>4
  <2> HIDE DEF it, n, h
  <2>6. /\ h >= n /\ (h > n => p.state = "OK")
        /\ it[1].type = "ROOT"
        /\ \A k \in 1..h : it[k].type # "LEAF"
        /\ \A k \in 1..n : it[k].type = Opened[p.stack[k]]
        /\ \A k \in 2..Len(it) : it[k].isItem <=> it[k - 1].type = "ARRAY"
        /\ \A k \in 2..Len(it) : it[k].isItem => it[k].key = NoKey
    <3>1. n <= h => h >= n
      BY <2>1, <1>1 DEF n
    <3> QED
      BY <3>1 DEF TrailOK, it, n, h
  <2> QED
    BY <2>1, <2>4, <2>5, <2>6
<1>3. /\ child = "none" => m <= n /\ q.token \in {"NO", "KS"}
      /\ child # "none" => p.state # "OK"
      /\ child = "LEAF" => m <= n
      /\ child \notin {"none", "LEAF"} =>
           m = n + 1 /\ child = Opened[q.stack[m]] /\ q.token = "NO"
      /\ child \in {"none", "LEAF", "OBJECT", "ARRAY"}
  BY ChildKinds
<1> HIDE DEF it, n, m, h, child
<1>4. CASE child = "none"
  <2> DEFINE o == Open(it)
  <2>1. u.items = Left(o, m) /\ u.key = KeyAfter(q, t)
    BY <1>4, TrailedCases DEF it, m, child
  <2>2. /\ Len(o) = h /\ \E S : o \in Seq(S)
        /\ \A k \in 1..h : /\ IsItem(o[k]) /\ o[k].type = it[k].type
                           /\ o[k].isItem = it[k].isItem /\ o[k].key = it[k].key
    BY OpenPart DEF it, h
  <2> HIDE DEF o
  <2>3. PICK S : o \in Seq(S)
    BY <2>2
  <2>4. u.items = SubSeq(o, 1, m)
    <3>1. Last(o).type # "LEAF"
      BY <1>2, <2>2 DEF Last
    <3>2. ~(Len(o) < m)
      BY <1>1, <1>2, <1>3, <1>4, <2>2
    <3> QED
      BY <2>1, <3>1, <3>2 DEF Left
  <2>5. /\ m <= h
        /\ u.items \in Seq(S) /\ Len(u.items) = m
        /\ \A k \in 1..m : u.items[k] = o[k]
    <3>1. m \in 0..Len(o)
      BY <1>1, <1>2, <1>3, <1>4, <2>2
    <3> QED
      BY <2>2, <2>3, <2>4, <3>1, Prefix
  <2> DEFINE j == u.items
  <2>6. \A k \in 1..m : /\ k \in 1..h /\ k \in 1..Len(it)
                        /\ IsItem(j[k]) /\ j[k].type = it[k].type
                        /\ j[k].isItem = it[k].isItem /\ j[k].key = it[k].key
    BY <1>1, <1>2, <2>2, <2>5
  <2>7. Height(j) = m
    BY <1>1, <1>2, <2>5, <2>6 DEF Height
  <2>8. TrailOK(q, j)
    <3>1. /\ \E R : j \in Seq(R)
          /\ Len(j) >= 1 /\ j[1].type = "ROOT"
      BY <1>1, <1>2, <2>5, <2>6
    <3>2. \A k \in 1..m : j[k].type # "LEAF" /\ j[k].type = Opened[q.stack[k]]
      <4> TAKE k \in 1..m
      <4>1. k \in 1..n /\ k \in 1..h
        BY <1>1, <1>2, <1>3, <1>4
      <4>2. it[k].type # "LEAF" /\ it[k].type = Opened[p.stack[k]]
        BY <1>2, <4>1
      <4>3. Opened[q.stack[k]] = Opened[p.stack[k]]
        BY <1>1, <4>1
      <4> QED
        BY <2>6, <4>2, <4>3
    <3>3. \A k \in 2..m : /\ j[k].isItem <=> j[k - 1].type = "ARRAY"
                          /\ j[k].isItem => j[k].key = NoKey
      <4> TAKE k \in 2..m
      <4>1. k \in 1..m /\ k - 1 \in 1..m /\ k \in 2..Len(it)
        BY <1>1, <1>2, <2>5
      <4>2. /\ it[k].isItem <=> it[k - 1].type = "ARRAY"
            /\ it[k].isItem => it[k].key = NoKey
        BY <1>2, <4>1
      <4>3. j[k].isItem = it[k].isItem /\ j[k].key = it[k].key
        BY <2>6, <4>1
      <4>4. j[k - 1].type = it[k - 1].type
        BY <2>6, <4>1
      <4> QED
        BY <4>2, <4>3, <4>4
    <3>4. \A k \in 1..m : IsItem(j[k])
      BY <2>6
    <3> QED
      <4>1. Len(j) = m /\ Height(j) = m /\ m <= m /\ ~(m > m) /\ Len(q.stack) = m
        BY <1>1, <2>5, <2>7 DEF m
      <4> HIDE DEF j
      <4> QED
        BY <3>1, <3>2, <3>3, <3>4, <4>1 DEF TrailOK
  <2>9. Grown(it, j)
    BY <1>1, <1>2, <1>3, <1>4, <2>5, <2>6 DEF Grown
  <2>10. Shape(p, q, t, u)
    BY <1>4, <2>1, <2>5, <2>6 DEF Shape, it, m, child
  <2> QED
    BY <1>1, <1>3, <1>4, <2>5, <2>8, <2>9, <2>10 DEF it
<1>5. CASE child # "none"
  <2> DEFINE o == CountedIn(p, Open(it))
  <2>1. PICK item : /\ IsItem(item) /\ item.type = child
                    /\ item.isItem <=> Last(p.stack) = "ARRAY"
                    /\ item.key = IF Last(p.stack) = "OBJECT" THEN KeyAfter(q, t) ELSE NoKey
                    /\ item.isItem => item.key = NoKey
                    /\ u.items = Left(Append(o, item), m)
    BY <1>5, TrailedCases DEF it, m, child
  <2>2. /\ Len(o) = h /\ \E S : o \in Seq(S)
        /\ \A k \in 1..h : /\ IsItem(o[k]) /\ o[k].type = it[k].type
                           /\ o[k].isItem = it[k].isItem /\ o[k].key = it[k].key
    BY OpenPart DEF it, h
  <2> HIDE DEF o
  <2>3. PICK S : o \in Seq(S)
    BY <2>2
  <2>4. h = n
    BY <1>1, <1>2, <1>3, <1>5
  <2> DEFINE a == Append(o, item)
             j == u.items
  <2>5. /\ a \in Seq(S \cup {item}) /\ Len(a) = n + 1 /\ a[n + 1] = item
        /\ \A k \in 1..n : a[k] = o[k]
    <3>1. o \in Seq(S \cup {item})
      BY <2>3, SeqMonotonic
    <3> QED
      BY <2>2, <2>4, <3>1, AppendProperties
  <2> HIDE DEF a
  <2>6. j \in Seq(S \cup {item}) /\ Len(j) = n + 1 /\ \A k \in 1..n + 1 : j[k] = a[k]
    <3>0. j = Left(a, m)
      BY <2>1 DEF a
    <3>1. CASE child = "LEAF"
      BY <2>1, <2>5, <3>0, <3>1 DEF Left, Last
    <3>2. CASE child # "LEAF"
      <4>0. m = n + 1 /\ Last(a).type # "LEAF" /\ ~(Len(a) < m)
        BY <1>1, <1>3, <1>5, <2>1, <2>5, <3>2 DEF Last
      <4>1. j = SubSeq(a, 1, n + 1)
        BY <3>0, <4>0 DEF Left
      <4>2. n + 1 \in 0..Len(a)
        BY <1>1, <2>5
      <4> QED
        BY <2>5, <4>1, <4>2, Prefix
    <3> QED
      BY <3>1, <3>2
  <2>7. /\ j[n + 1] = item
        /\ \A k \in 1..n : /\ IsItem(j[k]) /\ j[k].type = it[k].type /\ k \in 1..Len(it)
                           /\ j[k].isItem = it[k].isItem /\ j[k].key = it[k].key
    BY <1>1, <1>2, <2>2, <2>4, <2>5, <2>6
  <2>8. item.isItem <=> it[n].type = "ARRAY"
    <3>1. Last(p.stack) = p.stack[n] /\ p.stack[n] \in Modes /\ it[n].type = Opened[p.stack[n]]
      BY <1>1, <1>2 DEF Last, StackOK, n
    <3> QED
      BY <2>1, <3>1 DEF Modes, Opened
  <2>9. Height(j) = IF child = "LEAF" THEN n ELSE n + 1
    BY <1>1, <2>1, <2>6, <2>7 DEF Height
  <2>10. TrailOK(q, j)
    <3>1. /\ \E R : j \in Seq(R)
          /\ Len(j) >= 1 /\ j[1].type = "ROOT"
      BY <1>1, <1>2, <2>6, <2>7
    <3>2. \A k \in 1..Height(j) : j[k].type # "LEAF"
      BY <1>1, <1>2, <1>3, <1>5, <2>1, <2>4, <2>7, <2>9
    <3>3. \A k \in 1..m : j[k].type = Opened[q.stack[k]]
      BY <1>1, <1>2, <1>3, <1>5, <2>1, <2>7
    <3>4. \A k \in 1..n + 1 : IsItem(j[k])
      BY <1>1, <2>1, <2>7
    <3>5. \A k \in 2..n + 1 : /\ j[k].isItem <=> j[k - 1].type = "ARRAY"
                              /\ j[k].isItem => j[k].key = NoKey
      <4> TAKE k \in 2..n + 1
      <4>1. CASE k = n + 1
        <5>1. n \in 1..n /\ k - 1 = n
          BY <1>1, <4>1
        <5>2. j[n].type = it[n].type /\ j[n + 1] = item
          BY <2>7, <5>1
        <5> QED
          BY <2>1, <2>8, <4>1, <5>1, <5>2
      <4>2. CASE k # n + 1
        <5>1. k \in 1..n /\ k - 1 \in 1..n /\ k \in 2..Len(it)
          BY <1>1, <1>2, <2>4, <4>2
        <5>2. /\ it[k].isItem <=> it[k - 1].type = "ARRAY"
              /\ it[k].isItem => it[k].key = NoKey
          BY <1>2, <5>1
        <5>3. j[k].isItem = it[k].isItem /\ j[k].key = it[k].key
          BY <2>7, <5>1
        <5>4. j[k - 1].type = it[k - 1].type
          BY <2>7, <5>1
        <5> QED
          BY <5>2, <5>3, <5>4
      <4> QED
        BY <4>1, <4>2
    <3>6. m <= Height(j) /\ (Height(j) > m => q.state = "OK")
      BY <1>1, <1>3, <1>5, <2>9
    <3> QED
      <4>1. Len(j) = n + 1 /\ Len(q.stack) = m
        BY <2>6 DEF m
      <4> HIDE DEF j
      <4> QED
        BY <3>1, <3>2, <3>3, <3>4, <3>5, <3>6, <4>1 DEF TrailOK
  <2>11. Grown(it, j)
    <3> SUFFICES ASSUME NEW k \in 1..Len(it), k <= n + 1
                 PROVE  j[k].isItem <=> it[k].isItem
      BY <1>1, <1>2, <2>4, <2>6 DEF Grown
    <3>1. CASE k = n + 1
      <4>1. k \in 2..Len(it) /\ k - 1 = n
        BY <1>1, <3>1
      <4>2. it[k].isItem <=> it[n].type = "ARRAY"
        BY <1>2, <4>1
      <4> QED
        BY <2>7, <2>8, <3>1, <4>2
    <3>2. CASE k # n + 1
      BY <1>1, <2>7, <3>2
    <3> QED
      BY <3>1, <3>2
  <2>12. Shape(p, q, t, u)
    BY <1>5, <2>1, <2>4, <2>6, <2>7 DEF Shape, it, n, h, child
  <2> QED
    BY <1>1, <2>6, <2>10, <2>11, <2>12 DEF it
<1> QED
  BY <1>4, <1>5

-----------------------------------------------------------------------------
(* The loader *)

\* Every part of the specification.
Leaves == {Leaf(key, vtype) : key \in {NoKey, "id", "type", "name", "phase", "emitted",
                                       "value", "curr_fn_idx"},
                              vtype \in Scalars}
Lists == {Array("in_dp_ids", Leaf(NoKey, "INTEGER"), MaxIn),
          Array("out_dp_ids", Leaf(NoKey, "INTEGER"), MaxOut)}
Blocks == {FnSpec, DpSpec, Object("ctl", <<Leaf("curr_fn_idx", "INTEGER")>>)}
Nodes == Leaves \cup Lists \cup Blocks
           \cup {Array("fns", FnSpec, MaxFns), Array("dps", DpSpec, MaxDps), RootSpec}

\* The loader follows the trail down to a value and no further, and an item of an
\* array has an array of the specification above it.
LoaderOK(items, l) ==
  /\ \E S : l \in Seq(S)
  /\ Len(l) >= 1 /\ Len(l) <= Len(items)
  /\ l[1].node.vtype = "none"
  /\ \A k \in 2..Len(l) : l[k].node \in Nodes
  /\ \A k \in 2..Len(l) : items[k].isItem => l[k - 1].node.vtype = "ARRAY"
  /\ Len(l) < Len(items) => l[Len(l)].node.vtype \in Scalars

LEMMA NodesClosed ==
  ASSUME NEW x \in Nodes
  PROVE  /\ x.vtype \in VTypes
         /\ x.vtype = "OBJECT" => \A k \in DOMAIN x.kids : x.kids[k] \in Nodes
         /\ x.vtype = "ARRAY" => x.kids[1] \in Nodes
<1>1. CASE x \in Leaves
  BY <1>1 DEF Leaves, Leaf, Scalars, VTypes
<1>2. Leaf(NoKey, "INTEGER") \in Leaves
  BY DEF Leaves, Scalars
<1>3. CASE x \in Lists
  BY <1>2, <1>3 DEF Lists, Array, VTypes, Nodes
<1>4. CASE x = FnSpec
  <2>1. /\ Leaf("id", "INTEGER") \in Leaves /\ Leaf("type", "INTEGER") \in Leaves
        /\ Leaf("name", "STRING") \in Leaves /\ Leaf("phase", "INTEGER") \in Leaves
    BY DEF Leaves, Scalars
  <2> QED
    BY <1>4, <2>1 DEF FnSpec, Object, VTypes, Nodes, Lists
<1>5. CASE x = DpSpec
  <2>1. /\ Leaf("id", "INTEGER") \in Leaves /\ Leaf("type", "INTEGER") \in Leaves
        /\ Leaf("name", "STRING") \in Leaves /\ Leaf("emitted", "BOOL") \in Leaves
        /\ Leaf("value", "BOOL") \in Leaves /\ Leaf("value", "INTEGER") \in Leaves
        /\ Leaf("value", "REAL") \in Leaves
    BY DEF Leaves, Scalars
  <2> QED
    BY <1>5, <2>1 DEF DpSpec, Object, VTypes, Nodes
<1>6. CASE x = Object("ctl", <<Leaf("curr_fn_idx", "INTEGER")>>)
  <2>1. Leaf("curr_fn_idx", "INTEGER") \in Leaves
    BY DEF Leaves, Scalars
  <2> QED
    BY <1>6, <2>1 DEF Object, VTypes, Nodes
<1>7. CASE x \in {Array("fns", FnSpec, MaxFns), Array("dps", DpSpec, MaxDps)}
  BY <1>7 DEF Array, VTypes, Nodes, Blocks
<1>8. CASE x = RootSpec
  <2>1. Leaf("name", "STRING") \in Leaves
    BY DEF Leaves, Scalars
  <2> QED
    BY <1>8, <2>1 DEF RootSpec, Object, VTypes, Nodes, Blocks
<1> QED
  BY <1>1, <1>3, <1>4, <1>5, <1>6, <1>7, <1>8 DEF Nodes, Blocks

\* What the loader looks for below a part of the specification is one of its
\* parts; and nothing without a key is found below an object.
LEMMA PartFound ==
  ASSUME NEW x \in Nodes, NEW item, NEW token, x.vtype \notin Scalars,
         NEW node \in Part(x, item, token)
  PROVE  node \in Nodes /\ (item.key = NoKey => x.vtype = "ARRAY")
<1>1. CASE x.vtype = "ARRAY"
  <2>1. node = x.kids[1]
    BY <1>1 DEF Part
  <2> QED
    BY <1>1, <2>1, NodesClosed
<1>2. CASE x.vtype = "OBJECT"
  <2>1. \E k \in DOMAIN x.kids : node = x.kids[k] /\ SameKey(x.kids[k], item.key)
    BY <1>2 DEF Part
  <2> QED
    BY <1>2, <2>1, NodesClosed DEF SameKey
<1> QED
  BY <1>1, <1>2, NodesClosed DEF VTypes

LEMMA LoaderStep ==
  ASSUME NEW p, NEW q, NEW i, NEW j, TrailOK(p, i), TrailOK(q, j), Grown(i, j),
         NEW l, LoaderOK(i, l), NEW t, t.items = j, NEW token,
         NEW up \in Synced(l, t, token)
  PROVE  LoaderOK(j, up)
<1> DEFINE n == Len(l)
           top == Last(l)
<1>1. PICK S : l \in Seq(S)
  BY DEF LoaderOK
<1>2. /\ n \in Nat /\ n >= 1 /\ top = l[n] /\ Len(i) \in Nat /\ Len(j) \in Nat
      /\ Len(j) >= 1 /\ n <= Len(i) /\ Len(j) <= Len(i) + 1
  BY <1>1 DEF LoaderOK, TrailOK, Grown, Last
<1>3. /\ l[1].node.vtype = "none"
      /\ \A k \in 2..n : l[k].node \in Nodes
      /\ \A k \in 2..n : i[k].isItem => l[k - 1].node.vtype = "ARRAY"
      /\ n < Len(i) => top.node.vtype \in Scalars
  BY <1>2 DEF LoaderOK
<1>4. \A k \in 1..Len(i) : k <= Len(j) => (j[k].isItem <=> i[k].isItem)
  BY DEF Grown
<1>5. \A k \in 2..n : k <= Len(j) => (j[k].isItem => l[k - 1].node.vtype = "ARRAY")
  BY <1>2, <1>3, <1>4
<1> HIDE DEF n, top
<1>6. CASE Len(j) <= n
  <2>1. up = SubSeq(l, 1, Len(j))
    BY <1>6 DEF Synced, n
  <2>2. /\ up \in Seq(S) /\ Len(up) = Len(j)
        /\ \A k \in 1..Len(j) : up[k] = l[k]
    BY <1>1, <1>2, <1>6, <2>1, Prefix DEF n
  <2>3. \A k \in 2..Len(j) : /\ up[k].node \in Nodes
                             /\ j[k].isItem => up[k - 1].node.vtype = "ARRAY"
    <3> TAKE k \in 2..Len(j)
    <3>1. k \in 2..n /\ k \in 1..Len(j) /\ k - 1 \in 1..Len(j)
      BY <1>2, <1>6
    <3>2. up[k] = l[k] /\ up[k - 1] = l[k - 1]
      BY <2>2, <3>1
    <3> QED
      BY <1>3, <1>5, <3>1, <3>2
  <2> QED
    BY <1>2, <1>3, <2>2, <2>3 DEF LoaderOK
<1>7. CASE ~(Len(j) <= n) /\ top.node.vtype \in Scalars
  <2>1. up = l
    BY <1>7 DEF Synced, n, top
  <2> QED
    BY <1>1, <1>2, <1>3, <1>5, <1>7, <2>1 DEF LoaderOK, n
<1>8. CASE ~(Len(j) <= n) /\ top.node.vtype \notin Scalars
  <2> DEFINE item == Last(j)
  <2>1. n = Len(i) /\ Len(j) = n + 1 /\ item = j[n + 1]
    BY <1>2, <1>3, <1>8 DEF Last
  <2>2. PICK node \in Part(top.node, item, token) : up = Append(l, Level(top, item, node))
    BY <1>8, Zenon DEF Synced, n, top
  <2> DEFINE x == Level(top, item, node)
  <2>3. x.node = node
    BY DEF Level
  <2> HIDE DEF x, item
  <2>4. /\ up \in Seq(S \cup {x}) /\ Len(up) = n + 1 /\ up[n + 1] = x
        /\ \A k \in 1..n : up[k] = l[k]
    <3>1. l \in Seq(S \cup {x})
      BY <1>1, SeqMonotonic
    <3> QED
      BY <2>2, <3>1, AppendProperties DEF n, x
  <2>5. item.isItem => item.key = NoKey
    BY <1>2, <2>1 DEF TrailOK
  <2>6. node \in Nodes /\ (item.isItem => top.node.vtype = "ARRAY")
    <3>1. CASE n = 1
      <4>1. top.node.vtype = "none"
        BY <1>2, <1>3, <3>1
      <4>2. node = RootSpec
        BY <2>2, <4>1 DEF Part
      <4>3. ~item.isItem
        <5>1. j[2].isItem <=> j[1].type = "ARRAY"
          BY <2>1, <3>1 DEF TrailOK
        <5>2. j[1].type = "ROOT"
          BY DEF TrailOK
        <5> QED
          BY <2>1, <3>1, <5>1, <5>2
      <4> QED
        BY <4>2, <4>3 DEF Nodes
    <3>2. CASE n # 1
      <4>1. top.node \in Nodes
        BY <1>2, <1>3, <3>2
      <4> QED
        BY <1>8, <2>2, <2>5, <4>1, PartFound
    <3> QED
      BY <3>1, <3>2
  <2>7. \A k \in 2..n + 1 : /\ up[k].node \in Nodes
                            /\ j[k].isItem => up[k - 1].node.vtype = "ARRAY"
    <3> TAKE k \in 2..n + 1
    <3>1. CASE k = n + 1
      <4>1. up[k] = x /\ k - 1 = n /\ up[n] = top
        BY <1>2, <2>4, <3>1
      <4> QED
        BY <2>1, <2>3, <2>6, <3>1, <4>1
    <3>2. CASE k # n + 1
      <4>1. k \in 2..n /\ k \in 1..n /\ k - 1 \in 1..n /\ k <= Len(j)
        BY <1>2, <2>1, <3>2
      <4>2. up[k] = l[k] /\ up[k - 1] = l[k - 1]
        BY <2>4, <4>1
      <4> QED
        BY <1>3, <1>5, <4>1, <4>2
    <3> QED
      BY <3>1, <3>2
  <2> QED
    BY <1>2, <1>3, <2>1, <2>4, <2>7 DEF LoaderOK
<1> QED
  BY <1>6, <1>7, <1>8

-----------------------------------------------------------------------------
(* The reader *)

ReaderInv ==
  /\ StackOK(parser)
  /\ TrailOK(parser, trail.items)
  /\ LoaderOK(trail.items, loader)
  /\ parser.token # "NO" => Len(trail.items) >= 2

LEMMA ReaderStarts == ReaderInit => ReaderInv
<1> SUFFICES ASSUME ReaderInit PROVE ReaderInv
  OBVIOUS
<1> DEFINE root == [type |-> "ROOT", isItem |-> FALSE, idx |-> 0, key |-> NoKey, count |-> 0]
<1>1. /\ parser.stack = <<"DONE">> /\ parser.token = "NO"
      /\ trail.items = <<root>> /\ loader = <<Bottom>>
  BY DEF ReaderInit, Start
<1>2. StackOK(parser)
  BY <1>1 DEF StackOK, Modes
<1>3. IsItem(root) /\ root.type = "ROOT"
  BY DEF IsItem
<1> HIDE DEF root
<1>4. TrailOK(parser, trail.items)
  <2>1. <<root>> \in Seq({root}) /\ Len(<<root>>) = 1 /\ <<root>>[1] = root
    OBVIOUS
  <2>3. Len(parser.stack) = 1 /\ parser.stack[1] = "DONE" /\ Opened["DONE"] = "ROOT"
    BY <1>1 DEF Opened
  <2>2. Height(<<root>>) = 1
    BY <1>3, <2>1 DEF Height
  <2> QED
    <3> DEFINE j == trail.items
    <3>1. /\ Len(j) = 1 /\ j[1] = root /\ Height(j) = 1
          /\ \E S : j \in Seq(S)
      BY <1>1, <2>1, <2>2
    <3>2. root.type # "LEAF"
      BY <1>3
    <3> HIDE DEF j
    <3>3. TrailOK(parser, j)
      BY <1>3, <2>3, <3>1, <3>2 DEF TrailOK
    <3> QED
      BY <3>3 DEF j
<1>5. LoaderOK(trail.items, loader)
  <2>1. Bottom.node.vtype = "none"
    BY DEF Bottom, Leaf
  <2>2. <<Bottom>> \in Seq({Bottom})
    OBVIOUS
  <2>3. /\ Len(loader) = 1 /\ Len(trail.items) = 1 /\ loader[1] = Bottom
        /\ loader \in Seq({Bottom})
    BY <1>1, <2>2
  <2> QED
    BY <2>1, <2>3 DEF LoaderOK
<1> QED
  BY <1>1, <1>2, <1>4, <1>5 DEF ReaderInv

\* The parts of what becomes of a letter.
LEMMA OutcomeParts ==
  ASSUME NEW now, NEW l, NEW o \in Outcome(now, l)
  PROVE  \E p \in Parsed(now.parser, l) : \E t \in Trailed(now.parser, p, now.trail) :
           \E up \in Synced(now.loader, t, p.token) :
             \E s \in Extracted(now.store, up, t, p) :
               o = [parser |-> p, trail |-> t, loader |-> up, store |-> s]
<1> DEFINE result(p, t, up, s) == [parser |-> p, trail |-> t, loader |-> up, store |-> s]
           stored(p, t, up) == {result(p, t, up, s) : s \in Extracted(now.store, up, t, p)}
           loaded(p, t) == UNION {stored(p, t, up) : up \in Synced(now.loader, t, p.token)}
           trailed(p) == UNION {loaded(p, t) : t \in Trailed(now.parser, p, now.trail)}
<1>1. PICK p \in Parsed(now.parser, l) : o \in trailed(p)
  <2>1. o \in UNION {trailed(p) : p \in Parsed(now.parser, l)}
    BY Zenon DEF Outcome
  <2> HIDE DEF trailed
  <2> QED
    BY <2>1, Zenon
<1>2. PICK t \in Trailed(now.parser, p, now.trail) : o \in loaded(p, t)
  <2>1. o \in UNION {loaded(p, t) : t \in Trailed(now.parser, p, now.trail)}
    BY <1>1
  <2> HIDE DEF loaded
  <2> QED
    BY <2>1, Zenon
<1>3. PICK up \in Synced(now.loader, t, p.token) : o \in stored(p, t, up)
  <2>1. o \in UNION {stored(p, t, up) : up \in Synced(now.loader, t, p.token)}
    BY <1>2
  <2> HIDE DEF stored
  <2> QED
    BY <2>1, Zenon
<1> QED
  BY <1>3

\* And of what becomes of the one that is read.
LEMMA ReadParts ==
  ASSUME NEW l, NEW o \in Outcome(Now, l)
  PROVE  \E p \in Parsed(parser, l) : \E t \in Trailed(parser, p, trail) :
           \E up \in Synced(loader, t, p.token) :
             o.parser = p /\ o.trail = t /\ o.loader = up
<1>1. Now.parser = parser /\ Now.trail = trail /\ Now.loader = loader
  BY DEF Now
<1>2. PICK p \in Parsed(parser, l) : \E t \in Trailed(parser, p, trail) :
             \E up \in Synced(loader, t, p.token) :
               \E s \in Extracted(Now.store, up, t, p) :
                 o = [parser |-> p, trail |-> t, loader |-> up, store |-> s]
  BY <1>1, OutcomeParts
<1> QED
  BY <1>2

LEMMA ReaderKeeps == ReaderInv /\ [ReaderNext]_readerVars => ReaderInv'
<1> SUFFICES ASSUME ReaderInv, [ReaderNext]_readerVars PROVE ReaderInv'
  OBVIOUS
<1>1. CASE UNCHANGED <<parser, trail, loader>>
  BY <1>1 DEF ReaderInv
<1>2. ASSUME NEW o \in Outcome(Now, Head(todo)),
             parser' = o.parser, trail' = o.trail, loader' = o.loader
      PROVE  ReaderInv'
  <2>p. PICK p \in Parsed(parser, Head(todo)) : \E t \in Trailed(parser, p, trail) :
          \E up \in Synced(loader, t, p.token) :
            parser' = p /\ trail' = t /\ loader' = up
    BY <1>2, ReadParts
  <2>t. PICK t \in Trailed(parser, p, trail) : \E up \in Synced(loader, t, p.token) :
          parser' = p /\ trail' = t /\ loader' = up
    BY <2>p
  <2>1. PICK up \in Synced(loader, t, p.token) :
          parser' = p /\ trail' = t /\ loader' = up
    BY <2>t
  <2>2. StackOK(p) /\ Follows(parser, p)
    BY ParserStep DEF ReaderInv
  <2>3. /\ TrailOK(p, t.items) /\ Grown(trail.items, t.items)
        /\ p.token # "NO" => Len(t.items) >= 2
    BY <2>2, TrailStep DEF ReaderInv
  <2>4. LoaderOK(t.items, up)
    BY <2>3, LoaderStep DEF ReaderInv
  <2> QED
    BY <2>1, <2>2, <2>3, <2>4 DEF ReaderInv
<1>3. CASE ReadLetter
  BY <1>1, <1>2, <1>3 DEF ReadLetter
<1> QED
  BY <1>1, <1>3 DEF ReaderNext, EndOfText, readerVars

LEMMA KnownBelow == ReaderInv => AddressesKnown
<1> SUFFICES ASSUME ReaderInv PROVE AddressesKnown
  OBVIOUS
<1>1. /\ Len(loader) >= 1 /\ Len(loader) <= Len(trail.items)
      /\ loader[1].node.vtype = "none"
      /\ \A k \in 2..Len(loader) :
           trail.items[k].isItem => loader[k - 1].node.vtype = "ARRAY"
      /\ Len(loader) < Len(trail.items) => loader[Len(loader)].node.vtype \in Scalars
      /\ \E S : loader \in Seq(S)
  BY DEF ReaderInv, LoaderOK
<1>2. parser.token # "NO" => Len(loader) > 1
  <2>1. Len(loader) \in Nat /\ Len(loader) >= 1 /\ "none" \notin Scalars
    BY <1>1 DEF Scalars
  <2>2. parser.token # "NO" => Len(trail.items) >= 2
    BY DEF ReaderInv
  <2>3. CASE Len(loader) = 1
    BY <1>1, <2>1, <2>2, <2>3
  <2>4. ASSUME NEW n \in Nat, n >= 1, n # 1 PROVE n > 1
    BY <2>4
  <2> QED
    BY <2>1, <2>3, <2>4
<1> QED
  BY <1>1, <1>2 DEF AddressesKnown

\* Whatever text is read, saved by spfg_rt_export_json or not, a token is never
\* copied without a part of the specification to copy it by, and the count of an
\* array is only looked for where there is an array.
THEOREM AddressesStayKnown == ReaderSpec => []AddressesKnown
<1>1. ReaderInit => ReaderInv
  BY ReaderStarts
<1>2. ReaderInv /\ [ReaderNext]_readerVars => ReaderInv'
  BY ReaderKeeps
<1>3. ReaderInv => AddressesKnown
  BY KnownBelow
<1> QED
  BY <1>1, <1>2, <1>3, PTL DEF ReaderSpec

-----------------------------------------------------------------------------
(* What a saved text is, letter by letter *)

\* The regions of a saved text, each with the modes that are open in it.
StackOf == [text   |-> <<"DONE">>,
            grid   |-> <<"DONE", "OBJECT">>,
            blocks |-> <<"DONE", "OBJECT", "ARRAY">>,
            block  |-> <<"DONE", "OBJECT", "ARRAY", "OBJECT">>,
            ids    |-> <<"DONE", "OBJECT", "ARRAY", "OBJECT", "ARRAY">>,
            ctl    |-> <<"DONE", "OBJECT", "OBJECT">>]
Objects == {"grid", "block", "ctl"}
Arrays == {"blocks", "ids"}

\* A spot of a saved text: the region, where in it, and the key of the value that
\* comes next.
Spot(region, at, key) == [in |-> region, at |-> at, key |-> key]
Ready(region) == Spot(region, IF region \in Objects THEN "key" ELSE "between", NoKey)
After(region) == Spot(region, "after", NoKey)

\* The region below a key, if it has one, and the spot behind a region.
Below == [fns |-> "blocks", dps |-> "blocks", in_dp_ids |-> "ids", out_dp_ids |-> "ids",
          ctl |-> "ctl"]
Beyond == [grid   |-> Spot("text", "done", NoKey),
           blocks |-> After("grid"),
           block  |-> Ready("blocks"),
           ids    |-> After("block"),
           ctl    |-> After("grid")]

Names == {"name", "fns", "dps", "ctl", "id", "type", "phase", "in_dp_ids", "out_dp_ids",
          "value", "emitted", "curr_fn_idx"}

\* The letters of numbers and words.
Plain == {"digit", "minus", "zero", "tru", "fals", "exp", "plus", "point", "e"}

\* From one spot to the next.  More goes than a saved text has: any value has any key.
InObject(a, l, b) ==
  \E r \in Objects, k \in Names :
    \/ a = Ready(r) /\ l.c = "quote" /\ l.v = k /\ b = Spot(r, "name", k)
    \/ a = Spot(r, "name", k) /\ l.c = "quote" /\ b = Spot(r, "colon", k)
    \/ a = Spot(r, "colon", k) /\ l.c = ":" /\ b = Spot(r, "value", k)
    \/ a = Spot(r, "value", k) /\ l.c = "quote" /\ b = Spot(r, "string", NoKey)
    \/ a = Spot(r, "value", k) /\ l.c \in Plain /\ b = After(r)
    \/ a = Spot(r, "string", NoKey) /\ l.c = "quote" /\ b = After(r)
    \/ a = After(r) /\ l.c \in Plain /\ b = a
    \/ a = After(r) /\ l.c = "," /\ b = Ready(r)
InArray(a, l, b) ==
  \/ a = Ready("blocks") /\ l.c = "," /\ b = a
  \/ a = Ready("ids") /\ l.c \in Plain \cup {","} /\ b = a
Opens(a, l, b) ==
  \/ a = Spot("text", "start", NoKey) /\ l.c = "{" /\ b = Ready("grid")
  \/ a = Ready("blocks") /\ l.c = "{" /\ b = Ready("block")
  \/ \E r \in Objects, k \in DOMAIN Below :
       /\ a = Spot(r, "value", k) /\ Beyond[Below[k]] = After(r)
       /\ l.c = IF Below[k] \in Arrays THEN "[" ELSE "{"
       /\ b = Ready(Below[k])
Closes(a, l, b) ==
  \/ \E r \in Objects : a = After(r) /\ l.c = "}" /\ b = Beyond[r]
  \/ \E r \in Arrays : a = Ready(r) /\ l.c = "]" /\ b = Beyond[r]
Goes(a, l, b) == \/ InObject(a, l, b) \/ InArray(a, l, b)
                 \/ Opens(a, l, b) \/ Closes(a, l, b)

\* The reader itself: all there is of it until a letter is refused, and what stays.
Advances(a, l, b) ==
  \/ a.off /\ b = a
  \/ ~a.off /\ Outcome(a.now, l) = {} /\ b = [now |-> a.now, off |-> TRUE]
  \/ ~a.off /\ \E d : Outcome(a.now, l) = {d} /\ b = [now |-> d, off |-> FALSE]

\* A text that leads from one spot to another, or from one reader to another.
Steps(kind, a, l, b) == IF kind = "spots" THEN Goes(a, l, b) ELSE Advances(a, l, b)
Leads(kind, X, f) == \A k \in 1..Len(X) : Steps(kind, f[k - 1], X[k], f[k])
Path(kind, X, a, b) == /\ \E S : X \in Seq(S)
                       /\ \E f : Leads(kind, X, f) /\ f[0] = a /\ f[Len(X)] = b
Walks(X, a, b) == Path("spots", X, a, b)
Reads(X, a, b) == Path("readers", X, a, b)

\* No letter leads back to where it is.
LEMMA NoStep == ASSUME NEW kind, NEW a PROVE Path(kind, <<>>, a, a)
<1> DEFINE f == [k \in 0..0 |-> a]
<1>1. Leads(kind, <<>>, f) /\ f[0] = a /\ Len(<<>>) = 0
  BY DEF Leads
<1>2. <<>> \in Seq({})
  OBVIOUS
<1> HIDE DEF f
<1> QED
  BY <1>1, <1>2 DEF Path

\* One letter is a path.
LEMMA OneStep ==
  ASSUME NEW kind, NEW l, NEW a, NEW b, Steps(kind, a, l, b)
  PROVE  Path(kind, <<l>>, a, b)
<1> DEFINE f == [k \in 0..1 |-> IF k = 0 THEN a ELSE b]
<1>1. /\ <<l>> \in Seq({l}) /\ Len(<<l>>) = 1 /\ <<l>>[1] = l
      /\ f[0] = a /\ f[1] = b
  OBVIOUS
<1> HIDE DEF f
<1>2. Leads(kind, <<l>>, f)
  BY <1>1 DEF Leads
<1> QED
  BY <1>1, <1>2 DEF Path

\* Paths follow one another.
LEMMA PathsJoin ==
  ASSUME NEW kind, NEW X, NEW Y, NEW a, NEW b, NEW c, Path(kind, X, a, b), Path(kind, Y, b, c)
  PROVE  Path(kind, X \o Y, a, c)
<1>1. PICK S, T : X \in Seq(S) /\ Y \in Seq(T)
  BY DEF Path
<1>2. PICK f, g : /\ Leads(kind, X, f) /\ f[0] = a /\ f[Len(X)] = b
                  /\ Leads(kind, Y, g) /\ g[0] = b /\ g[Len(Y)] = c
  BY DEF Path
<1> DEFINE m == Len(X)
           n == Len(Y)
           h == [k \in 0..m + n |-> IF k <= m THEN f[k] ELSE g[k - m]]
<1>3. X \in Seq(S \cup T) /\ Y \in Seq(S \cup T)
  BY <1>1, SeqMonotonic
<1>4. m \in Nat /\ n \in Nat
  BY <1>3
<1>5. /\ X \o Y \in Seq(S \cup T) /\ Len(X \o Y) = m + n
      /\ \A i \in 1..m + n : (X \o Y)[i] = IF i <= m THEN X[i] ELSE Y[i - m]
  BY <1>3, ConcatProperties
<1>6. h[0] = a /\ h[m + n] = c
  BY <1>2, <1>4
<1>7. ASSUME NEW k \in 1..m + n
      PROVE  Steps(kind, h[k - 1], (X \o Y)[k], h[k])
  <2>1. CASE k <= m
    <3>1. h[k] = f[k] /\ h[k - 1] = f[k - 1] /\ (X \o Y)[k] = X[k] /\ k \in 1..Len(X)
      BY <1>4, <1>5, <1>7, <2>1
    <3> HIDE DEF h
    <3> QED
      BY <1>2, <3>1 DEF Leads
  <2>2. CASE ~(k <= m)
    <3>1. /\ h[k] = g[k - m] /\ (X \o Y)[k] = Y[k - m] /\ k - m \in 1..Len(Y)
          /\ h[k - 1] = g[k - m - 1]
      <4>1. CASE k - 1 = m
        BY <1>2, <1>4, <1>5, <1>7, <2>2, <4>1
      <4>2. CASE k - 1 # m
        BY <1>4, <1>5, <1>7, <2>2, <4>2
      <4> QED
        BY <4>1, <4>2
    <3> HIDE DEF h
    <3> QED
      BY <1>2, <3>1 DEF Leads
  <2> QED
    BY <2>1, <2>2
<1> HIDE DEF h
<1>8. Leads(kind, X \o Y, h) /\ h[Len(X \o Y)] = c
  BY <1>5, <1>6, <1>7 DEF Leads
<1> QED
  BY <1>5, <1>6, <1>8 DEF Path

\* The path goes on from behind the first letter.
LEMMA PathOn ==
  ASSUME NEW kind, NEW X, NEW a, NEW b, Path(kind, X, a, b), X # <<>>
  PROVE  \E c : Steps(kind, a, Head(X), c) /\ Path(kind, Tail(X), c, b)
<1>1. PICK S : X \in Seq(S)
  BY DEF Path
<1>2. PICK f : Leads(kind, X, f) /\ f[0] = a /\ f[Len(X)] = b
  BY DEF Path
<1>3. Len(X) \in Nat /\ Len(X) >= 1
  BY <1>1
<1>4. /\ Head(X) = X[1] /\ Tail(X) \in Seq(S) /\ Len(Tail(X)) = Len(X) - 1
      /\ \A i \in 1..Len(X) - 1 : Tail(X)[i] = X[i + 1]
  BY <1>1, HeadTailProperties
<1> DEFINE g == [k \in 0..Len(X) - 1 |-> f[k + 1]]
<1>5. g[0] = f[1] /\ g[Len(Tail(X))] = b
  BY <1>2, <1>3, <1>4
<1>6. \A k \in 1..Len(X) - 1 : Steps(kind, g[k - 1], Tail(X)[k], g[k])
  <2> TAKE k \in 1..Len(X) - 1
  <2>1. g[k - 1] = f[k] /\ g[k] = f[k + 1] /\ Tail(X)[k] = X[k + 1] /\ k + 1 \in 1..Len(X)
    BY <1>3, <1>4
  <2>2. Steps(kind, f[k + 1 - 1], X[k + 1], f[k + 1]) /\ k + 1 - 1 = k
    BY <1>2, <1>3, <2>1 DEF Leads
  <2> HIDE DEF g
  <2> QED
    BY <2>1, <2>2
<1>7. Steps(kind, a, X[1], f[1])
  <2>1. 1 \in 1..Len(X) /\ 1 - 1 = 0
    BY <1>3
  <2>2. Steps(kind, f[1 - 1], X[1], f[1])
    BY <1>2, <2>1 DEF Leads
  <2> QED
    BY <1>2, <2>1, <2>2
<1> HIDE DEF g
<1>8. Path(kind, Tail(X), f[1], b)
  BY <1>4, <1>5, <1>6 DEF Path, Leads
<1> QED
  BY <1>4, <1>7, <1>8

\* Two letters are a path.
LEMMA TwoSteps ==
  ASSUME NEW kind, NEW l, NEW m, NEW a, NEW b, NEW c, Steps(kind, a, l, b), Steps(kind, b, m, c)
  PROVE  Path(kind, <<l, m>>, a, c)
<1>1. <<l, m>> = <<l>> \o <<m>>
  <2>1. <<l>> \in Seq({l, m}) /\ <<l, m>> = Append(<<l>>, m)
    OBVIOUS
  <2> QED
    BY <2>1, AppendIsConcat
<1> QED
  BY <1>1, OneStep, PathsJoin

\* The same for walks over the spots.
LEMMA NoLetter == ASSUME NEW a PROVE Walks(<<>>, a, a)
BY NoStep DEF Walks

LEMMA OneLetter ==
  ASSUME NEW l, NEW a, NEW b, Goes(a, l, b)
  PROVE  Walks(<<l>>, a, b)
BY OneStep DEF Walks, Steps

LEMMA TwoLetters ==
  ASSUME NEW l, NEW m, NEW a, NEW b, NEW c, Goes(a, l, b), Goes(b, m, c)
  PROVE  Walks(<<l, m>>, a, c)
BY TwoSteps DEF Walks, Steps

LEMMA Glue ==
  ASSUME NEW X, NEW Y, NEW a, NEW b, NEW c, Walks(X, a, b), Walks(Y, b, c)
  PROVE  Walks(X \o Y, a, c)
BY PathsJoin DEF Walks

LEMMA WalkOn ==
  ASSUME NEW X, NEW a, NEW b, Walks(X, a, b), X # <<>>
  PROVE  \E c : Goes(a, Head(X), c) /\ Walks(Tail(X), c, b)
BY PathOn DEF Walks, Steps

-----------------------------------------------------------------------------
(* Texts of many parts *)

\* Of the numbers in a set there is a least one.
LEMMA Least ==
  ASSUME NEW T \in SUBSET Nat, T # {}
  PROVE  \E x \in T : \A y \in T : x <= y
<1>1. \E x \in T : \A y \in T : ~(<<y, x>> \in OpToRel(<, Nat))
  BY NatLessThanWellFounded, WFMin
<1>2. \E x \in T : \A y \in T : ~(y < x)
  BY <1>1 DEF OpToRel
<1> QED
  BY <1>2

Glued(seqs, flat) ==
  flat = [i \in 1..Len(seqs) |-> IF i = 1 THEN seqs[i] ELSE flat[i - 1] \o seqs[i]]

\* However many pieces there are, there is what they make when put together.
LEMMA GluedExists ==
  ASSUME NEW S, NEW seqs \in Seq(S)
  PROVE  \E flat : Glued(seqs, flat)
<1> DEFINE P(k) == \E f : f = [i \in 1..k |-> IF i = 1 THEN seqs[i] ELSE f[i - 1] \o seqs[i]]
           bad == {k \in 0..Len(seqs) : ~P(k)}
<1>0. Len(seqs) \in Nat
  OBVIOUS
<1>1. P(0)
  <2> DEFINE f == [i \in 1..0 |-> seqs[i]]
  <2>1. f = [i \in 1..0 |-> IF i = 1 THEN seqs[i] ELSE f[i - 1] \o seqs[i]]
    OBVIOUS
  <2> HIDE DEF f
  <2> QED
    BY <2>1
<1>2. ASSUME NEW k \in Nat, P(k)
      PROVE  P(k + 1)
  <2>1. PICK f : f = [i \in 1..k |-> IF i = 1 THEN seqs[i] ELSE f[i - 1] \o seqs[i]]
    BY <1>2
  <2> DEFINE last == IF k = 0 THEN seqs[1] ELSE f[k] \o seqs[k + 1]
             g == [i \in 1..k + 1 |-> IF i = k + 1 THEN last ELSE f[i]]
  <2>2. ASSUME NEW i \in 1..k + 1
        PROVE  g[i] = IF i = 1 THEN seqs[i] ELSE g[i - 1] \o seqs[i]
    <3>1. CASE i = k + 1
      <4>1. g[i] = last /\ (i = 1 <=> k = 0) /\ (i # 1 => g[i - 1] = f[k])
        BY <1>2, <3>1
      <4> HIDE DEF g
      <4> QED
        BY <3>1, <4>1
    <3>2. CASE i # k + 1
      <4>1. i \in 1..k /\ g[i] = f[i] /\ (i # 1 => g[i - 1] = f[i - 1])
        BY <1>2, <3>2
      <4> HIDE DEF g
      <4> QED
        BY <2>1, <4>1
    <3> QED
      BY <3>1, <3>2
  <2>3. g = [i \in 1..k + 1 |-> g[i]]
    OBVIOUS
  <2> HIDE DEF g
  <2>4. g = [i \in 1..k + 1 |-> IF i = 1 THEN seqs[i] ELSE g[i - 1] \o seqs[i]]
    BY <2>2, <2>3
  <2> QED
    BY <2>4
<1> HIDE DEF P
<1>3. bad = {}
  <2> SUFFICES ASSUME bad # {} PROVE FALSE
    OBVIOUS
  <2>0. bad \in SUBSET Nat
    OBVIOUS
  <2>1. PICK x \in bad : \A y \in bad : x <= y
    BY <2>0, Least
  <2>2. x \in 0..Len(seqs) /\ ~P(x)
    OBVIOUS
  <2>3. x # 0
    BY <1>1, <2>2
  <2>4. x - 1 \in 0..Len(seqs) /\ x - 1 + 1 = x /\ x - 1 \in Nat
    BY <1>0, <2>2, <2>3
  <2>5. P(x - 1)
    BY <2>1, <2>2, <2>4
  <2> QED
    BY <1>2, <2>2, <2>4, <2>5
<1>4. Len(seqs) \in 0..Len(seqs)
  BY <1>0
<1>5. P(Len(seqs))
  BY <1>3, <1>4
<1> QED
  BY <1>5 DEF P, Glued

\* FlattenSeq puts its pieces together.
LEMMA FlatIsGlued ==
  ASSUME NEW S, NEW seqs \in Seq(S), Len(seqs) # 0
  PROVE  \E flat : Glued(seqs, flat) /\ FlattenSeq(seqs) = flat[Len(seqs)]
<1> DEFINE flatten == CHOOSE flat : Glued(seqs, flat)
<1>1. Glued(seqs, flatten)
  BY GluedExists
<1>2. FlattenSeq(seqs) = flatten[Len(seqs)]
  BY Zenon DEF FlattenSeq, Glued
<1> QED
  BY <1>1, <1>2

\* A function on 1..n is a sequence of its values.
LEMMA PiecesAreSeq ==
  ASSUME NEW n \in Nat, NEW parts, parts = [k \in 1..n |-> parts[k]]
  PROVE  parts \in Seq({parts[k] : k \in 1..n}) /\ Len(parts) = n
<1> DEFINE S == {parts[k] : k \in 1..n}
<1>1. parts \in Seq(S) /\ Len(parts) = n
  OBVIOUS
<1> QED
  BY <1>1

\* A text in pieces leads on when each piece does.
LEMMA FlatWalks ==
  ASSUME NEW n \in Nat, NEW parts, parts = [k \in 1..n |-> parts[k]], NEW a,
         \A k \in 1..n : Walks(parts[k], a, a)
  PROVE  Walks(FlattenSeq(parts), a, a)
<1> DEFINE S == {parts[k] : k \in 1..n}
<1>1. parts \in Seq(S) /\ Len(parts) = n
  BY PiecesAreSeq
<1>2. CASE n = 0
  <2>1. FlattenSeq(parts) = <<>>
    BY <1>1, <1>2 DEF FlattenSeq
  <2> QED
    BY <2>1, NoLetter
<1>3. CASE n # 0
  <2>1. PICK flat : Glued(parts, flat) /\ FlattenSeq(parts) = flat[n]
    BY <1>1, <1>3, FlatIsGlued
  <2> DEFINE bad == {k \in 1..n : ~Walks(flat[k], a, a)}
  <2>2. \A k \in 1..n : flat[k] = IF k = 1 THEN parts[k] ELSE flat[k - 1] \o parts[k]
    BY <1>1, <2>1 DEF Glued
  <2>3. bad = {}
    <3> SUFFICES ASSUME bad # {} PROVE FALSE
      OBVIOUS
    <3>0. bad \in SUBSET Nat
      OBVIOUS
    <3>1. PICK x \in bad : \A y \in bad : x <= y
      BY <3>0, Least
    <3>2. x \in 1..n /\ ~Walks(flat[x], a, a) /\ Walks(parts[x], a, a)
      OBVIOUS
    <3>3. x # 1
      BY <2>2, <3>2
    <3>4. x - 1 \in 1..n /\ x - 1 \notin bad
      BY <3>1, <3>2, <3>3
    <3>5. Walks(flat[x - 1], a, a)
      BY <3>4
    <3>6. flat[x] = flat[x - 1] \o parts[x]
      BY <2>2, <3>2, <3>3
    <3> QED
      BY <3>2, <3>5, <3>6, Glue
  <2> QED
    BY <1>3, <2>1, <2>3
<1> QED
  BY <1>2, <1>3

-----------------------------------------------------------------------------
(* The text of a document *)

\* Where a value made of plain letters may stand.
Takes(a, b) == \A l : l.c \in Plain => Goes(a, l, b) /\ Goes(b, l, b)

\* A number or word can be the value of a member.
LEMMA ValueTakes ==
  ASSUME NEW r \in Objects, NEW k \in Names
  PROVE  Takes(Spot(r, "value", k), After(r))
BY DEF Takes, Goes, InObject

\* And an item of an array of ids.
LEMMA IdsTake == Takes(Ready("ids"), Ready("ids"))
BY DEF Takes, Goes, InArray

\* Numbers and words are walks that stay plain.
LEMMA PlainWalks ==
  ASSUME NEW a, NEW b, Takes(a, b)
  PROVE  /\ \A n : Walks(Number(n), a, b)
         /\ \A x : Walks(Code(x), a, b)
         /\ \A x : Walks(Word(x), a, b)
         /\ \A n : Walks(RealText(n), a, b)
         /\ \A p : Walks(PhaseText(p), a, b)
<1>1. ASSUME NEW c \in Plain, NEW v
      PROVE  LET l == [c |-> c, v |-> v]
             IN  Goes(a, l, b) /\ Goes(b, l, b)
  BY DEF Takes
<1>2. ASSUME NEW c \in Plain, NEW v
      PROVE  Walks(<<[c |-> c, v |-> v]>>, a, b)
  BY <1>1, OneLetter
<1>3. ASSUME NEW c \in Plain, NEW v, NEW d \in Plain
      PROVE  Walks(<<[c |-> c, v |-> v], Mark(d)>>, a, b)
  BY <1>1, TwoLetters DEF Mark
<1>4. ASSUME NEW c \in Plain
      PROVE  Goes(b, Mark(c), b)
  BY <1>1 DEF Mark
<1>5. \A n : Walks(Number(n), a, b)
  <2> TAKE n
  <2>1. \/ Number(n) = <<[c |-> "zero", v |-> 0]>>
        \/ Number(n) = <<[c |-> "minus", v |-> n], Mark("digit")>>
        \/ Number(n) = <<[c |-> "digit", v |-> n]>>
    BY Zenon DEF Number
  <2> QED
    BY <1>2, <1>3, <2>1 DEF Plain
<1>6. \A x : Walks(Code(x), a, b)
  BY <1>2 DEF Code, Plain
<1>7. \A x : Walks(Word(x), a, b)
  <2> TAKE x
  <2>1. \/ Word(x) = <<[c |-> "tru", v |-> 0], Mark("e")>>
        \/ Word(x) = <<[c |-> "fals", v |-> 0], Mark("e")>>
    BY Zenon DEF Word
  <2> QED
    BY <1>3, <2>1 DEF Plain
<1>8. \A n : Walks(RealText(n), a, b)
  <2> TAKE n
  <2>1. Walks(Number(n) \o <<Mark("point"), Mark("digit")>>, a, b)
    <3>1. Walks(<<Mark("point"), Mark("digit")>>, b, b)
      BY <1>4, TwoLetters DEF Plain
    <3> QED
      BY <1>5, <3>1, Glue
  <2>2. Walks(Number(n) \o <<Mark("exp"), Mark("plus"), Mark("digit")>>, a, b)
    <3>1. Walks(<<Mark("exp")>>, b, b) /\ Walks(<<Mark("plus"), Mark("digit")>>, b, b)
      BY <1>4, OneLetter, TwoLetters DEF Plain
    <3>2. <<Mark("exp"), Mark("plus"), Mark("digit")>>
          = <<Mark("exp")>> \o <<Mark("plus"), Mark("digit")>>
      OBVIOUS
    <3>3. Walks(<<Mark("exp"), Mark("plus"), Mark("digit")>>, b, b)
      BY <3>1, <3>2, Glue
    <3> QED
      BY <1>5, <3>3, Glue
  <2> QED
    BY <1>5, <2>1, <2>2, Zenon DEF RealText
<1>9. \A p : Walks(PhaseText(p), a, b)
  BY <1>5, Zenon DEF PhaseText
<1> QED
  BY <1>5, <1>6, <1>7, <1>8, <1>9

\* A text in quotes as the value of a member.
LEMMA StrWalks ==
  ASSUME NEW r \in Objects, NEW k \in Names
  PROVE  /\ Walks(Key(k), Ready(r), Spot(r, "value", k))
         /\ \A x : Walks(Str(x), Spot(r, "value", k), After(r))
<1>1. \A x : Quote(x).c = "quote" /\ Quote(x).v = x
  BY DEF Quote
<1>2. /\ Goes(Ready(r), Quote(k), Spot(r, "name", k))
      /\ Goes(Spot(r, "name", k), Quote(Unknown), Spot(r, "colon", k))
      /\ Goes(Spot(r, "colon", k), Mark(":"), Spot(r, "value", k))
  <2>1. /\ InObject(Ready(r), Quote(k), Spot(r, "name", k))
        /\ InObject(Spot(r, "name", k), Quote(Unknown), Spot(r, "colon", k))
    BY <1>1 DEF InObject
  <2>2. InObject(Spot(r, "colon", k), Mark(":"), Spot(r, "value", k))
    <3>1. Mark(":").c = ":"
      BY DEF Mark
    <3> QED
      BY <3>1 DEF InObject
  <2> QED
    BY <2>1, <2>2 DEF Goes
<1>3. Walks(Key(k), Ready(r), Spot(r, "value", k))
  <2>1. Key(k) = <<Quote(k), Quote(Unknown)>> \o <<Mark(":")>>
    BY AppendIsConcat DEF Key, Str
  <2> QED
    BY <1>2, <2>1, OneLetter, TwoLetters, Glue
<1>4. \A x : Walks(Str(x), Spot(r, "value", k), After(r))
  <2> TAKE x
  <2>1. InObject(Spot(r, "value", k), Quote(x), Spot(r, "string", NoKey))
    BY <1>1 DEF InObject
  <2>2. InObject(Spot(r, "string", NoKey), Quote(Unknown), After(r))
    BY <1>1 DEF InObject
  <2> QED
    BY <2>1, <2>2, TwoLetters DEF Goes, Str
<1> QED
  BY <1>3, <1>4

\* A key and what follows it.
LEMMA Member ==
  ASSUME NEW r \in Objects, NEW k \in Names, NEW Y,
         Walks(Y, Spot(r, "value", k), After(r))
  PROVE  /\ Walks(Key(k) \o Y, Ready(r), After(r))
         /\ \A X, a : Walks(X, a, After(r)) => Walks(X \o Comma1 \o Key(k) \o Y, a, After(r))
<1>1. Walks(Comma1, After(r), Ready(r))
  <2>1. InObject(After(r), Mark(","), Ready(r))
    <3>1. Mark(",").c = ","
      BY DEF Mark
    <3> QED
      BY <3>1 DEF InObject
  <2> QED
    BY <2>1, OneLetter DEF Goes, Comma1, CommaIf
<1>2. Walks(Key(k), Ready(r), Spot(r, "value", k))
  BY StrWalks
<1>3. ASSUME NEW X, NEW a, Walks(X, a, After(r))
      PROVE  Walks(X \o Comma1 \o Key(k) \o Y, a, After(r))
  <2>1. Walks(X \o Comma1, a, Ready(r))
    BY <1>1, <1>3, Glue
  <2>2. Walks(X \o Comma1 \o Key(k), a, Spot(r, "value", k))
    BY <1>2, <2>1, Glue
  <2> QED
    BY <2>2, Glue
<1> QED
  BY <1>2, <1>3, Glue

\* What is in braces or brackets leads from the region around to the spot beyond.
LEMMA Enclosed ==
  ASSUME NEW X, NEW a, NEW b, NEW c, NEW d, Walks(X, b, c)
  PROVE  /\ Opens(a, Mark("{"), b) /\ Closes(c, Mark("}"), d) => Walks(Braces(X), a, d)
         /\ Opens(a, Mark("["), b) /\ Closes(c, Mark("]"), d) => Walks(Brackets(X), a, d)
<1>1. ASSUME NEW l, NEW m, Opens(a, l, b), Closes(c, m, d)
      PROVE  Walks(<<l>> \o X \o <<m>>, a, d)
  <2>1. Walks(<<l>> \o X, a, c)
    BY <1>1, OneLetter, Glue DEF Goes
  <2> QED
    BY <1>1, <2>1, OneLetter, Glue DEF Goes
<1> QED
  BY <1>1 DEF Braces, Brackets

LEMMA Marks == \A c : Mark(c).c = c
BY DEF Mark

\* An array below a key, of parts that lead from one item to the next.
LEMMA ListWalks ==
  ASSUME NEW o \in Objects, NEW k \in DOMAIN Below, NEW r, r = Below[k], r \in Arrays,
         Beyond[r] = After(o),
         NEW n \in Nat, NEW parts, parts = [i \in 1..n |-> parts[i]],
         \A i \in 1..n : Walks(parts[i], Ready(r), Ready(r))
  PROVE  Walks(Brackets(FlattenSeq(parts)), Spot(o, "value", k), After(o))
<1>1. Walks(FlattenSeq(parts), Ready(r), Ready(r))
  BY FlatWalks
<1>2. Opens(Spot(o, "value", k), Mark("["), Ready(r))
  BY Marks DEF Opens
<1>3. Closes(Ready(r), Mark("]"), Beyond[r])
  BY Marks DEF Closes
<1> QED
  BY <1>1, <1>2, <1>3, Enclosed

\* An item and the comma after it, if there is one.
LEMMA ItemWalks ==
  ASSUME NEW r \in Arrays, NEW X, Walks(X, Ready(r), Ready(r)), NEW comma
  PROVE  Walks(X \o CommaIf(comma), Ready(r), Ready(r))
<1>1. InArray(Ready(r), Mark(","), Ready(r))
  BY Marks DEF InArray, Arrays
<1>2. Walks(CommaIf(comma), Ready(r), Ready(r))
  <2>1. CASE CommaIf(comma) = <<Mark(",")>>
    BY <1>1, <2>1, OneLetter DEF Goes
  <2>2. CASE CommaIf(comma) = <<>>
    BY <2>2, NoLetter
  <2> QED
    BY <2>1, <2>2, Zenon DEF CommaIf
<1> QED
  BY <1>2, Glue

\* An array of ids.
LEMMA IdsWalks ==
  ASSUME NEW k \in {"in_dp_ids", "out_dp_ids"}, NEW ids \in Seq(Int)
  PROVE  Walks(IdsText(ids), Spot("block", "value", k), After("block"))
<1> DEFINE part(i) == Number(ids[i]) \o CommaIf(i < Len(ids))
           n == Len(ids)
           parts == [i \in 1..n |-> part(i)]
<1>1. n \in Nat /\ DOMAIN ids = 1..n
  OBVIOUS
<1>2. \A i : Walks(part(i), Ready("ids"), Ready("ids"))
  BY IdsTake, PlainWalks, ItemWalks DEF Arrays
<1>3. parts = [i \in 1..n |-> parts[i]] /\ \A i \in 1..n : parts[i] = part(i)
  OBVIOUS
<1>4. IdsText(ids) = Brackets(FlattenSeq(parts))
  BY <1>1 DEF IdsText
<1>5. /\ k \in DOMAIN Below /\ Below[k] = "ids" /\ "ids" \in Arrays
      /\ Beyond["ids"] = After("block") /\ "block" \in Objects
  BY DEF Below, Arrays, Beyond, Objects
<1> HIDE DEF n, parts, part
<1>6. \A i \in 1..n : Walks(parts[i], Ready("ids"), Ready("ids"))
  BY <1>2, <1>3
<1> QED
  BY <1>1, <1>3, <1>4, <1>5, <1>6, ListWalks

\* A block of a function.
LEMMA FnWalks ==
  ASSUME NEW fn, fn.in \in Seq(Int), fn.out \in Seq(Int)
  PROVE  Walks(FnText(fn), Ready("blocks"), Ready("blocks"))
<1> DEFINE r == "block"
           Fits(X) == Walks(X, Ready(r), After(r))
           Value(k, Y) == Walks(Y, Spot(r, "value", k), After(r))
<1>1. /\ r \in Objects
      /\ "id" \in Names /\ "name" \in Names /\ "type" \in Names /\ "phase" \in Names
      /\ "in_dp_ids" \in Names /\ "out_dp_ids" \in Names
  BY DEF Objects, Names
<1>2. /\ Value("id", Number(fn.id)) /\ Value("name", Str("f"))
      /\ Value("type", Number(fn.type)) /\ Value("phase", PhaseText(fn.phase))
  BY <1>1, ValueTakes, PlainWalks, StrWalks
<1>3. Value("in_dp_ids", IdsText(fn.in)) /\ Value("out_dp_ids", IdsText(fn.out))
  BY IdsWalks
<1> DEFINE X1 == Key("id") \o Number(fn.id)
           X2 == X1 \o Comma1 \o Key("name") \o Str("f")
           X3 == X2 \o Comma1 \o Key("type") \o Number(fn.type)
           X4 == X3 \o Comma1 \o Key("phase") \o PhaseText(fn.phase)
           X5 == X4 \o Comma1 \o Key("in_dp_ids") \o IdsText(fn.in)
           X6 == X5 \o Comma1 \o Key("out_dp_ids") \o IdsText(fn.out)
<1>4. ASSUME NEW k \in Names, NEW Y, Value(k, Y)
      PROVE  /\ Fits(Key(k) \o Y)
             /\ \A X : Fits(X) => Fits(X \o Comma1 \o Key(k) \o Y)
  BY <1>1, <1>4, Member
<1> HIDE DEF r, Fits, Value
<1>5. Fits(X1) /\ Fits(X2) /\ Fits(X3)
  BY <1>1, <1>2, <1>4
<1>6. Fits(X4) /\ Fits(X5) /\ Fits(X6)
  <2> HIDE DEF X3
  <2> QED
    BY <1>1, <1>2, <1>3, <1>4, <1>5
<1>7. FnText(fn) = Braces(X6)
  BY DEF FnText
<1>8. /\ Opens(Ready("blocks"), Mark("{"), Ready("block"))
      /\ Closes(After("block"), Mark("}"), Ready("blocks"))
  BY Marks DEF Opens, Closes, Beyond, Objects
<1> HIDE DEF X6
<1> QED
  BY <1>6, <1>7, <1>8, Enclosed DEF Fits, r

\* A block of a datapoint.
LEMMA DpWalks ==
  ASSUME NEW dp, dp.type \in DpTypes
  PROVE  Walks(DpText(dp), Ready("blocks"), Ready("blocks"))
<1> DEFINE r == "block"
           Fits(X) == Walks(X, Ready(r), After(r))
           Value(k, Y) == Walks(Y, Spot(r, "value", k), After(r))
<1>1. /\ r \in Objects
      /\ "id" \in Names /\ "name" \in Names /\ "type" \in Names /\ "value" \in Names
      /\ "emitted" \in Names
  BY DEF Objects, Names
<1>2. /\ Value("id", Number(dp.id)) /\ Value("name", Str("d"))
      /\ Value("type", Code(dp.type)) /\ Value("emitted", Word(dp.emitted))
  BY <1>1, ValueTakes, PlainWalks, StrWalks
<1>3. Value("value", ValueText(dp))
  <2>1. \/ ValueText(dp) = Number(dp.value[2])
        \/ ValueText(dp) = RealText(dp.value[2])
        \/ ValueText(dp) = Word(dp.value[2] # 0)
    BY DEF ValueText, DpTypes
  <2> QED
    BY <1>1, <2>1, ValueTakes, PlainWalks
<1> DEFINE X1 == Key("id") \o Number(dp.id)
           X2 == X1 \o Comma1 \o Key("name") \o Str("d")
           X3 == X2 \o Comma1 \o Key("type") \o Code(dp.type)
           X4 == X3 \o Comma1 \o Key("value") \o ValueText(dp)
           X5 == X4 \o Comma1 \o Key("emitted") \o Word(dp.emitted)
<1>4. ASSUME NEW k \in Names, NEW Y, Value(k, Y)
      PROVE  /\ Fits(Key(k) \o Y)
             /\ \A X : Fits(X) => Fits(X \o Comma1 \o Key(k) \o Y)
  BY <1>1, <1>4, Member
<1> HIDE DEF r, Fits, Value
<1>5. Fits(X1) /\ Fits(X2) /\ Fits(X3)
  BY <1>1, <1>2, <1>4
<1>6. Fits(X4) /\ Fits(X5)
  <2> HIDE DEF X3
  <2> QED
    BY <1>1, <1>2, <1>3, <1>4, <1>5
<1>7. DpText(dp) = Braces(X5)
  BY DEF DpText
<1>8. /\ Opens(Ready("blocks"), Mark("{"), Ready("block"))
      /\ Closes(After("block"), Mark("}"), Ready("blocks"))
  BY Marks DEF Opens, Closes, Beyond, Objects
<1> HIDE DEF X5
<1> QED
  BY <1>6, <1>7, <1>8, Enclosed DEF Fits, r

\* An array of blocks of any length.
LEMMA ItemsWalk ==
  ASSUME NEW k \in {"fns", "dps"}, NEW B, NEW items \in ItemsOf(B),
         NEW texts, \A i \in 1..Len(items) : Walks(texts[i], Ready("blocks"), Ready("blocks"))
  PROVE  Walks(ItemsText(items, texts), Spot("grid", "value", k), After("grid"))
<1> DEFINE part(i) == texts[i] \o CommaIf(items[i].comma)
           n == Len(items)
           parts == [i \in 1..n |-> part(i)]
<1>1. n \in Nat /\ DOMAIN items = 1..n
  BY DEF ItemsOf
<1>2. \A i \in 1..n : Walks(part(i), Ready("blocks"), Ready("blocks"))
  BY ItemWalks DEF Arrays
<1>3. parts = [i \in 1..n |-> parts[i]] /\ \A i \in 1..n : parts[i] = part(i)
  OBVIOUS
<1>4. ItemsText(items, texts) = Brackets(FlattenSeq(parts))
  BY <1>1 DEF ItemsText
<1>5. /\ k \in DOMAIN Below /\ Below[k] = "blocks" /\ "blocks" \in Arrays
      /\ Beyond["blocks"] = After("grid") /\ "grid" \in Objects
  BY DEF Below, Arrays, Beyond, Objects
<1> HIDE DEF n, parts, part
<1>6. \A i \in 1..n : Walks(parts[i], Ready("blocks"), Ready("blocks"))
  BY <1>2, <1>3
<1> QED
  BY <1>1, <1>3, <1>4, <1>5, <1>6, ListWalks

\* A saved text leads from its start to its end.
LEMMA TextWalks ==
  ASSUME NEW d \in Docs
  PROVE  Walks(Text(d), Spot("text", "start", NoKey), Spot("text", "done", NoKey))
<1> DEFINE r == "grid"
           Fits(X) == Walks(X, Ready(r), After(r))
           Value(k, Y) == Walks(Y, Spot(r, "value", k), After(r))
           fnTexts == [k \in DOMAIN d.fns |-> FnText(d.fns[k].block)]
           dpTexts == [k \in DOMAIN d.dps |-> DpText(d.dps[k].block)]
<1>1. /\ r \in Objects /\ "ctl" \in Objects
      /\ "name" \in Names /\ "fns" \in Names /\ "dps" \in Names /\ "ctl" \in Names
      /\ "curr_fn_idx" \in Names
  BY DEF Objects, Names
<1>2. d.fns \in ItemsOf(DocFns) /\ d.dps \in ItemsOf(DocDps)
  BY DocsAssumption
<1>3. ASSUME NEW B, NEW items \in ItemsOf(B), NEW i \in 1..Len(items)
      PROVE  items[i].block \in B
  <2> DEFINE S == [block: B, comma: BOOLEAN]
  <2>1. items \in Seq(S)
    BY <1>3 DEF ItemsOf
  <2>2. items[i] \in S
    <3> HIDE DEF S
    <3> QED
      BY <2>1
  <2> QED
    BY <2>2
<1>4. Value("fns", ItemsText(d.fns, fnTexts))
  <2>1. DOMAIN d.fns = 1..Len(d.fns)
    BY <1>2 DEF ItemsOf
  <2>2. ASSUME NEW i \in 1..Len(d.fns)
        PROVE  Walks(fnTexts[i], Ready("blocks"), Ready("blocks"))
    <3>1. d.fns[i].block \in DocFns
      BY <1>2, <1>3
    <3>2. fnTexts[i] = FnText(d.fns[i].block)
      BY <2>1
    <3> HIDE DEF fnTexts
    <3> QED
      BY <3>1, <3>2, FnWalks DEF DocFns, IdArrays
  <2> HIDE DEF fnTexts
  <2> QED
    BY <1>2, <2>2, ItemsWalk
<1>5. Value("dps", ItemsText(d.dps, dpTexts))
  <2>1. DOMAIN d.dps = 1..Len(d.dps)
    BY <1>2 DEF ItemsOf
  <2>2. ASSUME NEW i \in 1..Len(d.dps)
        PROVE  Walks(dpTexts[i], Ready("blocks"), Ready("blocks"))
    <3>1. d.dps[i].block \in DocDps
      BY <1>2, <1>3
    <3>2. dpTexts[i] = DpText(d.dps[i].block)
      BY <2>1
    <3> HIDE DEF dpTexts
    <3> QED
      BY <3>1, <3>2, DpWalks DEF DocDps
  <2> HIDE DEF dpTexts
  <2> QED
    BY <1>2, <2>2, ItemsWalk
<1> DEFINE C == Braces(Key("curr_fn_idx") \o Number(d.cur))
<1>6. Value("ctl", C)
  <2>1. Walks(Key("curr_fn_idx") \o Number(d.cur), Ready("ctl"), After("ctl"))
    BY <1>1, ValueTakes, PlainWalks, Member
  <2>2. /\ Opens(Spot(r, "value", "ctl"), Mark("{"), Ready("ctl"))
        /\ Closes(After("ctl"), Mark("}"), After(r))
    BY <1>1, Marks DEF Opens, Closes, Below, Arrays, Beyond
  <2> QED
    BY <2>1, <2>2, Enclosed
<1>7. Value("name", Str("g"))
  BY <1>1, StrWalks
<1> DEFINE X1 == Key("name") \o Str("g")
           X2 == X1 \o Comma1 \o Key("fns") \o ItemsText(d.fns, fnTexts)
           X3 == X2 \o Comma1 \o Key("dps") \o ItemsText(d.dps, dpTexts)
           X4 == X3 \o Comma1 \o Key("ctl") \o C
<1>8. ASSUME NEW k \in Names, NEW Y, Value(k, Y)
      PROVE  /\ Fits(Key(k) \o Y)
             /\ \A X : Fits(X) => Fits(X \o Comma1 \o Key(k) \o Y)
  BY <1>1, <1>8, Member
<1>9. Text(d) = Braces(X4)
  BY DEF Text
<1> HIDE DEF r, Fits, Value, fnTexts, dpTexts, C
<1>10. Fits(X1) /\ Fits(X2) /\ Fits(X3) /\ Fits(X4)
  BY <1>1, <1>4, <1>5, <1>6, <1>7, <1>8
<1>11. /\ Opens(Spot("text", "start", NoKey), Mark("{"), Ready("grid"))
       /\ Closes(After("grid"), Mark("}"), Spot("text", "done", NoKey))
  BY Marks DEF Opens, Closes, Beyond, Objects
<1> HIDE DEF X4
<1> QED
  BY <1>9, <1>10, <1>11, Enclosed DEF Fits, r

-----------------------------------------------------------------------------
(* The parser on a saved text *)

\* What a letter does to the parser: it goes on in the lexeme or starts one, or one
\* of the rules lets it through.
LEMMA Turns ==
  ASSUME NEW p, NEW l, NEW q \in Parsed(p, l), p.state = "ST" => l.c = "quote"
  PROVE  /\ q.token = Token(p.state, q.state)
         /\ \/ /\ p.state \in DOMAIN Moves /\ l.c \in DOMAIN Moves[p.state]
               /\ q.state = Moves[p.state][l.c] /\ q.stack = p.stack
               /\ q.lex = IF p.state \in {"OB", "KE", "VA", "AR"} THEN l.v ELSE p.lex
            \/ /\ q.lex = p.lex
               /\ ~(p.state \in DOMAIN Moves /\ l.c \in DOMAIN Moves[p.state])
               /\ \E r \in Structured(p, l.c) : q.state = r.to /\ q.stack = r.stack
<1>1. CASE p.state \in DOMAIN Moves /\ l.c \in DOMAIN Moves[p.state]
  <2> DEFINE to == Moves[p.state][l.c]
  <2>1. q = [state |-> to, stack |-> p.stack, token |-> Token(p.state, to),
             lex |-> IF p.state \in {"OB", "KE", "VA", "AR"} THEN l.v ELSE p.lex]
    BY <1>1, Zenon DEF Parsed
  <2> HIDE DEF to
  <2>2. q.state = to /\ q.stack = p.stack /\ q.token = Token(p.state, to)
        /\ q.lex = IF p.state \in {"OB", "KE", "VA", "AR"} THEN l.v ELSE p.lex
    BY <2>1
  <2> QED
    BY <1>1, <2>2 DEF to
<1>2. CASE ~(p.state \in DOMAIN Moves /\ l.c \in DOMAIN Moves[p.state])
  <2>1. PICK r \in Structured(p, l.c) :
          q = [state |-> r.to, stack |-> r.stack, token |-> Token(p.state, r.to),
               lex |-> p.lex]
    BY <1>2, Zenon DEF Parsed
  <2>2. q.state = r.to /\ q.stack = r.stack /\ q.token = Token(p.state, r.to)
        /\ q.lex = p.lex
    BY <2>1
  <2> QED
    BY <1>2, <2>2
<1> QED
  BY <1>1, <1>2

\* Where the lexemes go: a quote starts a string, and nothing else does.
LEMMA MovesKnown ==
  ASSUME NEW s \in DOMAIN Moves, NEW c \in DOMAIN Moves[s]
  PROVE  /\ s # "ST"
         /\ c \notin {"{", "}", "[", "]", ",", ":"}
         /\ c = "quote" => s \in {"OB", "KE", "VA", "AR"} /\ Moves[s][c] = "ST"
         /\ c # "quote" => Moves[s][c] # "ST"
<1>1. s \in {"OB", "KE", "VA", "AR", "MI", "ZE", "INT", "FR", "FS", "E1", "E2", "E3",
            "T3", "F4", "N3"}
  BY DEF Moves
<1>2. CASE s \in {"OB", "KE"}
  <2>1. Moves["OB"] = [quote |-> "ST"] /\ Moves["KE"] = [quote |-> "ST"]
    BY DEF Moves
  <2>2. c = "quote" /\ Moves[s][c] = "ST"
    BY <1>2, <2>1
  <2> QED
    BY <1>2, <2>2
<1>3. CASE s \in {"VA", "AR"}
  <2>1. Moves[s] = ValueStart
    BY <1>3 DEF Moves
  <2>2. /\ DOMAIN ValueStart = {"quote", "minus", "zero", "digit", "tru", "fals", "nul"}
        /\ ValueStart["quote"] = "ST"
        /\ \A d \in DOMAIN ValueStart : d # "quote" => ValueStart[d] # "ST"
    BY DEF ValueStart
  <2> QED
    BY <1>3, <2>1, <2>2
<1> DEFINE Quiet(m) == \A d \in DOMAIN m : d \notin {"quote", "{", "}", "[", "]", ",", ":"}
           Mute(m) == \A d \in DOMAIN m : m[d] # "ST"
<1>4. CASE s = "MI"
  <2>1. Moves[s] = [zero |-> "ZE", digit |-> "INT"]
    BY <1>4 DEF Moves
  <2>2. Quiet([zero |-> "ZE", digit |-> "INT"])
    OBVIOUS
  <2>3. Mute([zero |-> "ZE", digit |-> "INT"])
    OBVIOUS
  <2> QED
    BY <1>4, <2>1, <2>2, <2>3
<1>5. CASE s = "ZE"
  <2>1. Moves[s] = [point |-> "FR", exp |-> "E1", e |-> "E1"]
    BY <1>5 DEF Moves
  <2>2. Quiet([point |-> "FR", exp |-> "E1", e |-> "E1"])
    OBVIOUS
  <2>3. Mute([point |-> "FR", exp |-> "E1", e |-> "E1"])
    OBVIOUS
  <2> QED
    BY <1>5, <2>1, <2>2, <2>3
<1>6. CASE s = "INT"
  <2>1. Moves[s] = [zero |-> "INT", digit |-> "INT", point |-> "FR", exp |-> "E1", e |-> "E1"]
    BY <1>6 DEF Moves
  <2>2. Quiet([zero |-> "INT", digit |-> "INT", point |-> "FR", exp |-> "E1", e |-> "E1"])
    OBVIOUS
  <2>3. Mute([zero |-> "INT", digit |-> "INT", point |-> "FR", exp |-> "E1", e |-> "E1"])
    OBVIOUS
  <2> QED
    BY <1>6, <2>1, <2>2, <2>3
<1>7. CASE s = "FR"
  <2>1. Moves[s] = [zero |-> "FS", digit |-> "FS"]
    BY <1>7 DEF Moves
  <2>2. Quiet([zero |-> "FS", digit |-> "FS"])
    OBVIOUS
  <2>3. Mute([zero |-> "FS", digit |-> "FS"])
    OBVIOUS
  <2> QED
    BY <1>7, <2>1, <2>2, <2>3
<1>8. CASE s = "FS"
  <2>1. Moves[s] = [zero |-> "FS", digit |-> "FS", exp |-> "E1", e |-> "E1"]
    BY <1>8 DEF Moves
  <2>2. Quiet([zero |-> "FS", digit |-> "FS", exp |-> "E1", e |-> "E1"])
    OBVIOUS
  <2>3. Mute([zero |-> "FS", digit |-> "FS", exp |-> "E1", e |-> "E1"])
    OBVIOUS
  <2> QED
    BY <1>8, <2>1, <2>2, <2>3
<1>9. CASE s = "E1"
  <2>1. Moves[s] = [plus |-> "E2", minus |-> "E2", zero |-> "E3", digit |-> "E3"]
    BY <1>9 DEF Moves
  <2>2. Quiet([plus |-> "E2", minus |-> "E2", zero |-> "E3", digit |-> "E3"])
    OBVIOUS
  <2>3. Mute([plus |-> "E2", minus |-> "E2", zero |-> "E3", digit |-> "E3"])
    OBVIOUS
  <2> QED
    BY <1>9, <2>1, <2>2, <2>3
<1>10. CASE s \in {"E2", "E3"}
  <2>1. Moves[s] = [zero |-> "E3", digit |-> "E3"]
    BY <1>10 DEF Moves
  <2>2. Quiet([zero |-> "E3", digit |-> "E3"])
    OBVIOUS
  <2>3. Mute([zero |-> "E3", digit |-> "E3"])
    OBVIOUS
  <2> QED
    BY <1>10, <2>1, <2>2, <2>3
<1>11. CASE s \in {"T3", "F4", "N3"}
  <2>1. Moves[s] = [e |-> "OK"] \/ Moves[s] = [l |-> "OK"]
    BY <1>11 DEF Moves
  <2>2. Quiet([e |-> "OK"]) /\ Quiet([l |-> "OK"])
    OBVIOUS
  <2>3. Mute([e |-> "OK"]) /\ Mute([l |-> "OK"])
    OBVIOUS
  <2> QED
    BY <1>11, <2>1, <2>2, <2>3
<1> QED
  BY <1>1, <1>2, <1>3, <1>4, <1>5, <1>6, <1>7, <1>8, <1>9, <1>10, <1>11

\* The rule for a letter.
LEMMA RuleOf ==
  ASSUME NEW p, NEW c, NEW r \in Structured(p, c)
  PROVE  /\ c \in {"{", "[", "}", "]", ",", ":", "quote"}
         /\ c = "{" => /\ p.state \in {"GO", "VA", "AR"}
                       /\ r.to = "OB" /\ r.stack = Append(p.stack, "KEY")
         /\ c = "[" => /\ p.state \in {"GO", "VA", "AR"}
                       /\ r.to = "AR" /\ r.stack = Append(p.stack, "ARRAY")
         /\ c \in {"}", "]"} => r.to = "OK" /\ r.stack = Front(p.stack)
         /\ c = "]" => p.state \in Ending \cup {"AR"}
         /\ c = "," => \/ /\ Last(p.stack) = "OBJECT"
                          /\ r.to = "KE" /\ r.stack = Append(Front(p.stack), "KEY")
                       \/ Last(p.stack) = "ARRAY" /\ r.to = "VA" /\ r.stack = p.stack
         /\ c = ":" => /\ p.state = "CO"
                       /\ r.to = "VA" /\ r.stack = Append(Front(p.stack), "OBJECT")
         /\ c = "quote" => /\ p.state = "ST" /\ r.stack = p.stack
                           /\ \/ Last(p.stack) = "KEY" /\ r.to = "CO"
                              \/ Last(p.stack) \in {"ARRAY", "OBJECT"} /\ r.to = "OK"
<1>1. ASSUME NEW d, NEW in, NEW on, NEW to, NEW st, Rule(p, r, d, in, on, to, st)
      PROVE  d = c
  BY <1>1, RuleCases DEF Rule
<1>2. c \in {"{", "[", "}", "]", ",", ":", "quote"}
  BY <1>1, RuleCases
<1>3. CASE c = "{"
  <2>1. Rule(p, r, "{", {"GO", "VA", "AR"}, {Last(p.stack)}, "OB", Append(p.stack, "KEY"))
    BY <1>1, <1>3, RuleCases
  <2> QED
    BY <1>3, <2>1 DEF Rule
<1>4. CASE c = "["
  <2>1. Rule(p, r, "[", {"GO", "VA", "AR"}, {Last(p.stack)}, "AR", Append(p.stack, "ARRAY"))
    BY <1>1, <1>4, RuleCases
  <2> QED
    BY <1>4, <2>1 DEF Rule
<1>5. CASE c = "}"
  <2>1. \/ Rule(p, r, "}", {"OB"}, {"KEY"}, "OK", Front(p.stack))
        \/ Rule(p, r, "}", Ending, {"OBJECT"}, "OK", Front(p.stack))
    BY <1>1, <1>5, RuleCases
  <2> QED
    BY <1>5, <2>1 DEF Rule
<1>6. CASE c = "]"
  <2>1. Rule(p, r, "]", Ending \cup {"AR"}, {"ARRAY"}, "OK", Front(p.stack))
    BY <1>1, <1>6, RuleCases
  <2> QED
    BY <1>6, <2>1 DEF Rule
<1>7. CASE c = ","
  <2>1. \/ Rule(p, r, ",", Ending, {"OBJECT"}, "KE", Append(Front(p.stack), "KEY"))
        \/ Rule(p, r, ",", Ending, {"ARRAY"}, "VA", p.stack)
    BY <1>1, <1>7, RuleCases
  <2> QED
    BY <1>7, <2>1 DEF Rule
<1>8. CASE c = ":"
  <2>1. Rule(p, r, ":", {"CO"}, {"KEY"}, "VA", Append(Front(p.stack), "OBJECT"))
    BY <1>1, <1>8, RuleCases
  <2> QED
    BY <1>8, <2>1 DEF Rule
<1>9. CASE c = "quote"
  <2>1. \/ Rule(p, r, "quote", {"ST"}, {"KEY"}, "CO", p.stack)
        \/ Rule(p, r, "quote", {"ST"}, {"ARRAY", "OBJECT"}, "OK", p.stack)
    BY <1>1, <1>9, RuleCases
  <2> QED
    BY <1>9, <2>1 DEF Rule
<1> QED
  BY <1>2, <1>3, <1>4, <1>5, <1>6, <1>7, <1>8, <1>9

\* What a letter that opens, closes or separates does to the parser.
LEMMA Structural ==
  ASSUME NEW p, NEW l, NEW q \in Parsed(p, l), p.state # "ST",
         l.c \in {"{", "}", "[", "]", ",", ":"}
  PROVE  /\ q.token = Token(p.state, q.state)
         /\ \E r \in Structured(p, l.c) : q.state = r.to /\ q.stack = r.stack
<1>1. ~(p.state \in DOMAIN Moves /\ l.c \in DOMAIN Moves[p.state])
  BY MovesKnown
<1> QED
  BY <1>1, Turns

\* What a quote does to the parser.
LEMMA Quoted ==
  ASSUME NEW p, NEW l, NEW q \in Parsed(p, l), l.c = "quote"
  PROVE  /\ q.stack = p.stack
         /\ p.state # "ST" => q.state = "ST" /\ q.lex = l.v /\ q.token = "NO"
         /\ p.state = "ST" =>
              \/ /\ Last(p.stack) = "KEY"
                 /\ q.state = "CO" /\ q.lex = p.lex /\ q.token = "KS"
              \/ Last(p.stack) \in {"ARRAY", "OBJECT"} /\ q.state = "OK"
<1>1. q.token = Token(p.state, q.state)
  BY Turns
<1>2. CASE p.state \in DOMAIN Moves /\ l.c \in DOMAIN Moves[p.state]
  <2>1. /\ q.state = Moves[p.state][l.c] /\ q.stack = p.stack
        /\ q.lex = IF p.state \in {"OB", "KE", "VA", "AR"} THEN l.v ELSE p.lex
    BY <1>2, Turns
  <2>2. p.state # "ST" /\ p.state \in {"OB", "KE", "VA", "AR"} /\ q.state = "ST"
    BY <1>2, <2>1, MovesKnown
  <2> QED
    BY <1>1, <2>1, <2>2 DEF Token
<1>3. CASE ~(p.state \in DOMAIN Moves /\ l.c \in DOMAIN Moves[p.state])
  <2>1. q.lex = p.lex /\ \E r \in Structured(p, l.c) : q.state = r.to /\ q.stack = r.stack
    BY <1>3, Turns
  <2>2. PICK r \in Structured(p, l.c) : q.state = r.to /\ q.stack = r.stack
    BY <2>1
  <2>3. /\ p.state = "ST" /\ q.stack = p.stack
        /\ \/ Last(p.stack) = "KEY" /\ q.state = "CO"
           \/ Last(p.stack) \in {"ARRAY", "OBJECT"} /\ q.state = "OK"
    <3>1. /\ p.state = "ST" /\ r.stack = p.stack
          /\ \/ Last(p.stack) = "KEY" /\ r.to = "CO"
             \/ Last(p.stack) \in {"ARRAY", "OBJECT"} /\ r.to = "OK"
      BY RuleOf
    <3> QED
      BY <2>2, <3>1
  <2>4. Token("ST", "CO") = "KS"
    BY DEF Token
  <2> QED
    BY <1>1, <2>1, <2>3, <2>4
<1> QED
  BY <1>2, <1>3

\* What a letter of a plain value does to the parser.
LEMMA PlainTurns ==
  ASSUME NEW p, NEW l, NEW q \in Parsed(p, l), l.c \in Plain, p.state # "ST"
  PROVE  q.stack = p.stack /\ q.state # "ST"
<1>1. l.c \notin {"quote", "{", "}", "[", "]", ",", ":"}
  BY DEF Plain
<1>2. Structured(p, l.c) = {}
  <2> SUFFICES ASSUME NEW r \in Structured(p, l.c) PROVE FALSE
    OBVIOUS
  <2> QED
    BY <1>1, RuleOf
<1>3. /\ p.state \in DOMAIN Moves /\ l.c \in DOMAIN Moves[p.state]
      /\ q.state = Moves[p.state][l.c] /\ q.stack = p.stack
  BY <1>2, Turns
<1> QED
  BY <1>1, <1>3, MovesKnown

LEMMA AppendFacts ==
  ASSUME NEW T, NEW s \in Seq(T), NEW m
  PROVE  /\ Front(Append(s, m)) = s /\ Last(Append(s, m)) = m
         /\ Len(Append(s, m)) = Len(s) + 1
<1> DEFINE U == T \cup {m}
           x == Append(s, m)
           n == Len(s)
<1>1. s \in Seq(U) /\ m \in U /\ n \in Nat
  BY SeqMonotonic
<1> HIDE DEF U
<1>2. /\ x \in Seq(U) /\ Len(x) = n + 1 /\ x[n + 1] = m
      /\ \A k \in 1..n : x[k] = s[k]
  BY <1>1, AppendProperties
<1> HIDE DEF x, n
<1>3. /\ Last(x) = x[n + 1]
      /\ Front(x) \in Seq(U) /\ Len(Front(x)) = n
      /\ \A k \in 1..n : Front(x)[k] = x[k]
  <2>1. Len(x) >= 1 /\ Len(x) - 1 = n
    BY <1>1, <1>2
  <2> QED
    BY <1>2, <2>1, LastAndFront
<1>4. Front(x) = s
  BY <1>1, <1>2, <1>3, SeqEqual DEF n
<1> QED
  BY <1>2, <1>3, <1>4 DEF x, n

\* The mode of a region is on top of the modes of the region around it.
ModeOf(r) == IF r \in Arrays THEN "ARRAY" ELSE "OBJECT"

\* Going into a region puts its mode on the stack of the region around it.
LEMMA Nests ==
  ASSUME NEW r \in DOMAIN Beyond
  PROVE  /\ Beyond[r].in \in DOMAIN StackOf /\ r \in DOMAIN StackOf
         /\ StackOf[Beyond[r].in] \in Seq(Modes)
         /\ StackOf[r] = Append(StackOf[Beyond[r].in], ModeOf(r))
<1> DEFINE Tops(s, x, m) == /\ Len(x) = Len(s) + 1 /\ x[Len(s) + 1] = m
                            /\ \A k \in 1..Len(s) : x[k] = s[k]
<1>1. ASSUME NEW s \in Seq(Modes), NEW x \in Seq(Modes), NEW m \in Modes, Tops(s, x, m)
      PROVE  x = Append(s, m)
  <2>1. /\ Append(s, m) \in Seq(Modes) /\ Len(Append(s, m)) = Len(s) + 1
        /\ Append(s, m)[Len(s) + 1] = m
        /\ \A k \in 1..Len(s) : Append(s, m)[k] = s[k]
    BY AppendProperties
  <2>2. \A k \in 1..Len(x) : x[k] = Append(s, m)[k]
    BY <1>1, <2>1
  <2> QED
    BY <1>1, <2>1, <2>2, SeqEqual
<1>2. r \in {"grid", "blocks", "block", "ids", "ctl"}
  BY DEF Beyond
<1>3. /\ Beyond["grid"].in = "text" /\ Beyond["blocks"].in = "grid"
      /\ Beyond["block"].in = "blocks" /\ Beyond["ids"].in = "block"
      /\ Beyond["ctl"].in = "grid"
  BY DEF Beyond, After, Ready, Spot
<1>4. /\ ModeOf("grid") = "OBJECT" /\ ModeOf("blocks") = "ARRAY" /\ ModeOf("block") = "OBJECT"
      /\ ModeOf("ids") = "ARRAY" /\ ModeOf("ctl") = "OBJECT"
  BY DEF ModeOf, Arrays
<1> DEFINE t == <<"DONE">>
           g == <<"DONE", "OBJECT">>
           bs == <<"DONE", "OBJECT", "ARRAY">>
           b == <<"DONE", "OBJECT", "ARRAY", "OBJECT">>
           i == <<"DONE", "OBJECT", "ARRAY", "OBJECT", "ARRAY">>
           c == <<"DONE", "OBJECT", "OBJECT">>
<1>5. /\ StackOf["text"] = t /\ StackOf["grid"] = g /\ StackOf["blocks"] = bs
      /\ StackOf["block"] = b /\ StackOf["ids"] = i /\ StackOf["ctl"] = c
      /\ DOMAIN StackOf = {"text", "grid", "blocks", "block", "ids", "ctl"}
  BY DEF StackOf
<1>6. /\ t \in Seq(Modes) /\ g \in Seq(Modes) /\ bs \in Seq(Modes) /\ b \in Seq(Modes)
      /\ i \in Seq(Modes) /\ c \in Seq(Modes) /\ "OBJECT" \in Modes /\ "ARRAY" \in Modes
  BY DEF Modes
<1>8. Tops(t, g, "OBJECT")
  OBVIOUS
<1>9. Tops(g, bs, "ARRAY")
  OBVIOUS
<1>10. Tops(bs, b, "OBJECT")
  OBVIOUS
<1>11. Tops(b, i, "ARRAY")
  OBVIOUS
<1>12. Tops(g, c, "OBJECT")
  OBVIOUS
<1> HIDE DEF t, g, bs, b, i, c, Tops
<1>13. /\ g = Append(t, "OBJECT") /\ bs = Append(g, "ARRAY") /\ b = Append(bs, "OBJECT")
       /\ i = Append(b, "ARRAY") /\ c = Append(g, "OBJECT")
  BY <1>1, <1>6, <1>8, <1>9, <1>10, <1>11, <1>12
<1> QED
  BY <1>2, <1>3, <1>4, <1>5, <1>6, <1>13, ZenonT(30)

-----------------------------------------------------------------------------
(* Where the parser is *)

\* Before the value of a member there is a key on top of the stack.
StackAt(a) == IF a.in \in Objects /\ a.at \in {"key", "name", "colon"}
              THEN Append(Front(StackOf[a.in]), "KEY")
              ELSE StackOf[a.in]
Placed(p, a) ==
  /\ a.at = "start" => p.state = "GO" /\ p.token = "NO"
  /\ a.at = "key" => p.state \in {"OB", "KE"}
  /\ a.at = "name" => p.state = "ST" /\ p.lex = a.key
  /\ a.at = "colon" => p.state = "CO"
  /\ a.at = "value" => p.state = "VA" /\ p.token = "NO"
  /\ a.at = "string" => p.state = "ST"
  /\ a.at = "after" => p.state # "ST"
  /\ a.at = "between" => p.state # "ST"
  /\ a = Ready("blocks") => /\ p.state \in {"OK", "AR", "VA"}
                            /\ p.state # "OK" => p.token = "NO"
ParserAt(p, a) == /\ a.in \in DOMAIN StackOf
                  /\ p.stack = StackAt(a) /\ Placed(p, a)

\* The parts of a spot.
LEMMA Spots ==
  /\ \A r, at, k : Spot(r, at, k).in = r /\ Spot(r, at, k).at = at /\ Spot(r, at, k).key = k
  /\ \A r : /\ Ready(r).in = r /\ Ready(r).key = NoKey
            /\ Ready(r).at = IF r \in Objects THEN "key" ELSE "between"
            /\ After(r).in = r /\ After(r).at = "after" /\ After(r).key = NoKey
BY DEF Spot, Ready, After

LEMMA Regions ==
  ASSUME NEW r \in DOMAIN Beyond
  PROVE  LET B == StackOf[Beyond[r].in]
         IN  /\ r \in DOMAIN StackOf /\ Beyond[r].in \in DOMAIN StackOf
             /\ StackOf[r] = Append(B, ModeOf(r)) /\ Front(StackOf[r]) = B
             /\ Last(StackOf[r]) = ModeOf(r)
             /\ Front(Append(B, "KEY")) = B /\ Last(Append(B, "KEY")) = "KEY"
             /\ Len(StackOf[r]) = Len(B) + 1 /\ Len(Append(B, "KEY")) = Len(B) + 1
             /\ B \in Seq(Modes)
<1> DEFINE B == StackOf[Beyond[r].in]
<1>1. /\ r \in DOMAIN StackOf /\ Beyond[r].in \in DOMAIN StackOf
      /\ B \in Seq(Modes) /\ StackOf[r] = Append(B, ModeOf(r))
  BY Nests
<1> HIDE DEF B
<1>2. \A m : /\ Front(Append(B, m)) = B /\ Last(Append(B, m)) = m
             /\ Len(Append(B, m)) = Len(B) + 1
  BY <1>1, AppendFacts
<1> QED
  BY <1>1, <1>2, Zenon DEF B

LEMMA RegionKinds ==
  /\ Objects \cup Arrays \subseteq DOMAIN Beyond
  /\ \A r \in Objects : ModeOf(r) = "OBJECT" /\ r # "text" /\ r \notin Arrays
  /\ \A r \in Arrays : ModeOf(r) = "ARRAY" /\ r # "text"
  /\ \A k \in DOMAIN Below : Below[k] \in {"blocks", "ids", "ctl"}
  /\ \A r \in DOMAIN Beyond : \/ Beyond[r] = Spot("text", "done", NoKey)
                              \/ Beyond[r] = Ready("blocks")
                              \/ Beyond[r] \in {After("grid"), After("block")}
BY DEF Objects, Arrays, Beyond, ModeOf, Below

\* Within an object the parser follows the spot.
LEMMA ParserInObject ==
  ASSUME NEW p, NEW a, NEW l, NEW b, ParserAt(p, a), InObject(a, l, b), NEW q \in Parsed(p, l)
  PROVE  /\ ParserAt(q, b) /\ b.in = a.in
         /\ b.at = "colon" => q.token = "KS" /\ q.lex = b.key
         /\ b.at = "value" => q.token = "NO" /\ a.key = b.key /\ a.at = "colon"
<1>1. PICK r \in Objects, k \in Names :
        \/ a = Ready(r) /\ l.c = "quote" /\ l.v = k /\ b = Spot(r, "name", k)
        \/ a = Spot(r, "name", k) /\ l.c = "quote" /\ b = Spot(r, "colon", k)
        \/ a = Spot(r, "colon", k) /\ l.c = ":" /\ b = Spot(r, "value", k)
        \/ a = Spot(r, "value", k) /\ l.c = "quote" /\ b = Spot(r, "string", NoKey)
        \/ a = Spot(r, "value", k) /\ l.c \in Plain /\ b = After(r)
        \/ a = Spot(r, "string", NoKey) /\ l.c = "quote" /\ b = After(r)
        \/ a = After(r) /\ l.c \in Plain /\ b = a
        \/ a = After(r) /\ l.c = "," /\ b = Ready(r)
  BY DEF InObject
<1> DEFINE B == StackOf[Beyond[r].in]
           Full == Append(B, "OBJECT")
           Keyed == Append(B, "KEY")
<1>2. /\ StackOf[r] = Full /\ Front(StackOf[r]) = B /\ Last(Full) = "OBJECT"
      /\ Front(Full) = B /\ Front(Keyed) = B /\ Last(Keyed) = "KEY"
      /\ r \in DOMAIN StackOf /\ r # "blocks"
  BY Regions, RegionKinds, ZenonT(30) DEF Arrays
<1> HIDE DEF Full, Keyed, B
<1>3. a.in = r /\ b.in = r /\ a # Ready("blocks") /\ b # Ready("blocks")
  <2>1. a.in = r /\ b.in = r
    <3>1. /\ \A at, x : Spot(r, at, x).in = r
          /\ Ready(r).in = r /\ After(r).in = r
      BY Spots
    <3> QED
      BY <1>1, <3>1
  <2>2. Ready("blocks").in = "blocks"
    BY Spots
  <2> QED
    BY <1>2, <2>1, <2>2
<1>4. /\ p.stack = IF a.at \in {"key", "name", "colon"} THEN Keyed ELSE Full
      /\ Placed(p, a)
  BY <1>2, <1>3 DEF ParserAt, StackAt, Keyed
<1>5. ASSUME q.stack = IF b.at \in {"key", "name", "colon"} THEN Keyed ELSE Full,
             Placed(q, b)
      PROVE  ParserAt(q, b)
  BY <1>2, <1>3, <1>5 DEF ParserAt, StackAt, Keyed
<1>6. CASE a = Ready(r) /\ l.c = "quote" /\ l.v = k /\ b = Spot(r, "name", k)
  <2>1. a.at = "key" /\ b.at = "name" /\ b.key = k
    BY <1>6, Spots
  <2>2. p.state # "ST" /\ p.stack = Keyed
    BY <1>4, <2>1 DEF Placed
  <2>3. q.stack = p.stack /\ q.state = "ST" /\ q.lex = l.v
    BY <1>6, <2>2, Quoted
  <2>4. Placed(q, b)
    BY <1>3, <1>6, <2>1, <2>3 DEF Placed
  <2> QED
    BY <1>3, <1>5, <2>1, <2>2, <2>3, <2>4
<1>7. CASE a = Spot(r, "name", k) /\ l.c = "quote" /\ b = Spot(r, "colon", k)
  <2>1. a.at = "name" /\ b.at = "colon" /\ b.key = k /\ a.key = k
    BY <1>7, Spots
  <2>2. p.state = "ST" /\ p.lex = k /\ p.stack = Keyed
    BY <1>4, <2>1 DEF Placed
  <2>3. q.stack = p.stack /\ q.state = "CO" /\ q.lex = p.lex /\ q.token = "KS"
    BY <1>2, <1>7, <2>2, Quoted
  <2>4. Placed(q, b)
    BY <1>3, <2>1, <2>3 DEF Placed
  <2> QED
    BY <1>3, <1>5, <2>1, <2>2, <2>3, <2>4
<1>8. CASE a = Spot(r, "colon", k) /\ l.c = ":" /\ b = Spot(r, "value", k)
  <2>1. a.at = "colon" /\ b.at = "value" /\ b.key = k /\ a.key = k
    BY <1>8, Spots
  <2>2. p.state = "CO" /\ p.stack = Keyed
    BY <1>4, <2>1 DEF Placed
  <2>3. PICK s \in Structured(p, l.c) : q.state = s.to /\ q.stack = s.stack
    BY <1>8, <2>2, Structural
  <2>4. q.state = "VA" /\ q.stack = Full /\ q.token = Token("CO", "VA")
    <3>0. l.c = ":" => /\ p.state = "CO"
                       /\ s.to = "VA" /\ s.stack = Append(Front(p.stack), "OBJECT")
      BY RuleOf, ZenonT(30)
    <3>1. s.to = "VA" /\ s.stack = Append(Front(p.stack), "OBJECT")
      BY <1>8, <3>0
    <3>2. q.token = Token(p.state, q.state)
      BY <1>8, <2>2, Structural
    <3> QED
      BY <1>2, <2>2, <2>3, <3>1, <3>2 DEF Full
  <2>5. q.token = "NO"
    BY <2>4 DEF Token, ValueToken
  <2>6. Placed(q, b)
    BY <1>3, <2>1, <2>4, <2>5 DEF Placed
  <2> QED
    BY <1>3, <1>5, <2>1, <2>4, <2>5, <2>6
<1>9. CASE a = Spot(r, "value", k) /\ l.c = "quote" /\ b = Spot(r, "string", NoKey)
  <2>1. a.at = "value" /\ b.at = "string"
    BY <1>9, Spots
  <2>2. p.state # "ST" /\ p.stack = Full
    BY <1>4, <2>1 DEF Placed
  <2>3. q.stack = p.stack /\ q.state = "ST"
    BY <1>9, <2>2, Quoted
  <2>4. Placed(q, b)
    BY <1>3, <2>1, <2>3 DEF Placed
  <2> QED
    BY <1>3, <1>5, <2>1, <2>2, <2>3, <2>4
<1>10. CASE \/ a = Spot(r, "value", k) /\ l.c \in Plain /\ b = After(r)
            \/ a = After(r) /\ l.c \in Plain /\ b = a
  <2>1. a.at \in {"value", "after"} /\ b.at = "after"
    BY <1>10, Spots
  <2>2. p.state # "ST" /\ p.stack = Full
    BY <1>4, <2>1 DEF Placed
  <2>3. q.stack = p.stack /\ q.state # "ST"
    BY <1>10, <2>2, PlainTurns
  <2>4. Placed(q, b)
    BY <1>3, <2>1, <2>3 DEF Placed
  <2> QED
    BY <1>3, <1>5, <2>1, <2>2, <2>3, <2>4
<1>11. CASE a = Spot(r, "string", NoKey) /\ l.c = "quote" /\ b = After(r)
  <2>1. a.at = "string" /\ b.at = "after"
    BY <1>11, Spots
  <2>2. p.state = "ST" /\ p.stack = Full
    BY <1>4, <2>1 DEF Placed
  <2>3. q.stack = p.stack /\ q.state = "OK"
    BY <1>2, <1>11, <2>2, Quoted
  <2>4. Placed(q, b)
    BY <1>3, <2>1, <2>3 DEF Placed
  <2> QED
    BY <1>3, <1>5, <2>1, <2>2, <2>3, <2>4
<1>12. CASE a = After(r) /\ l.c = "," /\ b = Ready(r)
  <2>1. a.at = "after" /\ b.at = "key"
    BY <1>12, Spots
  <2>2. p.state # "ST" /\ p.stack = Full
    BY <1>4, <2>1 DEF Placed
  <2>3. PICK s \in Structured(p, l.c) : q.state = s.to /\ q.stack = s.stack
    BY <1>12, <2>2, Structural
  <2>4. s.to = "KE" /\ s.stack = Append(Front(p.stack), "KEY")
    <3>1. \/ /\ Last(p.stack) = "OBJECT"
             /\ s.to = "KE" /\ s.stack = Append(Front(p.stack), "KEY")
          \/ Last(p.stack) = "ARRAY" /\ s.to = "VA" /\ s.stack = p.stack
      BY <1>12, RuleOf, Zenon
    <3>2. Last(p.stack) # "ARRAY"
      BY <1>2, <2>2
    <3> QED
      BY <3>1, <3>2
  <2>5. q.state = "KE" /\ q.stack = Keyed
    BY <1>2, <2>2, <2>3, <2>4 DEF Keyed
  <2>6. Placed(q, b)
    BY <1>3, <2>1, <2>5 DEF Placed
  <2> QED
    BY <1>3, <1>5, <2>1, <2>5, <2>6
<1> QED
  BY <1>1, <1>6, <1>7, <1>8, <1>9, <1>10, <1>11, <1>12

\* Within an array the parser follows the spot.
LEMMA ParserInArray ==
  ASSUME NEW p, NEW a, NEW l, NEW b, ParserAt(p, a), InArray(a, l, b), NEW q \in Parsed(p, l)
  PROVE  ParserAt(q, b) /\ b = a
<1>1. PICK r \in Arrays : /\ a = Ready(r) /\ b = a
                          /\ l.c = "," \/ (r = "ids" /\ l.c \in Plain)
  BY DEF InArray, Arrays
<1>2. /\ a.in = r /\ a.at = "between" /\ r \in DOMAIN StackOf /\ Last(StackOf[r]) = "ARRAY"
      /\ r = "ids" => a # Ready("blocks")
  <2>1. r \in DOMAIN Beyond /\ ModeOf(r) = "ARRAY" /\ r \notin Objects
    BY RegionKinds
  <2>2. Ready("blocks").in = "blocks" /\ Ready(r).in = r /\ Ready(r).at = "between"
    BY <2>1, Spots
  <2> QED
    BY <1>1, <2>1, <2>2, Regions
<1>3. p.stack = StackOf[r] /\ p.state # "ST"
  BY <1>2 DEF ParserAt, StackAt, Placed
<1>4. CASE l.c = ","
  <2>1. PICK s \in Structured(p, l.c) : q.state = s.to /\ q.stack = s.stack
    BY <1>3, <1>4, Structural
  <2>2. /\ q.token = Token(p.state, q.state)
        /\ \/ Last(p.stack) = "OBJECT"
           \/ s.to = "VA" /\ s.stack = p.stack
    <3>1. \/ Last(p.stack) = "OBJECT"
          \/ Last(p.stack) = "ARRAY" /\ s.to = "VA" /\ s.stack = p.stack
      BY <1>4, RuleOf, Zenon
    <3> QED
      BY <1>3, <1>4, <3>1, Structural
  <2>3. q.state = "VA" /\ q.stack = StackOf[r]
    BY <1>2, <1>3, <2>1, <2>2
  <2>4. a = Ready("blocks") => q.token = "NO"
    BY <2>2, <2>3 DEF ParserAt, Placed, Token, ValueToken
  <2> QED
    BY <1>1, <1>2, <2>3, <2>4 DEF ParserAt, StackAt, Placed
<1>5. CASE r = "ids" /\ l.c \in Plain
  <2>1. q.stack = StackOf[r] /\ q.state # "ST"
    BY <1>3, <1>5, PlainTurns
  <2> QED
    BY <1>1, <1>2, <1>5, <2>1 DEF ParserAt, StackAt, Placed
<1> QED
  BY <1>1, <1>4, <1>5

\* The parser follows the spot into a region.
LEMMA ParserOpens ==
  ASSUME NEW p, NEW a, NEW l, NEW b, ParserAt(p, a), Opens(a, l, b), NEW q \in Parsed(p, l)
  PROVE  /\ ParserAt(q, b) /\ p.token = "NO"
         /\ p.stack = StackOf[a.in] /\ Len(q.stack) = Len(p.stack) + 1
         /\ b.in \in DOMAIN Beyond /\ Beyond[b.in].in = a.in
         /\ b.at \in {"key", "between"}
<1>1. PICK r \in DOMAIN Beyond :
        /\ b = Ready(r) /\ Beyond[r].in = a.in /\ a.at \notin {"key", "name", "colon"}
        /\ l.c = IF r \in Arrays THEN "[" ELSE "{"
        /\ p.state # "ST" /\ p.token = "NO" /\ (r \in Objects <=> r \notin Arrays)
  <2>1. CASE a = Spot("text", "start", NoKey) /\ l.c = "{" /\ b = Ready("grid")
    <3>1. a.in = "text" /\ a.at = "start"
      BY <2>1 DEF Spot
    <3>2. Beyond["grid"].in = "text" /\ "grid" \in DOMAIN Beyond
      BY Spots DEF Beyond
    <3> QED
      BY <2>1, <3>1, <3>2 DEF ParserAt, Placed, Arrays, Objects
  <2>2. CASE a = Ready("blocks") /\ l.c = "{" /\ b = Ready("block")
    <3>1. a.in = "blocks" /\ a.at = "between"
      BY <2>2, Spots DEF Objects
    <3>2. Beyond["block"] = Ready("blocks") /\ "block" \in DOMAIN Beyond
      BY DEF Beyond
    <3>3. p.state \in {"OK", "AR", "VA"} /\ (p.state # "OK" => p.token = "NO") /\ p.state # "ST"
      BY <2>2, <3>1 DEF ParserAt, Placed
    <3>4. PICK s \in Structured(p, l.c) : TRUE
      BY <2>2, <3>3, Structural
    <3>5. p.state \in {"GO", "VA", "AR"}
      BY <2>2, RuleOf, Zenon
    <3>6. p.state # "OK"
      BY <3>5
    <3> QED
      BY <2>2, <3>1, <3>2, <3>3, <3>6 DEF Arrays, Objects
  <2>3. ASSUME NEW o \in Objects, NEW k \in DOMAIN Below,
               a = Spot(o, "value", k), Beyond[Below[k]] = After(o),
               l.c = IF Below[k] \in Arrays THEN "[" ELSE "{",
               b = Ready(Below[k])
        PROVE  /\ Below[k] \in DOMAIN Beyond
               /\ b = Ready(Below[k]) /\ Beyond[Below[k]].in = a.in
               /\ a.at \notin {"key", "name", "colon"}
               /\ l.c = IF Below[k] \in Arrays THEN "[" ELSE "{"
               /\ p.state # "ST" /\ p.token = "NO"
               /\ (Below[k] \in Objects <=> Below[k] \notin Arrays)
    <3>1. a.in = o /\ a.at = "value" /\ After(o).in = o
      BY <2>3 DEF Spot, After
    <3>2. Below[k] \in DOMAIN Beyond /\ (Below[k] \in Objects <=> Below[k] \notin Arrays)
      BY RegionKinds DEF Beyond, Objects, Arrays
    <3> QED
      BY <2>3, <3>1, <3>2 DEF ParserAt, Placed
  <2> QED
    BY <2>1, <2>2, <2>3 DEF Opens
<1> DEFINE B == StackOf[a.in]
<1>2. p.stack = B
  BY <1>1 DEF ParserAt, StackAt
<1>3. PICK s \in Structured(p, l.c) : q.state = s.to /\ q.stack = s.stack
  BY <1>1, Structural
<1>4. /\ r \in DOMAIN StackOf /\ StackOf[r] = Append(B, ModeOf(r))
      /\ Front(StackOf[r]) = B /\ \A m : Len(Append(B, m)) = Len(B) + 1
  <2>1. B \in Seq(Modes)
    BY <1>1, Regions
  <2> QED
    BY <1>1, <2>1, Regions, AppendFacts
<1>5. /\ r \in Arrays => q.stack = Append(B, "ARRAY") /\ q.state = "AR"
      /\ r \notin Arrays => q.stack = Append(B, "KEY") /\ q.state = "OB"
      /\ q.token = Token(p.state, q.state)
  <2>0. l.c = "{" => /\ p.state \in {"GO", "VA", "AR"}
                     /\ s.to = "OB" /\ s.stack = Append(p.stack, "KEY")
    BY RuleOf, ZenonT(30)
  <2>1. l.c = "[" => /\ p.state \in {"GO", "VA", "AR"}
                     /\ s.to = "AR" /\ s.stack = Append(p.stack, "ARRAY")
    BY RuleOf, ZenonT(30)
  <2> HIDE DEF B
  <2>2. q.token = Token(p.state, q.state)
    BY <1>1, Structural
  <2>3. CASE r \in Arrays
    <3>1. l.c = "["
      BY <1>1, <2>3
    <3>2. q.state = "AR" /\ q.stack = Append(B, "ARRAY")
      BY <1>2, <1>3, <2>1, <3>1
    <3> QED
      BY <2>2, <2>3, <3>2
  <2>4. CASE r \notin Arrays
    <3>1. l.c = "{"
      BY <1>1, <2>4
    <3>2. q.state = "OB" /\ q.stack = Append(B, "KEY")
      BY <1>2, <1>3, <2>0, <3>1
    <3> QED
      BY <2>2, <2>4, <3>2
  <2> QED
    BY <2>3, <2>4
<1>6. b.in = r /\ b.at = IF r \in Arrays THEN "between" ELSE "key"
  BY <1>1, Spots
<1>7. q.token = "NO"
  <2>1. q.state \in {"AR", "OB"} /\ q.token = Token(p.state, q.state)
    BY <1>5
  <2> QED
    BY <2>1 DEF Token
<1>8. q.stack = StackAt(b)
  <2> HIDE DEF B
  <2>1. CASE r \in Arrays
    BY <1>4, <1>5, <1>6, <2>1 DEF StackAt, ModeOf
  <2>2. CASE r \notin Arrays
    BY <1>1, <1>4, <1>5, <1>6, <2>2 DEF StackAt
  <2> QED
    BY <2>1, <2>2
<1>9. Placed(q, b)
  <2>1. CASE r \in Arrays
    BY <1>5, <1>6, <1>7, <2>1 DEF Placed
  <2>2. CASE r \notin Arrays
    <3>1. b # Ready("blocks")
      BY <1>6, <2>2, Spots DEF Arrays
    <3> QED
      <4>1. b.at = "key" /\ q.state = "OB"
        BY <1>5, <1>6, <2>2
      <4> QED
        BY <3>1, <4>1 DEF Placed
  <2> QED
    BY <2>1, <2>2
<1>10. ParserAt(q, b)
  BY <1>4, <1>6, <1>8, <1>9 DEF ParserAt
<1>11. Len(q.stack) = Len(p.stack) + 1
  BY <1>2, <1>4, <1>5
<1> QED
  BY <1>1, <1>2, <1>6, <1>10, <1>11

\* The parser follows the spot out of a region.
LEMMA ParserCloses ==
  ASSUME NEW p, NEW a, NEW l, NEW b, ParserAt(p, a), Closes(a, l, b), NEW q \in Parsed(p, l)
  PROVE  /\ ParserAt(q, b) /\ q.stack = Front(p.stack)
         /\ a.in \in DOMAIN Beyond /\ b = Beyond[a.in]
<1>1. PICK r \in DOMAIN Beyond :
        /\ a.in = r /\ a.at \in {"after", "between"} /\ b = Beyond[r] /\ l.c \in {"}", "]"}
  <2>1. CASE \E r \in Objects : a = After(r) /\ l.c = "}" /\ b = Beyond[r]
    <3>1. PICK r \in Objects : a = After(r) /\ l.c = "}" /\ b = Beyond[r]
      BY <2>1
    <3>2. a.in = r /\ a.at = "after" /\ r \in DOMAIN Beyond
      BY <3>1, RegionKinds DEF After, Spot
    <3> QED
      BY <3>1, <3>2
  <2>2. CASE \E r \in Arrays : a = Ready(r) /\ l.c = "]" /\ b = Beyond[r]
    <3>1. PICK r \in Arrays : a = Ready(r) /\ l.c = "]" /\ b = Beyond[r]
      BY <2>2
    <3>2. a.in = r /\ a.at = "between" /\ r \in DOMAIN Beyond
      BY <3>1, RegionKinds DEF Ready, Spot, Objects, Arrays
    <3> QED
      BY <3>1, <3>2
  <2> QED
    BY <2>1, <2>2 DEF Closes
<1>2. p.stack = StackOf[r] /\ p.state # "ST"
  BY <1>1 DEF ParserAt, StackAt, Placed
<1>3. PICK s \in Structured(p, l.c) : q.state = s.to /\ q.stack = s.stack
  BY <1>1, <1>2, Structural
<1>4. q.state = "OK" /\ q.stack = Front(p.stack)
  <2>1. l.c \in {"}", "]"} => s.to = "OK" /\ s.stack = Front(p.stack)
    BY RuleOf, Zenon
  <2> QED
    BY <1>1, <1>3, <2>1
<1>5. q.stack = StackOf[b.in] /\ b.in \in DOMAIN StackOf
  BY <1>1, <1>2, <1>4, Regions
<1>6. b.at \in {"done", "after", "between"}
  <2>1. /\ Spot("text", "done", NoKey).at = "done" /\ Ready("blocks").at = "between"
        /\ After("grid").at = "after" /\ After("block").at = "after"
    BY DEF Spot, Ready, After, Objects
  <2> QED
    BY <1>1, <2>1, RegionKinds
<1> QED
  BY <1>1, <1>4, <1>5, <1>6 DEF ParserAt, StackAt, Placed

\* How deep the regions are.
LEMMA Depths ==
  /\ Len(StackOf["text"]) = 1 /\ Len(StackOf["grid"]) = 2 /\ Len(StackOf["blocks"]) = 3
  /\ Len(StackOf["block"]) = 4 /\ Len(StackOf["ids"]) = 5 /\ Len(StackOf["ctl"]) = 3
  /\ \A r \in Objects : Len(StackOf[r]) > 1
<1>1. /\ Len(StackOf["text"]) = 1 /\ Len(StackOf["grid"]) = 2 /\ Len(StackOf["blocks"]) = 3
      /\ Len(StackOf["block"]) = 4 /\ Len(StackOf["ids"]) = 5 /\ Len(StackOf["ctl"]) = 3
  BY DEF StackOf
<1>2. \A r \in Objects : r = "grid" \/ r = "block" \/ r = "ctl"
  BY DEF Objects
<1>3. Len(StackOf["grid"]) > 1 /\ Len(StackOf["block"]) > 1 /\ Len(StackOf["ctl"]) > 1
  BY <1>1
<1> QED
  BY <1>1, <1>2, <1>3, Zenon

\* The stack is as high as its region is deep, with the mode of the region on top.
LEMMA StackTop ==
  ASSUME NEW p, NEW a, ParserAt(p, a)
  PROVE  /\ Len(p.stack) = Len(StackOf[a.in])
         /\ a.in \in DOMAIN Beyond => Opened[Last(p.stack)] = ModeOf(a.in)
         /\ a.in \in Objects /\ a.at = "value" => Last(p.stack) = "OBJECT"
<1>1. CASE a.in \in DOMAIN Beyond
  <2> DEFINE B == StackOf[Beyond[a.in].in]
  <2>1. /\ StackOf[a.in] = Append(B, ModeOf(a.in)) /\ Front(StackOf[a.in]) = B
        /\ Last(StackOf[a.in]) = ModeOf(a.in) /\ Last(Append(B, "KEY")) = "KEY"
        /\ Len(StackOf[a.in]) = Len(B) + 1 /\ Len(Append(B, "KEY")) = Len(B) + 1
    BY <1>1, Regions
  <2> DEFINE Keyed == Append(B, "KEY")
             Full == StackOf[a.in]
  <2> HIDE DEF B
  <2>2. \/ p.stack = Keyed /\ a.in \in Objects /\ a.at # "value"
        \/ p.stack = Full
    BY <2>1 DEF ParserAt, StackAt
  <2> HIDE DEF Keyed, Full
  <2>3. /\ Last(Keyed) = "KEY" /\ Last(Full) = ModeOf(a.in) /\ Len(Keyed) = Len(Full)
    BY <2>1 DEF Keyed, Full
  <2>4. /\ a.in \in Objects => ModeOf(a.in) = "OBJECT"
        /\ ModeOf(a.in) \in {"OBJECT", "ARRAY"}
        /\ Opened["KEY"] = "OBJECT" /\ Opened["OBJECT"] = "OBJECT" /\ Opened["ARRAY"] = "ARRAY"
    BY RegionKinds DEF ModeOf, Opened
  <2>5. Opened[Last(p.stack)] = ModeOf(a.in)
    BY <2>2, <2>3, <2>4
  <2> QED
    BY <2>2, <2>3, <2>4, <2>5 DEF Full
<1>2. CASE a.in \notin DOMAIN Beyond
  BY <1>2, RegionKinds DEF ParserAt, StackAt
<1> QED
  BY <1>1, <1>2

\* Regions are only entered where they are opened.
LEMMA GoesRegion ==
  ASSUME NEW a, NEW l, NEW b, Goes(a, l, b), ~Opens(a, l, b)
  PROVE  /\ b.in \in {"blocks", "block", "ids"} => a.in \in {"blocks", "block", "ids"}
         /\ b.in = "ids" => a.in = "ids"
         /\ a.in \in DOMAIN Beyond
         /\ a.in = "blocks" => a = Ready("blocks")
<1>1. CASE InObject(a, l, b)
  <2>1. PICK r \in Objects : a.in = r /\ b.in = r
    <3>1. PICK r \in Objects :
            /\ a \in {Ready(r), After(r)} \/ \E at, k : a = Spot(r, at, k)
            /\ b \in {a, Ready(r), After(r)} \/ \E at, k : b = Spot(r, at, k)
      BY <1>1, Zenon DEF InObject
    <3>2. /\ \A at, k : Spot(r, at, k).in = r
          /\ Ready(r).in = r /\ After(r).in = r
      BY Spots
    <3> QED
      BY <3>1, <3>2
  <2> QED
    BY <2>1, RegionKinds DEF Objects
<1>2. CASE InArray(a, l, b)
  <2>1. PICK r \in Arrays : a = Ready(r) /\ b = a
    BY <1>2 DEF InArray, Arrays
  <2>2. a.in = r
    BY <2>1 DEF Ready, Spot
  <2> QED
    BY <2>1, <2>2, RegionKinds
<1>3. CASE Closes(a, l, b)
  <2>1. PICK r \in Objects \cup Arrays :
          a.in = r /\ b = Beyond[r] /\ (r \in Arrays => a = Ready(r))
    <3>1. \A r : Ready(r).in = r /\ After(r).in = r
      BY Spots
    <3> QED
      BY <1>3, <3>1, RegionKinds DEF Closes
  <2>2. /\ Beyond["grid"].in = "text" /\ Beyond["blocks"].in = "grid"
        /\ Beyond["block"].in = "blocks" /\ Beyond["ids"].in = "block"
        /\ Beyond["ctl"].in = "grid"
    BY DEF Beyond, After, Ready, Spot
  <2> QED
    BY <2>1, <2>2, RegionKinds DEF Objects, Arrays
<1> QED
  BY <1>1, <1>2, <1>3 DEF Goes

\* One letter of a saved text: the parser follows the spot.
LEMMA ParserGoes ==
  ASSUME NEW p, NEW a, NEW l, NEW b, ParserAt(p, a), Goes(a, l, b), NEW q \in Parsed(p, l)
  PROVE  /\ ParserAt(q, b)
         /\ b.at = "colon" => q.token = "KS" /\ q.lex = b.key /\ Len(q.stack) = Len(p.stack)
         /\ b.at = "value" => /\ q.token = "NO" /\ Len(q.stack) = Len(p.stack)
                              /\ a.key = b.key /\ a.at = "colon"
<1>1. CASE InObject(a, l, b)
  <2>1. /\ ParserAt(q, b) /\ b.in = a.in
        /\ b.at = "colon" => q.token = "KS" /\ q.lex = b.key
        /\ b.at = "value" => q.token = "NO" /\ a.key = b.key /\ a.at = "colon"
    BY <1>1, ParserInObject
  <2>2. Len(q.stack) = Len(p.stack)
    BY <2>1, StackTop
  <2> QED
    BY <2>1, <2>2
<1>2. CASE InArray(a, l, b)
  <2>1. b.at = "between"
    <3>1. Ready("blocks").at = "between" /\ Ready("ids").at = "between"
      BY DEF Ready, Spot, Objects
    <3> QED
      BY <1>2, <3>1 DEF InArray
  <2> QED
    BY <1>2, <2>1, ParserInArray
<1>3. CASE Opens(a, l, b)
  <2>1. ParserAt(q, b) /\ b.at \in {"key", "between"}
    BY <1>3, ParserOpens
  <2> QED
    BY <2>1
<1>4. CASE Closes(a, l, b)
  <2>1. ParserAt(q, b) /\ a.in \in DOMAIN Beyond /\ b = Beyond[a.in]
    BY <1>4, ParserCloses
  <2>2. /\ Spot("text", "done", NoKey).at = "done" /\ Ready("blocks").at = "between"
        /\ After("grid").at = "after" /\ After("block").at = "after"
    BY DEF Spot, Ready, After, Objects
  <2>3. b.at \in {"done", "between", "after"}
    BY <2>1, <2>2, RegionKinds
  <2> QED
    BY <2>1, <2>3
<1> QED
  BY <1>1, <1>2, <1>3, <1>4 DEF Goes

\* The kind of thing a letter adds, and what is on top of the trail then.
TopOK(p, it) ==
  /\ it[Len(it)].type = "LEAF" <=> p.token \notin {"NO", "KS"}
  /\ p.token \notin {"NO", "KS"} => p.state \in {"KE", "VA", "OK"}
  /\ p.token \in {"NO", "KS"} => Len(it) = Len(p.stack)

\* A token other than a key ends only in a value, and is of the type of a scalar.
LEMMA TokenEnds ==
  ASSUME NEW p, NEW l, NEW q \in Parsed(p, l), q.token \notin {"NO", "KS"}
  PROVE  /\ p.state \in DOMAIN ValueToken /\ q.state \in {"KE", "VA", "OK"}
         /\ Fitting[q.token] \subseteq Scalars
<1>1. q.token = Token(p.state, q.state)
  <2>1. CASE p.state = "ST" /\ l.c # "quote"
    BY <2>1 DEF Parsed
  <2>2. CASE ~(p.state = "ST" /\ l.c # "quote")
    BY <2>2, Turns
  <2> QED
    BY <2>1, <2>2
<1>2. /\ p.state \in DOMAIN ValueToken /\ q.state \in {"KE", "VA", "OK"}
      /\ q.token = ValueToken[p.state]
  BY <1>1 DEF Token
<1>3. q.token \in {"VS", "VI", "VR", "VT", "VF", "VN"}
  BY <1>2 DEF ValueToken
<1>4. Fitting[q.token] \subseteq Scalars
  BY <1>3 DEF Fitting, Scalars
<1> QED
  BY <1>2, <1>4

\* After a letter there is a value on top of the trail just when one has ended.
LEMMA TopStep ==
  ASSUME NEW p, NEW l, NEW q \in Parsed(p, l), NEW t, NEW u, StackOK(p), StackOK(q),
         Follows(p, q), TrailOK(q, u.items), Shape(p, q, t, u)
  PROVE  TopOK(q, u.items)
<1> DEFINE j == u.items
           n == Len(p.stack)
           m == Len(q.stack)
           child == Child(p, q)
<1>1. /\ n \in Nat /\ m \in Nat /\ m >= 1
      /\ child = "none" => m <= n /\ q.token \in {"NO", "KS"}
      /\ child \notin {"none", "LEAF"} =>
           m = n + 1 /\ child = Opened[q.stack[m]] /\ q.token = "NO"
      /\ child \in {"none", "LEAF", "OBJECT", "ARRAY"}
  BY ChildKinds DEF StackOK
<1>2. /\ \A k \in 1..m : j[k].type = Opened[q.stack[k]]
      /\ \A k \in 1..m : Opened[q.stack[k]] # "LEAF"
  <2>1. \A k \in 1..m : q.stack[k] \in Modes
    BY DEF StackOK
  <2>2. \A x \in Modes : Opened[x] # "LEAF"
    BY DEF Modes, Opened
  <2> QED
    BY <2>1, <2>2 DEF TrailOK
<1>3. q.token \notin {"NO", "KS"} <=> child = "LEAF"
  BY DEF Child
<1>4. CASE child = "none"
  <2>1. Len(j) = m
    BY <1>4 DEF Shape
  <2> QED
    BY <1>1, <1>2, <1>4, <2>1 DEF TopOK
<1>5. CASE child = "LEAF"
  <2>1. Len(j) = n + 1 /\ j[n + 1].type = "LEAF"
    BY <1>5 DEF Shape
  <2> QED
    BY <1>3, <1>5, <2>1, TokenEnds DEF TopOK
<1>6. CASE child \notin {"none", "LEAF"}
  <2>1. Len(j) = m
    BY <1>1, <1>6 DEF Shape
  <2> QED
    BY <1>1, <1>2, <1>6, <2>1 DEF TopOK
<1> QED
  BY <1>4, <1>5, <1>6

-----------------------------------------------------------------------------
(* Where the loader is *)

\* The array of blocks holds objects, the array of ids numbers.
ListsAt(l, region) ==
  /\ region \in {"blocks", "block", "ids"} => l[3].node.kids[1].vtype = "OBJECT"
  /\ region = "ids" => l[5].node.kids[1].vtype = "INTEGER"
KindsAt(l, it) == \A k \in 1..Len(it) : l[k].node.vtype \in Kinds[it[k].type]
LoaderAt(l, it, a) == Len(l) = Len(it) /\ KindsAt(l, it) /\ ListsAt(l, a.in)

\* Before a value the key that was read last is the one of the value.
KeyAt(key, a) == a.at \in {"colon", "value"} => key = a.key

\* What a key of an object of the specification has below it.
LEMMA KidsByKey ==
  ASSUME NEW x \in Nodes, x.vtype = "OBJECT", NEW i \in DOMAIN x.kids,
         NEW k \in DOMAIN Below, x.kids[i].key = k
  PROVE  /\ x.kids[i].vtype = ModeOf(Below[k])
         /\ Below[k] = "blocks" => x.kids[i].kids[1].vtype = "OBJECT"
         /\ Below[k] = "ids" => x.kids[i].kids[1].vtype = "INTEGER"
<1> DEFINE y == x.kids[i]
           Good(z) == z.key \in DOMAIN Below =>
                        /\ z.vtype = ModeOf(Below[z.key])
                        /\ Below[z.key] = "blocks" => z.kids[1].vtype = "OBJECT"
                        /\ Below[z.key] = "ids" => z.kids[1].vtype = "INTEGER"
<1>1. \A key \in {"id", "type", "name", "phase", "emitted", "value", "curr_fn_idx"} :
        \A v : Good(Leaf(key, v))
  BY DEF Leaf, Below
<1>2. /\ ModeOf("blocks") = "ARRAY" /\ ModeOf("ids") = "ARRAY" /\ ModeOf("ctl") = "OBJECT"
      /\ Below["fns"] = "blocks" /\ Below["dps"] = "blocks" /\ Below["ctl"] = "ctl"
      /\ Below["in_dp_ids"] = "ids" /\ Below["out_dp_ids"] = "ids"
  BY DEF ModeOf, Arrays, Below
<1>3. /\ \A max : Good(Array("in_dp_ids", Leaf(NoKey, "INTEGER"), max))
      /\ \A max : Good(Array("out_dp_ids", Leaf(NoKey, "INTEGER"), max))
      /\ \A max : Good(Array("fns", FnSpec, max))
      /\ \A max : Good(Array("dps", DpSpec, max))
      /\ \A kids : Good(Object("ctl", kids))
  <2>1. FnSpec.vtype = "OBJECT" /\ DpSpec.vtype = "OBJECT" /\ Leaf(NoKey, "INTEGER").vtype = "INTEGER"
    BY DEF FnSpec, DpSpec, Object, Leaf
  <2>2. \A key, kid, max : /\ Array(key, kid, max).key = key
                           /\ Array(key, kid, max).vtype = "ARRAY"
                           /\ Array(key, kid, max).kids[1] = kid
    BY DEF Array
  <2>3. \A key, kids : Object(key, kids).key = key /\ Object(key, kids).vtype = "OBJECT"
    BY DEF Object
  <2> QED
    BY <1>2, <2>1, <2>2, <2>3
<1> HIDE DEF Good
<1>4. CASE x = FnSpec
  <2>1. y \in {Leaf("id", "INTEGER"), Leaf("type", "INTEGER"), Leaf("name", "STRING"),
               Leaf("phase", "INTEGER"),
               Array("in_dp_ids", Leaf(NoKey, "INTEGER"), MaxIn),
               Array("out_dp_ids", Leaf(NoKey, "INTEGER"), MaxOut)}
    BY <1>4 DEF FnSpec, Object
  <2>2. Good(y)
    BY <1>1, <1>3, <2>1
  <2> QED
    BY <2>2 DEF Good
<1>5. CASE x = DpSpec
  <2>1. y \in {Leaf("id", "INTEGER"), Leaf("type", "INTEGER"), Leaf("name", "STRING"),
               Leaf("emitted", "BOOL"), Leaf("value", "BOOL"), Leaf("value", "INTEGER"),
               Leaf("value", "REAL")}
    BY <1>5 DEF DpSpec, Object
  <2>2. Good(y)
    BY <1>1, <2>1
  <2> QED
    BY <2>2 DEF Good
<1>6. CASE x = Object("ctl", <<Leaf("curr_fn_idx", "INTEGER")>>)
  <2>1. y = Leaf("curr_fn_idx", "INTEGER")
    BY <1>6 DEF Object
  <2>2. Good(y)
    BY <1>1, <2>1
  <2> QED
    BY <2>2 DEF Good
<1>7. CASE x = RootSpec
  <2>1. y \in {Leaf("name", "STRING"), Array("fns", FnSpec, MaxFns),
               Array("dps", DpSpec, MaxDps), Object("ctl", <<Leaf("curr_fn_idx", "INTEGER")>>)}
    BY <1>7 DEF RootSpec, Object
  <2>2. Good(y)
    BY <1>1, <1>3, <2>1
  <2> QED
    BY <2>2 DEF Good
<1>8. CASE x \in Leaves
  BY <1>8 DEF Leaves, Leaf, Scalars
<1>9. CASE x \in Lists \cup {Array("fns", FnSpec, MaxFns), Array("dps", DpSpec, MaxDps)}
  BY <1>9 DEF Lists, Array
<1> QED
  BY <1>4, <1>5, <1>6, <1>7, <1>8, <1>9 DEF Nodes, Blocks

\* Cut to the height of the trail.
LEMMA CutStep ==
  ASSUME NEW S, NEW l \in Seq(S), NEW it, NEW j, NEW m \in Nat, Len(l) = Len(it),
         m <= Len(it), Len(j) = m, \A k \in 1..m : j[k].type = it[k].type,
         KindsAt(l, it), NEW t, t.items = j, NEW token, NEW up \in Synced(l, t, token)
  PROVE  Len(up) = Len(j) /\ KindsAt(up, j) /\ \A k \in 1..m : up[k] = l[k]
<1>1. up = SubSeq(l, 1, m)
  BY DEF Synced
<1>2. m \in 0..Len(l)
  OBVIOUS
<1>3. Len(up) = m /\ \A k \in 1..m : up[k] = l[k]
  BY <1>1, <1>2, Prefix
<1>4. \A k \in 1..m : k \in 1..Len(it)
  BY <1>2
<1> QED
  BY <1>3, <1>4 DEF KindsAt

\* One level added.
LEMMA GrowStep ==
  ASSUME NEW S, NEW l \in Seq(S), NEW n \in Nat, n >= 1, Len(l) = n,
         l[n].node.vtype \notin Scalars,
         NEW t, Len(t.items) = n + 1, NEW token, NEW up \in Synced(l, t, token)
  PROVE  /\ Len(up) = n + 1
         /\ \A k \in 1..n : up[k] = l[k]
         /\ \E node \in Part(l[n].node, t.items[n + 1], token) : up[n + 1].node = node
<1> DEFINE j == t.items
<1>0. Last(l) = l[n] /\ Last(j) = j[n + 1]
  BY DEF Last
<1>1. PICK node \in Part(l[n].node, j[n + 1], token) : up = Append(l, Level(l[n], j[n + 1], node))
  <2>1. ~(Len(j) <= Len(l))
    OBVIOUS
  <2> QED
    BY <1>0, <2>1, Zenon DEF Synced
<1> DEFINE x == Level(l[n], j[n + 1], node)
<1>2. x.node = node
  BY DEF Level
<1> HIDE DEF x
<1>3. /\ Len(up) = n + 1 /\ up[n + 1] = x
      /\ \A k \in 1..n : up[k] = l[k]
  <2>1. l \in Seq(S \cup {x})
    BY SeqMonotonic
  <2> QED
    BY <1>1, <2>1, AppendProperties DEF x
<1> QED
  BY <1>1, <1>2, <1>3

\* Nothing opened: the regions around the next spot are those around this one.
LEMMA ListsStay ==
  ASSUME NEW p, NEW q, NEW a, NEW b, ParserAt(p, a), ParserAt(q, b), NEW m, m = Len(q.stack),
         NEW c, Goes(a, c, b), ~Opens(a, c, b), NEW l, NEW up, ListsAt(l, a.in),
         \A k \in 1..m : up[k] = l[k]
  PROVE  ListsAt(up, b.in)
<1>1. /\ b.in = "blocks" => m = 3
      /\ b.in = "block" => m = 4
      /\ b.in = "ids" => m = 5
  BY StackTop, Depths
<1>2. b.in \in {"blocks", "block", "ids"} => up[3] = l[3]
  <2>1. b.in \in {"blocks", "block", "ids"} => 3 \in 1..m
    <3>1. \A x \in {3, 4, 5} : 3 \in 1..x
      OBVIOUS
    <3> QED
      BY <1>1, <3>1
  <2> QED
    BY <2>1
<1>3. b.in = "ids" => up[5] = l[5]
  <2>1. 5 \in 1..5
    OBVIOUS
  <2> QED
    BY <1>1, <2>1
<1> QED
  BY <1>2, <1>3, GoesRegion DEF ListsAt

\* What a value is copied by is for a value.
LEMMA PartOfValue ==
  ASSUME NEW p, NEW c, NEW q \in Parsed(p, c), NEW a, NEW b, StackOK(p), ParserAt(p, a),
         Goes(a, c, b), ~Opens(a, c, b), q.token \notin {"NO", "KS"},
         NEW n, n = Len(p.stack), NEW l, ListsAt(l, a.in),
         l[n].node.vtype \in Kinds[Opened[p.stack[n]]],
         NEW item, NEW node \in Part(l[n].node, item, q.token)
  PROVE  node.vtype \in Scalars
<1>1. a.in \in DOMAIN Beyond /\ (a.in = "blocks" => a = Ready("blocks"))
  BY GoesRegion
<1>2. /\ p.state \in DOMAIN ValueToken /\ Fitting[q.token] \subseteq Scalars
  BY TokenEnds
<1>3. a.in # "blocks"
  <2> SUFFICES ASSUME a.in = "blocks" PROVE FALSE
    OBVIOUS
  <2>1. p.state \in {"OK", "AR", "VA"}
    BY <1>1 DEF ParserAt, Placed
  <2> QED
    BY <1>2, <2>1 DEF ValueToken
<1>4. Opened[p.stack[n]] = ModeOf(a.in)
  <2>1. Last(p.stack) = p.stack[n]
    BY DEF Last
  <2> QED
    BY <1>1, <2>1, StackTop
<1>5. CASE a.in \in Arrays
  <2>1. a.in = "ids"
    BY <1>3, <1>5 DEF Arrays
  <2>2. n = 5 /\ ModeOf("ids") = "ARRAY" /\ l[5].node.kids[1].vtype = "INTEGER"
    BY <2>1, StackTop, Depths, RegionKinds DEF ListsAt, Arrays
  <2>3. l[n].node.vtype = "ARRAY"
    BY <1>4, <2>1, <2>2 DEF Kinds
  <2>4. node = l[n].node.kids[1]
    BY <2>3 DEF Part
  <2> QED
    BY <2>2, <2>4 DEF Scalars
<1>6. CASE a.in \notin Arrays
  <2>1. l[n].node.vtype = "OBJECT"
    BY <1>4, <1>6 DEF Kinds, ModeOf
  <2>2. \E k \in DOMAIN l[n].node.kids :
          node = l[n].node.kids[k] /\ l[n].node.kids[k].vtype \in Fitting[q.token]
    BY <2>1 DEF Part
  <2> QED
    BY <1>2, <2>2
<1> QED
  BY <1>5, <1>6

\* What is opened is what the specification has there.
LEMMA PartOfRegion ==
  ASSUME NEW p, NEW c, NEW a, NEW b, StackOK(p), ParserAt(p, a), Opens(a, c, b),
         NEW x, x.vtype \in Kinds[Opened[Last(p.stack)]],
         Len(p.stack) > 1 => x \in Nodes,
         a.in = "blocks" => x.kids[1].vtype = "OBJECT",
         NEW item, a.at = "value" => item.key = a.key, NEW token,
         NEW node \in Part(x, item, token)
  PROVE  /\ node.vtype = ModeOf(b.in)
         /\ b.in = "blocks" => node.kids[1].vtype = "OBJECT"
         /\ b.in = "ids" => node.kids[1].vtype = "INTEGER"
         /\ b.in = "block" => a.in = "blocks"
<1> DEFINE n == Len(p.stack)
<1>0. Last(p.stack) = p.stack[n] /\ n = Len(StackOf[a.in])
  BY StackTop DEF Last
<1>1. CASE a = Spot("text", "start", NoKey) /\ c.c = "{" /\ b = Ready("grid")
  <2>1. a.in = "text" /\ a.at = "start" /\ b.in = "grid"
    BY <1>1 DEF Spot, Ready
  <2>2. n = 1 /\ p.stack[1] = "DONE"
    BY <1>0, <2>1, Depths DEF StackOK
  <2>3. x.vtype = "none"
    BY <1>0, <2>2 DEF Opened, Kinds
  <2>4. node = RootSpec
    BY <2>3 DEF Part
  <2> QED
    BY <2>1, <2>4, RegionKinds DEF RootSpec, Object, Objects
<1>2. CASE a = Ready("blocks") /\ c.c = "{" /\ b = Ready("block")
  <2>1. a.in = "blocks" /\ b.in = "block"
    BY <1>2 DEF Spot, Ready
  <2>2. /\ n = 3 /\ ModeOf("blocks") = "ARRAY" /\ ModeOf("block") = "OBJECT"
        /\ "blocks" \in DOMAIN Beyond
    BY <1>0, <2>1, Depths, RegionKinds DEF Objects, Arrays
  <2>3. x.vtype = "ARRAY"
    BY <1>0, <2>1, <2>2, StackTop DEF Kinds
  <2>4. node = x.kids[1]
    BY <2>3 DEF Part
  <2> QED
    BY <2>1, <2>2, <2>4
<1>3. ASSUME NEW o \in Objects, NEW k \in DOMAIN Below,
             a = Spot(o, "value", k), Beyond[Below[k]] = After(o), b = Ready(Below[k])
      PROVE  /\ node.vtype = ModeOf(b.in)
             /\ b.in = "blocks" => node.kids[1].vtype = "OBJECT"
             /\ b.in = "ids" => node.kids[1].vtype = "INTEGER"
             /\ b.in = "block" => a.in = "blocks"
  <2>1. a.in = o /\ a.at = "value" /\ a.key = k /\ b.in = Below[k]
    BY <1>3 DEF Spot, Ready
  <2>2. /\ Last(p.stack) = "OBJECT" /\ o \in DOMAIN Beyond /\ ModeOf(o) = "OBJECT"
        /\ Below[k] # "block"
    BY <2>1, StackTop, RegionKinds
  <2>3. item.key = k
    BY <2>1
  <2>4. x.vtype = "OBJECT"
    BY <1>0, <2>1, <2>2, StackTop DEF Kinds
  <2>5. n > 1
    BY <1>0, <2>1, Depths
  <2>6. PICK i \in DOMAIN x.kids :
          node = x.kids[i] /\ x.kids[i].key = k
    BY <2>3, <2>4 DEF Part, SameKey
  <2> QED
    BY <2>1, <2>2, <2>4, <2>5, <2>6, KidsByKey
<1> QED
  BY <1>1, <1>2, <1>3 DEF Opens

\* The stack only grows where a region is opened.
LEMMA OpensWhenDeeper ==
  ASSUME NEW p, NEW c, NEW q \in Parsed(p, c), NEW a, NEW b, StackOK(p),
         ParserAt(p, a), Goes(a, c, b), Len(q.stack) = Len(p.stack) + 1
  PROVE  Opens(a, c, b)
<1>1. Len(p.stack) \in Nat /\ Len(p.stack) >= 1
  BY DEF StackOK
<1>2. ParserAt(q, b)
  BY ParserGoes
<1>3. CASE b.in = a.in
  BY <1>1, <1>2, <1>3, StackTop
<1>4. CASE Closes(a, c, b)
  <2>1. q.stack = Front(p.stack)
    BY <1>4, ParserCloses
  <2>2. Len(Front(p.stack)) = Len(p.stack) - 1
    BY <1>1, LastAndFront DEF StackOK
  <2> QED
    BY <1>1, <2>1, <2>2
<1> QED
  BY <1>3, <1>4, ParserInObject, ParserInArray DEF Goes

\* Where a value opens a region, it is a member of an object.
LEMMA OpensAt ==
  ASSUME NEW a, NEW c, NEW b, Opens(a, c, b), a.at = "value"
  PROVE  a.in \in Objects
<1>1. Spot("text", "start", NoKey).at = "start" /\ Ready("blocks").at = "between"
  BY DEF Spot, Ready, Objects
<1>2. PICK r \in Objects : \E k : a = Spot(r, "value", k)
  BY <1>1 DEF Opens
<1> QED
  BY <1>2 DEF Spot

\* One letter of a saved text: the loader follows the spot.
LEMMA LoaderGoes ==
  ASSUME NEW p, NEW c, NEW q \in Parsed(p, c), NEW t, NEW u,
         StackOK(p), StackOK(q), Follows(p, q), TrailOK(p, t.items), TrailOK(q, u.items),
         TopOK(p, t.items), Shape(p, q, t, u),
         NEW a, NEW b, ParserAt(p, a), Goes(a, c, b), KeyAt(t.key, a),
         NEW l, LoaderOK(t.items, l), LoaderAt(l, t.items, a),
         NEW up \in Synced(l, u, q.token)
  PROVE  LoaderAt(up, u.items, b)
<1> DEFINE i == t.items
           j == u.items
           n == Len(p.stack)
           m == Len(q.stack)
           child == Child(p, q)
<1>1. PICK S : l \in Seq(S)
  BY DEF LoaderOK
<1>2. /\ n \in Nat /\ n >= 1 /\ m \in Nat /\ m >= 1 /\ n <= Len(i) /\ Len(i) \in Nat
      /\ i[n].type = Opened[p.stack[n]] /\ j[m].type = Opened[q.stack[m]]
  <2>1. n \in Nat /\ n >= 1 /\ m \in Nat /\ m >= 1
    BY DEF StackOK
  <2>2. /\ n <= Height(i) /\ \A k \in 1..n : i[k].type = Opened[p.stack[k]]
        /\ \A k \in 1..m : j[k].type = Opened[q.stack[k]] /\ Len(i) >= 1
        /\ \E T : i \in Seq(T)
    BY DEF TrailOK
  <2>3. Len(i) \in Nat
    BY <2>2
  <2> QED
    BY <2>1, <2>2, <2>3, SMTT(60) DEF Height
<1>3. /\ Len(l) = Len(i) /\ KindsAt(l, i) /\ ListsAt(l, a.in)
  BY DEF LoaderAt
<1>4. ParserAt(q, b)
  BY ParserGoes
<1>5. /\ child = "none" => m <= n /\ q.token \in {"NO", "KS"}
      /\ child = "LEAF" => m <= n
      /\ child \notin {"none", "LEAF"} =>
           m = n + 1 /\ child = Opened[q.stack[m]] /\ q.token = "NO"
      /\ child = "LEAF" <=> q.token \notin {"NO", "KS"}
  BY ChildKinds DEF Child
<1>6. Opens(a, c, b) => m = n + 1 /\ p.token = "NO" /\ b.in \in DOMAIN Beyond
  BY ParserOpens
<1> HIDE DEF i, j, n, m, child
<1>7. CASE child = "none"
  <2>1. Len(j) = m /\ \A k \in 1..m : j[k].type = i[k].type
    BY <1>7 DEF Shape, i, j, m, child
  <2>2. m <= Len(i)
    BY <1>2, <1>5, <1>7
  <2>3. Len(up) = Len(j) /\ KindsAt(up, j) /\ \A k \in 1..m : up[k] = l[k]
    <3>1. l \in Seq(S) /\ m \in Nat /\ Len(l) = Len(i) /\ u.items = j
      BY <1>1, <1>2, <1>3 DEF j
    <3>2. KindsAt(l, i) /\ up \in Synced(l, u, q.token)
      BY <1>3
    <3> QED
      BY <2>1, <2>2, <3>1, <3>2, CutStep
  <2>4. ~Opens(a, c, b)
    BY <1>2, <1>5, <1>6, <1>7
  <2>5. ListsAt(up, b.in)
    BY <1>3, <1>4, <2>3, <2>4, ListsStay DEF m
  <2> QED
    BY <2>3, <2>5 DEF LoaderAt, j
<1>8. CASE child # "none" /\ Len(i) = n
  <2>1. /\ Len(j) = n + 1 /\ \A k \in 1..n : j[k].type = i[k].type
        /\ j[n + 1].type = child
        /\ j[n + 1].key = IF Last(p.stack) = "OBJECT" THEN KeyAfter(q, t) ELSE NoKey
    BY <1>8 DEF Shape, i, j, n, child
  <2>2. l[n].node.vtype \in Kinds[Opened[p.stack[n]]] /\ l[n].node.vtype \notin Scalars
    <3>1. l[n].node.vtype \in Kinds[i[n].type]
      BY <1>2, <1>3, <1>8 DEF KindsAt
    <3>2. p.stack[n] \in Modes
      BY <1>2 DEF StackOK, n
    <3> QED
      BY <1>2, <3>1, <3>2 DEF Modes, Opened, Kinds, Scalars
  <2>3. PICK node \in Part(l[n].node, j[n + 1], q.token) :
          /\ Len(up) = n + 1 /\ up[n + 1].node = node
          /\ \A k \in 1..n : up[k] = l[k] /\ up[k].node.vtype \in Kinds[j[k].type]
    <3>1. Len(l) = n /\ Len(u.items) = n + 1
      BY <1>3, <1>8, <2>1 DEF j
    <3>2. /\ Len(up) = n + 1
          /\ \A k \in 1..n : up[k] = l[k]
          /\ \E node \in Part(l[n].node, u.items[n + 1], q.token) : up[n + 1].node = node
      BY <1>1, <1>2, <2>2, <3>1, GrowStep
    <3>3. \A k \in 1..n : up[k].node.vtype \in Kinds[j[k].type]
      BY <1>3, <1>8, <2>1, <3>2 DEF KindsAt
    <3> QED
      BY <3>2, <3>3 DEF j
  <2>4. ASSUME node.vtype \in Kinds[child]
        PROVE  Len(up) = Len(j) /\ KindsAt(up, j)
    BY <1>2, <2>1, <2>3, <2>4 DEF KindsAt
  <2>5. CASE child = "LEAF"
    <3>1. m <= n /\ q.token \notin {"NO", "KS"} /\ ~Opens(a, c, b)
      BY <1>2, <1>5, <1>6, <2>5
    <3>2. node.vtype \in Scalars
      BY <1>2, <1>3, <2>2, <3>1, PartOfValue DEF n
    <3>3. \A k \in 1..m : up[k] = l[k]
      BY <1>2, <2>3, <3>1
    <3>4. ListsAt(up, b.in)
      BY <1>3, <1>4, <3>1, <3>3, ListsStay, SMTT(90) DEF m
    <3> QED
      BY <2>4, <2>5, <3>2, <3>4 DEF LoaderAt, Kinds, j
  <2>6. CASE child # "LEAF"
    <3>1. m = n + 1 /\ child = Opened[q.stack[m]] /\ q.token = "NO"
      BY <1>5, <1>8, <2>6
    <3>2. Opens(a, c, b)
      BY <1>2, <3>1, OpensWhenDeeper DEF n, m
    <3>3. a.at = "value" => j[n + 1].key = a.key
      <4> SUFFICES ASSUME a.at = "value" PROVE j[n + 1].key = a.key
        OBVIOUS
      <4>1. Last(p.stack) = "OBJECT"
        BY <3>2, StackTop, OpensAt
      <4> QED
        BY <2>1, <3>1, <4>1 DEF KeyAfter, KeyAt
    <3>4. n > 1 => l[n].node \in Nodes
      BY <1>2, <1>3, <1>8 DEF LoaderOK
    <3>5. /\ node.vtype = ModeOf(b.in)
          /\ b.in = "blocks" => node.kids[1].vtype = "OBJECT"
          /\ b.in = "ids" => node.kids[1].vtype = "INTEGER"
          /\ b.in = "block" => a.in = "blocks"
      <4>1. l[n].node.vtype \in Kinds[Opened[Last(p.stack)]]
        BY <2>2 DEF n, Last
      <4>2. a.in = "blocks" => n = 3
        BY StackTop, Depths DEF n
      <4>3. a.in = "blocks" => l[n].node.kids[1].vtype = "OBJECT"
        BY <1>3, <4>2 DEF ListsAt
      <4>4. Len(p.stack) > 1 => l[n].node \in Nodes
        BY <3>4 DEF n
      <4> DEFINE x == l[n].node
                 item == j[n + 1]
                 token == q.token
      <4>5. /\ x.vtype \in Kinds[Opened[Last(p.stack)]]
            /\ Len(p.stack) > 1 => x \in Nodes
            /\ a.in = "blocks" => x.kids[1].vtype = "OBJECT"
            /\ a.at = "value" => item.key = a.key
            /\ node \in Part(x, item, token)
        BY <3>3, <4>1, <4>3, <4>4
      <4> HIDE DEF x, item, token
      <4> QED
        BY <3>2, <4>5, PartOfRegion
    <3>6. child = ModeOf(b.in)
      <4>1. b.in \in DOMAIN Beyond /\ Last(q.stack) = q.stack[m]
        BY <1>6, <3>2 DEF Last, m
      <4> QED
        BY <1>4, <3>1, <4>1, StackTop
    <3>7. node.vtype \in Kinds[child]
      BY <3>5, <3>6 DEF ModeOf, Kinds
    <3>8. ListsAt(up, b.in)
      <4>1. /\ b.in = "blocks" => n = 2
            /\ b.in = "block" => n = 3
            /\ b.in = "ids" => n = 4 /\ a.in = "block"
        <5>1. m = Len(StackOf[b.in]) /\ Beyond[b.in].in = a.in
          BY <1>4, <3>2, StackTop, ParserOpens DEF m
        <5>2. Beyond["ids"].in = "block"
          BY DEF Beyond, After, Spot
        <5>3. b.in = "blocks" => m = 3
          BY <5>1, Depths
        <5>4. b.in = "block" => m = 4
          BY <5>1, Depths
        <5>5. b.in = "ids" => m = 5 /\ a.in = "block"
          BY <5>1, <5>2, Depths
        <5> QED
          BY <1>2, <3>1, <5>3, <5>4, <5>5
      <4>2. CASE b.in = "blocks"
        BY <2>3, <3>5, <4>1, <4>2 DEF ListsAt
      <4>3. CASE b.in = "block"
        BY <1>3, <2>3, <3>5, <4>1, <4>3 DEF ListsAt
      <4>4. CASE b.in = "ids"
        BY <1>3, <2>3, <3>5, <4>1, <4>4 DEF ListsAt
      <4> QED
        BY <4>2, <4>3, <4>4 DEF ListsAt
    <3> QED
      BY <2>4, <3>7, <3>8 DEF LoaderAt, j
  <2> QED
    BY <2>5, <2>6
<1>9. child # "none" => Len(i) = n
  <2> SUFFICES ASSUME child # "none" PROVE Len(i) = n
    OBVIOUS
  <2>1. Height(i) = n
    BY DEF Shape, i, n, child
  <2>2. CASE child = "LEAF"
    <3>1. p.state \in DOMAIN ValueToken
      BY <1>5, <2>2, TokenEnds
    <3>2. p.state \notin {"KE", "VA", "OK"}
      BY <3>1 DEF ValueToken
    <3>3. i[Len(i)].type # "LEAF"
      BY <3>2 DEF TopOK, i
    <3> QED
      BY <2>1, <3>3 DEF Height
  <2>3. CASE child # "LEAF"
    <3>1. m = n + 1 /\ m > n
      BY <1>2, <1>5, <2>3
    <3>2. p.token = "NO"
      <4>1. Opens(a, c, b)
        BY <3>1, OpensWhenDeeper DEF n, m
      <4> QED
        BY <1>6, <4>1
    <3> QED
      BY <3>2 DEF TopOK, i, n
  <2> QED
    BY <2>2, <2>3
<1> QED
  BY <1>7, <1>8, <1>9

-----------------------------------------------------------------------------
(* The reader on a saved text *)

End == Spot("text", "done", NoKey)

\* Where the reader of a saved text is, and that the rest of the text leads from
\* there to its end, unless a letter of it was refused.
Matched(a) ==
  /\ ParserAt(parser, a) /\ KeyAt(trail.key, a) /\ LoaderAt(loader, trail.items, a)
  /\ verdict # "refused" => Walks(todo, a, End)
SavedInv == /\ ReaderInv
            /\ TopOK(parser, trail.items)
            /\ saved => \E a : Matched(a)
            /\ verdict = "ok" => Finished

\* At the first letter everything is where the first spot says.
LEMMA SavedStarts == ReaderInit => SavedInv
<1> SUFFICES ASSUME ReaderInit PROVE SavedInv
  OBVIOUS
<1> DEFINE root == [type |-> "ROOT", isItem |-> FALSE, idx |-> 0, key |-> NoKey, count |-> 0]
           a == Spot("text", "start", NoKey)
<1>1. /\ parser = [state |-> "GO", stack |-> <<"DONE">>, lex |-> "", token |-> "NO"]
      /\ trail.items = <<root>> /\ loader = <<Bottom>> /\ verdict = "reading"
  BY DEF ReaderInit, Start
<1>2. /\ parser.state = "GO" /\ parser.stack = <<"DONE">> /\ parser.token = "NO"
      /\ Len(trail.items) = 1 /\ trail.items[1].type = "ROOT"
      /\ Len(loader) = 1 /\ loader[1] = Bottom
  <2>1. parser.state = "GO" /\ parser.stack = <<"DONE">> /\ parser.token = "NO"
    BY <1>1
  <2>2. root.type = "ROOT"
    OBVIOUS
  <2> HIDE DEF root
  <2>3. Len(trail.items) = 1 /\ trail.items[1] = root
    <3>1. trail.items = <<root>>
      BY <1>1
    <3>2. \A x : Len(<<x>>) = 1 /\ <<x>>[1] = x
      OBVIOUS
    <3> QED
      BY <3>1, <3>2
  <2>4. Len(loader) = 1 /\ loader[1] = Bottom
    BY <1>1
  <2> QED
    BY <2>1, <2>2, <2>3, <2>4
<1>3. ReaderInv
  BY ReaderStarts
<1>4. TopOK(parser, trail.items)
  <2>1. Len(parser.stack) = 1
    BY <1>2
  <2> QED
    BY <1>2, <2>1 DEF TopOK
<1>5. ASSUME saved PROVE Matched(a)
  <2>1. a.in = "text" /\ a.at = "start"
    BY DEF Spot
  <2>2. ParserAt(parser, a)
    BY <1>2, <2>1, RegionKinds, Spots DEF ParserAt, StackAt, StackOf, Placed, Objects
  <2>3. LoaderAt(loader, trail.items, a)
    <3>1. Bottom.node.vtype = "none" /\ "none" \in Kinds["ROOT"]
      BY DEF Bottom, Leaf, Kinds
    <3>2. KindsAt(loader, trail.items)
      BY <1>2, <3>1 DEF KindsAt
    <3> QED
      BY <1>2, <2>1, <3>2 DEF LoaderAt, ListsAt
  <2>4. KeyAt(trail.key, a)
    BY <2>1 DEF KeyAt
  <2>5. Walks(todo, a, End)
    <3>1. doc \in Docs /\ todo = Text(doc)
      BY <1>5 DEF ReaderInit
    <3> QED
      BY <3>1, TextWalks DEF End
  <2> QED
    BY <2>2, <2>3, <2>4, <2>5 DEF Matched
<1> QED
  BY <1>1, <1>3, <1>4, <1>5 DEF SavedInv

\* It stays so, letter by letter.
LEMMA SavedKeeps == SavedInv /\ [ReaderNext]_readerVars => SavedInv'
<1> SUFFICES ASSUME SavedInv, [ReaderNext]_readerVars PROVE SavedInv'
  OBVIOUS
<1>0. ReaderInv'
  BY ReaderKeeps DEF SavedInv
<1>1. CASE UNCHANGED readerVars
  BY <1>0, <1>1 DEF SavedInv, readerVars, Matched, Finished
<1>2. CASE EndOfText
  <2>1. /\ UNCHANGED <<saved, todo, parser, trail, loader>> /\ verdict = "reading"
        /\ verdict' = "ok" => Finished
    BY <1>2 DEF EndOfText
  <2>2. \A a : Matched(a) => Matched(a)'
    BY <2>1 DEF Matched
  <2> QED
    BY <1>0, <2>1, <2>2 DEF SavedInv, Finished
<1>3. CASE ReadLetter
  <2>1. CASE UNCHANGED <<parser, trail, loader>> /\ verdict' = "refused"
    <3>1. \A a : Matched(a) => Matched(a)'
      BY <2>1 DEF Matched
    <3> QED
      BY <1>0, <1>3, <2>1, <3>1 DEF SavedInv, ReadLetter
  <2>2. ASSUME NEW o \in Outcome(Now, Head(todo)),
               parser' = o.parser, trail' = o.trail, loader' = o.loader,
               verdict = "reading", verdict' = verdict
        PROVE  SavedInv'
    <3> DEFINE c == Head(todo)
    <3>a. PICK q \in Parsed(parser, c) : \E u \in Trailed(parser, q, trail) :
             \E up \in Synced(loader, u, q.token) :
               parser' = q /\ trail' = u /\ loader' = up
      BY <2>2, ReadParts
    <3>b. PICK u \in Trailed(parser, q, trail) : \E up \in Synced(loader, u, q.token) :
            parser' = q /\ trail' = u /\ loader' = up
      BY <3>a
    <3>1. PICK up \in Synced(loader, u, q.token) :
            parser' = q /\ trail' = u /\ loader' = up
      BY <3>b
    <3> HIDE DEF c
    <3>2. /\ StackOK(parser) /\ TrailOK(parser, trail.items)
          /\ LoaderOK(trail.items, loader) /\ TopOK(parser, trail.items)
      BY DEF SavedInv, ReaderInv
    <3>3. StackOK(q) /\ Follows(parser, q)
      BY <3>2, ParserStep
    <3>4. TrailOK(q, u.items) /\ Shape(parser, q, trail, u)
      BY <3>2, <3>3, TrailStep
    <3>5. TopOK(q, u.items)
      BY <3>2, <3>3, <3>4, TopStep
    <3>6. ASSUME saved, NEW a, Matched(a)
          PROVE  \E b : Matched(b)'
      <4>1. ParserAt(parser, a) /\ KeyAt(trail.key, a) /\ LoaderAt(loader, trail.items, a)
        BY <3>6 DEF Matched
      <4>2. PICK b : Goes(a, c, b) /\ Walks(Tail(todo), b, End)
        <5>1. Walks(todo, a, End) /\ todo # <<>>
          BY <1>3, <2>2, <3>6 DEF Matched, ReadLetter
        <5> QED
          BY <5>1, WalkOn DEF c
      <4>3. /\ ParserAt(q, b)
            /\ b.at = "colon" => q.token = "KS" /\ q.lex = b.key /\ Len(q.stack) = Len(parser.stack)
            /\ b.at = "value" => /\ q.token = "NO" /\ Len(q.stack) = Len(parser.stack)
                                 /\ a.key = b.key /\ a.at = "colon"
        BY <4>1, <4>2, ParserGoes
      <4>4. LoaderAt(up, u.items, b)
        BY <3>2, <3>3, <3>4, <4>1, <4>2, LoaderGoes
      <4>5. KeyAt(u.key, b)
        <5>1. b.at \in {"colon", "value"} => Child(parser, q) = "none"
          <6>1. Len(parser.stack) <= Len(parser.stack)
            BY <3>2 DEF StackOK
          <6> QED
            BY <4>3, <6>1 DEF Child
        <5>2. b.at \in {"colon", "value"} => u.key = KeyAfter(q, trail)
          BY <3>4, <5>1 DEF Shape
        <5> QED
          BY <4>1, <4>3, <5>2 DEF KeyAt, KeyAfter
      <4>6. todo' = Tail(todo)
        BY <1>3 DEF ReadLetter
      <4>7. Matched(b)'
        BY <3>1, <4>2, <4>3, <4>4, <4>5, <4>6 DEF Matched
      <4> QED
        BY <4>7
    <3>7. saved' = saved
      BY <1>3 DEF ReadLetter
    <3> QED
      BY <1>0, <2>2, <3>1, <3>5, <3>6, <3>7 DEF SavedInv
  <2> QED
    BY <1>3, <2>1, <2>2 DEF ReadLetter
<1> QED
  BY <1>1, <1>2, <1>3 DEF ReaderNext

\* Where the stacks match a spot they match one another.
LEMMA StepBelow == SavedInv => StacksInStep
<1> SUFFICES ASSUME SavedInv, saved PROVE
      LET items == trail.items
          open  == IF Last(items).type = "LEAF" THEN Front(items) ELSE items
      IN  /\ Len(loader) = Len(items)
          /\ \A k \in DOMAIN loader : loader[k].node.vtype \in Kinds[items[k].type]
          /\ Len(open) >= Len(parser.stack)
          /\ parser.token \in {"NO", "KS"} => Len(open) = Len(parser.stack)
          /\ \A k \in DOMAIN parser.stack : open[k].type = Opened[parser.stack[k]]
  BY DEF StacksInStep
<1> DEFINE items == trail.items
           n == Len(parser.stack)
<1>1. StackOK(parser) /\ TrailOK(parser, items) /\ LoaderOK(items, loader) /\ TopOK(parser, items)
  BY DEF SavedInv, ReaderInv
<1>2. Len(loader) = Len(items) /\ KindsAt(loader, items)
  <2>1. PICK a : Matched(a)
    BY DEF SavedInv
  <2> QED
    BY <2>1 DEF Matched, LoaderAt
<1>3. DOMAIN loader = 1..Len(loader) /\ DOMAIN parser.stack = 1..n
  <2>1. PICK S : loader \in Seq(S)
    BY <1>1 DEF LoaderOK
  <2>2. parser.stack \in Seq(Modes)
    BY <1>1 DEF StackOK
  <2> QED
    BY <2>1, <2>2
<1>4. /\ Len(Open(items)) = Height(items)
      /\ \A k \in 1..Height(items) : Open(items)[k].type = items[k].type
      /\ Height(items) \in Nat
  BY <1>1, OpenPart
<1>5. n \in Nat /\ n <= Height(items) /\ \A k \in 1..n : items[k].type = Opened[parser.stack[k]]
  BY <1>1 DEF TrailOK, StackOK
<1>6. parser.token \in {"NO", "KS"} => Height(items) = n
  BY <1>1 DEF TopOK, Height
<1>7. \A k \in 1..n : Open(items)[k].type = Opened[parser.stack[k]]
  BY <1>4, <1>5
<1>8. \A k \in DOMAIN loader : loader[k].node.vtype \in Kinds[items[k].type]
  BY <1>2, <1>3 DEF KindsAt
<1> HIDE DEF items, n
<1> QED
  BY <1>2, <1>3, <1>4, <1>5, <1>6, <1>7, <1>8 DEF Open, items, n

\* Where a text may end there is nothing left of it.
LEMMA WholeBelow == SavedInv => CutNeverAccepted
<1> SUFFICES ASSUME SavedInv, saved, verdict = "ok" PROVE todo = <<>>
  BY DEF CutNeverAccepted
<1>1. PICK a : Matched(a)
  BY DEF SavedInv
<1>2. /\ parser.state = "OK" /\ Len(parser.stack) = 1
      /\ ParserAt(parser, a) /\ Walks(todo, a, End)
  BY <1>1 DEF SavedInv, Finished, Matched
<1>3. a.in = "text"
  <2>1. Len(StackOf[a.in]) = 1 /\ a.in \in DOMAIN StackOf
    BY <1>2, StackTop DEF ParserAt
  <2>2. a.in \in {"text", "grid", "blocks", "block", "ids", "ctl"}
    BY <2>1 DEF StackOf
  <2> QED
    BY <2>1, <2>2, Depths
<1>4. ASSUME todo # <<>> PROVE FALSE
  <2>1. PICK b : Goes(a, Head(todo), b)
    BY <1>2, <1>4, WalkOn
  <2>2. Opens(a, Head(todo), b)
    <3>1. "text" \notin DOMAIN Beyond
      BY DEF Beyond
    <3> QED
      BY <1>3, <2>1, <3>1, GoesRegion
  <2>3. a.at = "start"
    <3>1. /\ Spot("text", "start", NoKey).at = "start" /\ Ready("blocks").in = "blocks"
          /\ "text" \notin Objects
      BY DEF Spot, Ready, Objects
    <3>2. \A r, k : a = Spot(r, "value", k) => a.in = r
      BY DEF Spot
    <3>3. \/ a = Spot("text", "start", NoKey)
          \/ a = Ready("blocks")
          \/ \E r \in Objects, k \in DOMAIN Below : a = Spot(r, "value", k)
      BY <2>2, Zenon DEF Opens
    <3> QED
      BY <1>3, <3>1, <3>2, <3>3
  <2>4. parser.state = "GO"
    BY <1>2, <2>3 DEF ParserAt, Placed
  <2> QED
    BY <1>2, <2>4
<1> QED
  BY <1>4

\* Whatever grid was saved, the parser, the trail and the loader agree at every
\* letter of its text: on what is open, on the kind of each container, and on the
\* part of the specification that each item and value is copied by.
THEOREM StacksStayInStep == ReaderSpec => []StacksInStep
<1>1. SavedInv => StacksInStep
  BY StepBelow
<1> QED
  BY <1>1, SavedStarts, SavedKeeps, PTL DEF ReaderSpec

\* Wherever the text of a grid is cut, what is left of it is not accepted.
THEOREM CutIsNeverAccepted == ReaderSpec => []CutNeverAccepted
<1>1. SavedInv => CutNeverAccepted
  BY WholeBelow
<1> QED
  BY <1>1, SavedStarts, SavedKeeps, PTL DEF ReaderSpec
=============================================================================
