-------------------------- MODULE SpfgBlockProofs --------------------------
(***************************************************************************)
(* What the text of a block makes of the reader.  The text is followed     *)
(* along the structure it is written in: letters make keys and values,     *)
(* these make members, and members make blocks.  Of each there is a lemma  *)
(* that says from where to where it takes the reader, and what it leaves   *)
(* in the store.                                                           *)
(***************************************************************************)
EXTENDS SpfgReaderProofs

-----------------------------------------------------------------------------
(* The parser, letter by letter *)

\* There is no choice.
Only(S, x) == S = {x}

\* Inside a lexeme, or at the start of one.
LEMMA MoveParsed ==
  ASSUME NEW p, NEW l, p.state \in DOMAIN Moves, l.c \in DOMAIN Moves[p.state]
  PROVE  LET to == Moves[p.state][l.c]
         IN  Only(Parsed(p, l),
                  [state |-> to, stack |-> p.stack, token |-> Token(p.state, to),
                   lex |-> IF p.state \in {"OB", "KE", "VA", "AR"} THEN l.v ELSE p.lex])
<1>1. p.state # "ST"
  BY MovesKnown
<1> QED
  BY <1>1, Zenon DEF Parsed, Only

\* The rules again, as far as saved texts need them.
Taken(p, c, to, st) ==
  \/ c = "{" /\ p.state \in {"GO", "VA", "AR"} /\ to = "OB" /\ st = Append(p.stack, "KEY")
  \/ c = "[" /\ p.state \in {"GO", "VA", "AR"} /\ to = "AR" /\ st = Append(p.stack, "ARRAY")
  \/ c = "}" /\ p.state \in Ending /\ Last(p.stack) = "OBJECT" /\ to = "OK" /\ st = Front(p.stack)
  \/ c = "]" /\ p.state \in Ending \cup {"AR"} /\ Last(p.stack) = "ARRAY"
     /\ to = "OK" /\ st = Front(p.stack)
  \/ c = "," /\ p.state \in Ending /\ Last(p.stack) = "OBJECT"
     /\ to = "KE" /\ st = Append(Front(p.stack), "KEY")
  \/ c = "," /\ p.state \in Ending /\ Last(p.stack) = "ARRAY" /\ to = "VA" /\ st = p.stack
  \/ c = ":" /\ p.state = "CO" /\ Last(p.stack) = "KEY"
     /\ to = "VA" /\ st = Append(Front(p.stack), "OBJECT")
  \/ c = "quote" /\ p.state = "ST" /\ Last(p.stack) = "KEY" /\ to = "CO" /\ st = p.stack
  \/ c = "quote" /\ p.state = "ST" /\ Last(p.stack) \in {"ARRAY", "OBJECT"}
     /\ to = "OK" /\ st = p.stack

\* A rule of the list is one of the rules.
LEMMA TakenIsThere ==
  ASSUME NEW p, NEW c, NEW to, NEW st, Taken(p, c, to, st), Len(st) <= Depth
  PROVE  \E r \in Structured(p, c) : r.to = to /\ r.stack = st
<1> DEFINE rule(char, in, on) == [c |-> char, in |-> in, on |-> on, to |-> to, stack |-> st]
<1>1. CASE c = "{" /\ p.state \in {"GO", "VA", "AR"} /\ to = "OB" /\ st = Append(p.stack, "KEY")
  <2>1. rule("{", {"GO", "VA", "AR"}, {Last(p.stack)}) \in Structured(p, c)
    BY <1>1, Zenon DEF Structured
  <2> QED
    BY <2>1
<1>2. CASE c = "[" /\ p.state \in {"GO", "VA", "AR"} /\ to = "AR" /\ st = Append(p.stack, "ARRAY")
  <2>1. rule("[", {"GO", "VA", "AR"}, {Last(p.stack)}) \in Structured(p, c)
    BY <1>2, Zenon DEF Structured
  <2> QED
    BY <2>1
<1>3. CASE c = "}" /\ p.state \in Ending /\ Last(p.stack) = "OBJECT"
           /\ to = "OK" /\ st = Front(p.stack)
  <2>1. rule("}", Ending, {"OBJECT"}) \in Structured(p, c)
    BY <1>3, Zenon DEF Structured
  <2> QED
    BY <2>1
<1>4. CASE c = "]" /\ p.state \in Ending \cup {"AR"} /\ Last(p.stack) = "ARRAY"
           /\ to = "OK" /\ st = Front(p.stack)
  <2>1. rule("]", Ending \cup {"AR"}, {"ARRAY"}) \in Structured(p, c)
    BY <1>4, Zenon DEF Structured
  <2> QED
    BY <2>1
<1>5. CASE c = "," /\ p.state \in Ending /\ Last(p.stack) = "OBJECT"
           /\ to = "KE" /\ st = Append(Front(p.stack), "KEY")
  <2>1. rule(",", Ending, {"OBJECT"}) \in Structured(p, c)
    BY <1>5, Zenon DEF Structured
  <2> QED
    BY <2>1
<1>6. CASE c = "," /\ p.state \in Ending /\ Last(p.stack) = "ARRAY" /\ to = "VA" /\ st = p.stack
  <2>1. rule(",", Ending, {"ARRAY"}) \in Structured(p, c)
    BY <1>6, Zenon DEF Structured
  <2> QED
    BY <2>1
<1>7. CASE c = ":" /\ p.state = "CO" /\ Last(p.stack) = "KEY"
           /\ to = "VA" /\ st = Append(Front(p.stack), "OBJECT")
  <2>1. rule(":", {"CO"}, {"KEY"}) \in Structured(p, c)
    BY <1>7, Zenon DEF Structured
  <2> QED
    BY <2>1
<1>8. CASE c = "quote" /\ p.state = "ST" /\ Last(p.stack) = "KEY" /\ to = "CO" /\ st = p.stack
  <2>1. rule("quote", {"ST"}, {"KEY"}) \in Structured(p, c)
    BY <1>8, Zenon DEF Structured
  <2> QED
    BY <2>1
<1>9. CASE c = "quote" /\ p.state = "ST" /\ Last(p.stack) \in {"ARRAY", "OBJECT"}
           /\ to = "OK" /\ st = p.stack
  <2>1. rule("quote", {"ST"}, {"ARRAY", "OBJECT"}) \in Structured(p, c)
    BY <1>9, Zenon DEF Structured
  <2> QED
    BY <2>1
<1> QED
  BY <1>1, <1>2, <1>3, <1>4, <1>5, <1>6, <1>7, <1>8, <1>9 DEF Taken

\* And the only one that lets the letter through.
LEMMA RuleParsed ==
  ASSUME NEW p, NEW l, NEW to, NEW st, Taken(p, l.c, to, st), Len(st) <= Depth
  PROVE  Only(Parsed(p, l), [state |-> to, stack |-> st, token |-> Token(p.state, to),
                             lex |-> p.lex])
<1>1. PICK r \in Structured(p, l.c) : r.to = to /\ r.stack = st
  BY TakenIsThere
<1>2. ASSUME NEW x \in Structured(p, l.c)
      PROVE  x.to = to /\ x.stack = st
  <2> DEFINE c == l.c
  <2>0. x \in Structured(p, c)
    OBVIOUS
  <2>9. ASSUME NEW d, NEW in, NEW on, NEW too, NEW stack, Rule(p, x, d, in, on, too, stack)
        PROVE  d = c
    BY <2>0, <2>9, RuleCases, ZenonT(60) DEF Rule
  <2>1. Taken(p, c, to, st)
    OBVIOUS
  <2> HIDE DEF c
  <2>2. CASE c = "{"
    <3>1. x.to = "OB" /\ x.stack = Append(p.stack, "KEY")
      BY <2>0, <2>2, RuleOf, ZenonT(60)
    <3>2. to = "OB" /\ st = Append(p.stack, "KEY")
      BY <2>1, <2>2 DEF Taken
    <3> QED
      BY <3>1, <3>2
  <2>3. CASE c = "["
    <3>1. x.to = "AR" /\ x.stack = Append(p.stack, "ARRAY")
      BY <2>0, <2>3, RuleOf, ZenonT(60)
    <3>2. to = "AR" /\ st = Append(p.stack, "ARRAY")
      BY <2>1, <2>3 DEF Taken
    <3> QED
      BY <3>1, <3>2
  <2>4. CASE c = "}"
    <3>1. x.to = "OK" /\ x.stack = Front(p.stack)
      BY <2>0, <2>4, RuleOf
    <3>2. to = "OK" /\ st = Front(p.stack)
      BY <2>1, <2>4 DEF Taken
    <3> QED
      BY <3>1, <3>2
  <2>5. CASE c = "]"
    <3>1. x.to = "OK" /\ x.stack = Front(p.stack)
      BY <2>0, <2>5, RuleOf
    <3>2. to = "OK" /\ st = Front(p.stack)
      BY <2>1, <2>5 DEF Taken
    <3> QED
      BY <3>1, <3>2
  <2>6. CASE c = ","
    <3>1. \/ Last(p.stack) = "OBJECT" /\ x.to = "KE" /\ x.stack = Append(Front(p.stack), "KEY")
          \/ Last(p.stack) = "ARRAY" /\ x.to = "VA" /\ x.stack = p.stack
      <4>1. \/ Rule(p, x, ",", Ending, {"OBJECT"}, "KE", Append(Front(p.stack), "KEY"))
            \/ Rule(p, x, ",", Ending, {"ARRAY"}, "VA", p.stack)
        BY <2>0, <2>9, <2>6, RuleCases
      <4> QED
        BY <4>1 DEF Rule
    <3>2. \/ Last(p.stack) = "OBJECT" /\ to = "KE" /\ st = Append(Front(p.stack), "KEY")
          \/ Last(p.stack) = "ARRAY" /\ to = "VA" /\ st = p.stack
      BY <2>1, <2>6 DEF Taken
    <3> QED
      BY <3>1, <3>2
  <2>7. CASE c = ":"
    <3>1. x.to = "VA" /\ x.stack = Append(Front(p.stack), "OBJECT")
      <4>1. Rule(p, x, ":", {"CO"}, {"KEY"}, "VA", Append(Front(p.stack), "OBJECT"))
        BY <2>0, <2>9, <2>7, RuleCases
      <4> QED
        BY <4>1 DEF Rule
    <3>2. to = "VA" /\ st = Append(Front(p.stack), "OBJECT")
      BY <2>1, <2>7 DEF Taken
    <3> QED
      BY <3>1, <3>2
  <2>8. CASE c = "quote"
    <3>1. /\ x.stack = p.stack
          /\ \/ Last(p.stack) = "KEY" /\ x.to = "CO"
             \/ Last(p.stack) \in {"ARRAY", "OBJECT"} /\ x.to = "OK"
      BY <2>0, <2>8, RuleOf
    <3>2. /\ st = p.stack
          /\ \/ Last(p.stack) = "KEY" /\ to = "CO"
             \/ Last(p.stack) \in {"ARRAY", "OBJECT"} /\ to = "OK"
      BY <2>1, <2>8 DEF Taken
    <3> QED
      BY <3>1, <3>2
  <2> QED
    BY <2>1, <2>2, <2>3, <2>4, <2>5, <2>6, <2>7, <2>8 DEF Taken
<1>3. ~(p.state \in DOMAIN Moves /\ l.c \in DOMAIN Moves[p.state])
  BY MovesKnown DEF Taken
<1>4. ~(p.state = "ST" /\ l.c # "quote")
  BY DEF Taken, Ending
<1>5. Parsed(p, l) = {[state |-> x.to, stack |-> x.stack, token |-> Token(p.state, x.to),
                       lex |-> p.lex] : x \in Structured(p, l.c)}
  BY <1>3, <1>4, Zenon DEF Parsed
<1> QED
  BY <1>1, <1>2, <1>5 DEF Only

\* After a value there is no place for another, nor after a comma for the end.
LEMMA NotParsed ==
  ASSUME NEW p, NEW l, \/ p.state = "OK" /\ l.c = "{"
                       \/ p.state = "VA" /\ l.c = "]"
  PROVE  Parsed(p, l) = {}
<1>1. ~(p.state \in DOMAIN Moves /\ l.c \in DOMAIN Moves[p.state])
  BY MovesKnown
<1>2. Structured(p, l.c) = {}
  <2> SUFFICES ASSUME NEW r \in Structured(p, l.c) PROVE FALSE
    OBVIOUS
  <2>2. CASE l.c = "{"
    <3>1. p.state \in {"GO", "VA", "AR"}
      BY <2>2, RuleOf
    <3> QED
      BY <2>2, <3>1
  <2>3. CASE l.c = "]"
    <3>1. p.state \in Ending \cup {"AR"}
      BY <2>3, RuleOf
    <3> QED
      BY <2>3, <3>1 DEF Ending
  <2> QED
    BY <2>2, <2>3
<1>3. Parsed(p, l) = {[state |-> x.to, stack |-> x.stack, token |-> Token(p.state, x.to),
                       lex |-> p.lex] : x \in Structured(p, l.c)}
  BY <1>1, Zenon DEF Parsed
<1> QED
  BY <1>2, <1>3

-----------------------------------------------------------------------------
(* The other stages, letter by letter *)

\* When the stages leave no choice, there is none.
LEMMA OneOutcome ==
  ASSUME NEW now, NEW l, NEW q, NEW t, NEW up, Only(Parsed(now.parser, l), q),
         Only(Trailed(now.parser, q, now.trail), t), Only(Synced(now.loader, t, q.token), up)
  PROVE  /\ Extracted(now.store, up, t, q) = {} => Outcome(now, l) = {}
         /\ \A s : Only(Extracted(now.store, up, t, q), s) =>
              Only(Outcome(now, l), [parser |-> q, trail |-> t, loader |-> up, store |-> s])
<1> DEFINE stored(p, u, x) == {[parser |-> p, trail |-> u, loader |-> x, store |-> s] :
                               s \in Extracted(now.store, x, u, p)}
           loaded(p, u) == UNION {stored(p, u, x) : x \in Synced(now.loader, u, p.token)}
           trailed(p) == UNION {loaded(p, u) : u \in Trailed(now.parser, p, now.trail)}
<1> USE DEF Only
<1>1. Outcome(now, l) = UNION {trailed(p) : p \in Parsed(now.parser, l)}
  BY Zenon DEF Outcome
<1>2. loaded(q, t) = stored(q, t, up)
  <2> HIDE DEF stored
  <2> QED
    OBVIOUS
<1>3. trailed(q) = loaded(q, t)
  <2> HIDE DEF loaded
  <2> QED
    OBVIOUS
<1>4. UNION {trailed(p) : p \in Parsed(now.parser, l)} = trailed(q)
  <2> HIDE DEF trailed
  <2> QED
    OBVIOUS
<1>5. Outcome(now, l) = stored(q, t, up)
  BY <1>1, <1>2, <1>3, <1>4
<1> QED
  BY <1>5

\* A letter that the parser refuses is refused.
LEMMA NoOutcome ==
  ASSUME NEW now, NEW l, Parsed(now.parser, l) = {}
  PROVE  Outcome(now, l) = {}
<1> SUFFICES ASSUME NEW o \in Outcome(now, l) PROVE FALSE
  OBVIOUS
<1> QED
  BY OutcomeParts

IsSeq(s) == \E S : s \in Seq(S)

\* What is open around a spot: the modes of the parser, the items of the trail and
\* the levels of the loader.
Context(K) ==
  LET n == Len(K.stack)
  IN  /\ IsSeq(K.stack) /\ IsSeq(K.items) /\ IsSeq(K.levels)
      /\ n >= 1 /\ Len(K.items) = n /\ Len(K.levels) = n
      /\ \A k \in 1..n : K.items[k].type # "LEAF"

\* The trail and the loader follow a context exactly, or are above it: by a value
\* that has just ended, or by containers that have just been closed.
Exact(now, K) == now.trail.items = K.items /\ now.loader = K.levels
Loose(now, K) ==
  LET j == now.trail.items
      n == Len(K.stack)
  IN  /\ IsSeq(j) /\ IsSeq(now.loader)
      /\ Len(now.loader) = Len(j) /\ Len(j) >= n
      /\ \A k \in 1..n : j[k] = K.items[k] /\ now.loader[k] = K.levels[k]
      /\ \A k \in 1..Len(j) - 1 : j[k].type # "LEAF"
      /\ j[Len(j)].type = "LEAF" => Len(j) > n

\* To follow a context exactly is to be no further above it.
LEMMA ExactIsLoose == ASSUME NEW now, NEW K, Context(K), Exact(now, K) PROVE Loose(now, K)
<1>1. now.trail.items = K.items /\ now.loader = K.levels
  BY DEF Exact
<1> QED
  BY <1>1 DEF Context, Loose

\* A part of a sequence that agrees with another one as far as that goes is that one.
LEMMA PrefixIs ==
  ASSUME NEW S, NEW s \in Seq(S), NEW T, NEW t \in Seq(T), Len(t) <= Len(s),
         \A k \in 1..Len(t) : s[k] = t[k]
  PROVE  SubSeq(s, 1, Len(t)) = t
<1> DEFINE n == Len(t)
           U == S \cup T
<1>1. n \in 0..Len(s) /\ s \in Seq(U) /\ t \in Seq(U)
  <2>1. s \in Seq(U) /\ t \in Seq(U)
    BY SeqMonotonic
  <2> QED
    BY <2>1
<1> HIDE DEF U
<1>2. /\ SubSeq(s, 1, n) \in Seq(U) /\ Len(SubSeq(s, 1, n)) = n
      /\ \A k \in 1..n : SubSeq(s, 1, n)[k] = s[k]
  <2> HIDE DEF n
  <2> QED
    BY <1>1, Prefix
<1> QED
  BY <1>1, <1>2, SeqEqual

\* A letter that ends no token and opens nothing brings the trail and the loader
\* down to what is open.
LEMMA Quiet ==
  ASSUME NEW K, Context(K), NEW now, Loose(now, K), NEW l, NEW q,
         Only(Parsed(now.parser, l), q), q.token = "NO", Len(q.stack) = Len(K.stack),
         Len(q.stack) <= Len(now.parser.stack)
  PROVE  Only(Outcome(now, l),
              [parser |-> q, trail |-> [items |-> K.items, key |-> now.trail.key],
               loader |-> K.levels, store |-> now.store])
<1> DEFINE n == Len(K.stack)
           j == now.trail.items
           open == IF Last(j).type = "LEAF" THEN Front(j) ELSE j
           t == [items |-> K.items, key |-> now.trail.key]
<1>1. PICK S : j \in Seq(S)
  BY DEF Loose, IsSeq
<1>2. /\ n \in Nat /\ n >= 1 /\ Len(j) \in Nat /\ Len(j) >= n /\ Last(j) = j[Len(j)]
      /\ Len(K.items) = n /\ Len(K.levels) = n
  <2>1. n \in Nat /\ n >= 1 /\ Len(K.items) = n /\ Len(K.levels) = n
    BY DEF Context, IsSeq
  <2>2. Len(j) \in Nat /\ Last(j) = j[Len(j)]
    BY <1>1 DEF Last
  <2> QED
    BY <2>1, <2>2 DEF Loose
<1>3. /\ open \in Seq(S) /\ Len(open) >= n
      /\ \A k \in 1..n : open[k] = K.items[k]
      /\ Last(open).type # "LEAF"
  <2>1. CASE Last(j).type = "LEAF"
    <3>1. Len(j) > n /\ Len(j) >= 1
      BY <1>2, <2>1 DEF Loose
    <3>2. /\ open \in Seq(S) /\ Len(open) = Len(j) - 1
          /\ \A k \in 1..Len(j) - 1 : open[k] = j[k]
      BY <1>1, <2>1, <3>1, LastAndFront
    <3>3. Last(open) = j[Len(j) - 1] /\ Len(j) - 1 \in 1..Len(j) - 1
      BY <1>2, <3>1, <3>2, SMTT(60) DEF Last
    <3>4. j[Len(j) - 1].type # "LEAF"
      BY <3>3 DEF Loose
    <3>5. \A k \in 1..n : open[k] = j[k]
      BY <1>2, <3>1, <3>2
    <3> HIDE DEF open
    <3> QED
      BY <1>2, <3>1, <3>2, <3>3, <3>4, <3>5 DEF Loose
  <2>2. CASE Last(j).type # "LEAF"
    BY <1>1, <1>2, <2>2 DEF Loose
  <2> QED
    BY <2>1, <2>2
<1> HIDE DEF open
<1>4. SubSeq(open, 1, n) = K.items
  <2>1. PICK T : K.items \in Seq(T)
    BY DEF Context, IsSeq
  <2> QED
    BY <1>2, <1>3, <2>1, PrefixIs
<1>5. SubSeq(now.loader, 1, n) = K.levels
  <2>1. PICK T : K.levels \in Seq(T)
    BY DEF Context, IsSeq
  <2>2. PICK U : now.loader \in Seq(U)
    BY DEF Loose, IsSeq
  <2>3. Len(now.loader) >= n /\ \A k \in 1..n : now.loader[k] = K.levels[k]
    BY <1>2 DEF Loose
  <2> QED
    BY <1>2, <2>1, <2>2, <2>3, PrefixIs
<1>6. Left(open, n) = K.items
  <2>1. ~(Last(open).type = "LEAF" \/ Len(open) < n)
    <3>1. Len(open) \in Nat
      BY <1>3
    <3> QED
      BY <1>2, <1>3, <3>1
  <2> QED
    BY <1>4, <2>1, Zenon DEF Left
<1>7. Only(Trailed(now.parser, q, now.trail), t)
  <2>1. Child(now.parser, q) = "none"
    BY DEF Child
  <2>2. Trailed(now.parser, q, now.trail) = {[items |-> Left(open, n), key |-> now.trail.key]}
    BY <2>1, Zenon DEF Trailed, open
  <2> QED
    BY <1>6, <2>2 DEF Only
<1>8. Only(Synced(now.loader, t, q.token), K.levels)
  <2>1. Len(t.items) = n /\ Len(now.loader) >= n
    BY <1>2 DEF Loose
  <2> HIDE DEF t
  <2> QED
    BY <1>5, <2>1 DEF Synced, Only
<1>9. Only(Extracted(now.store, K.levels, t, q), now.store)
  BY DEF Extracted, Only
<1> HIDE DEF t
<1>10. Only(Outcome(now, l), [parser |-> q, trail |-> t, loader |-> K.levels,
                              store |-> now.store])
  BY <1>7, <1>8, <1>9, OneOutcome
<1> QED
  BY <1>10 DEF t


\* A key in an item of an array counts the item, if there is room for another one.
Full(K, s) == LET n == Len(K.stack)
              IN  /\ K.items[n].isItem
                  /\ NoRoom(Count(s, K.levels[n - 1].at), K.levels[n - 1].node.maxitems)
Noted(K, s) == LET n == Len(K.stack)
               IN  IF K.items[n].isItem
                   THEN Put(s, K.levels[n - 1].at, K.items[n].idx + 1) ELSE s

\* A letter that ends a key.
LEMMA KeyEnds ==
  ASSUME NEW K, Context(K), NEW now, Exact(now, K), NEW l, NEW q,
         Only(Parsed(now.parser, l), q), q.token = "KS", Len(q.stack) = Len(K.stack),
         Len(now.parser.stack) = Len(K.stack), K.levels[Len(K.stack)].node.vtype = "OBJECT"
  PROVE  /\ Full(K, now.store) => Outcome(now, l) = {}
         /\ ~Full(K, now.store) =>
              Only(Outcome(now, l), [parser |-> q, trail |-> [items |-> K.items, key |-> q.lex],
                                     loader |-> K.levels, store |-> Noted(K, now.store)])
<1> DEFINE n == Len(K.stack)
           t == [items |-> K.items, key |-> q.lex]
<1>1. /\ n \in Nat /\ n >= 1 /\ Len(K.items) = n /\ Len(K.levels) = n
      /\ now.trail.items = K.items /\ now.loader = K.levels
      /\ Last(K.items) = K.items[n] /\ Last(K.levels) = K.levels[n]
      /\ K.items[n].type # "LEAF"
  BY DEF Context, IsSeq, Exact, Last
<1>2. SubSeq(K.items, 1, n) = K.items /\ SubSeq(K.levels, 1, n) = K.levels
  <2>1. PICK S, T : K.items \in Seq(S) /\ K.levels \in Seq(T)
    BY DEF Context, IsSeq
  <2> QED
    BY <1>1, <2>1, PrefixIs
<1>3. Only(Trailed(now.parser, q, now.trail), t)
  <2>1. Child(now.parser, q) = "none"
    BY DEF Child
  <2>2. Left(K.items, n) = K.items
    BY <1>1, <1>2 DEF Left
  <2>3. Trailed(now.parser, q, now.trail) = {[items |-> Left(K.items, n), key |-> q.lex]}
    BY <1>1, <2>1, Zenon DEF Trailed
  <2> QED
    BY <2>2, <2>3 DEF Only
<1>4. Only(Synced(now.loader, t, q.token), K.levels)
  <2>1. t.items = K.items
    OBVIOUS
  <2> HIDE DEF t
  <2> QED
    BY <1>1, <1>2, <2>1 DEF Synced, Only
<1>5. K.levels[n].node.vtype \in Fitting[q.token]
  BY DEF Fitting, VTypes
<1>6. t.items[Len(K.levels)] = K.items[n]
  BY <1>1
<1> HIDE DEF t
<1>7. Full(K, now.store) => Extracted(now.store, K.levels, t, q) = {}
  BY <1>1, <1>5, <1>6 DEF Extracted, Full
<1>8. ~Full(K, now.store) =>
        Only(Extracted(now.store, K.levels, t, q), Noted(K, now.store))
  <2>1. CASE ~K.items[n].isItem
    BY <1>1, <1>5, <1>6, <2>1 DEF Extracted, Only, Noted
  <2>2. CASE K.items[n].isItem
    BY <1>1, <1>5, <1>6, <2>2 DEF Extracted, Only, Noted, Full
  <2> QED
    BY <2>1, <2>2
<1>9. Full(K, now.store) => Outcome(now, l) = {}
  BY <1>3, <1>4, <1>7, OneOutcome
<1>10. ~Full(K, now.store) =>
         Only(Outcome(now, l), [parser |-> q, trail |-> t, loader |-> K.levels,
                                store |-> Noted(K, now.store)])
  BY <1>3, <1>4, <1>8, OneOutcome
<1> QED
  BY <1>9, <1>10 DEF t

\* What is added to the trail: to an object by the last key, to an array by its place.
Named(type, key) == [type |-> type, isItem |-> FALSE, idx |-> 0, key |-> key, count |-> 0]
Numbered(type, i) == [type |-> type, isItem |-> TRUE, idx |-> i, key |-> NoKey, count |-> 0]

Row(key, i) == [type |-> "ARRAY", isItem |-> FALSE, idx |-> 0, key |-> key, count |-> i]

\* A context with one more container open.
Inside(K, mode, item, level) ==
  [stack |-> Append(K.stack, mode), items |-> Append(K.items, item),
   levels |-> Append(K.levels, level)]

\* A sequence that goes on where another one ends.
Extends(a, s, x) == /\ IsSeq(a) /\ Len(s) \in Nat /\ Len(a) = Len(s) + 1
                    /\ \A k \in 1..Len(s) : a[k] = s[k]
                    /\ a[Len(s) + 1] = x /\ Last(a) = x /\ Front(a) = s

\* What appending makes of a sequence.
LEMMA AppendIs ==
  ASSUME NEW s, IsSeq(s), NEW x
  PROVE  Extends(Append(s, x), s, x)
<1>1. PICK S : s \in Seq(S)
  BY DEF IsSeq
<1> DEFINE T == S \cup {x}
<1>2. s \in Seq(T) /\ x \in T
  BY <1>1, SeqMonotonic
<1> HIDE DEF T
<1>3. /\ Append(s, x) \in Seq(T) /\ Len(s) \in Nat /\ Len(Append(s, x)) = Len(s) + 1
      /\ \A k \in 1..Len(s) : Append(s, x)[k] = s[k]
      /\ Append(s, x)[Len(s) + 1] = x
  BY <1>2, AppendProperties
<1>4. Last(Append(s, x)) = x /\ Front(Append(s, x)) = s
  BY <1>1, AppendFacts
<1> QED
  BY <1>3, <1>4 DEF Extends, IsSeq

\* With one more container open, a context is a context again.
LEMMA InsideFacts ==
  ASSUME NEW K, Context(K), NEW mode, NEW item, item.type # "LEAF", NEW level
  PROVE  LET I == Inside(K, mode, item, level)
         IN  /\ Context(I)
             /\ Extends(I.stack, K.stack, mode) /\ Extends(I.items, K.items, item)
             /\ Extends(I.levels, K.levels, level)
<1> DEFINE n == Len(K.stack)
           I == Inside(K, mode, item, level)
<1>1. /\ n \in Nat /\ n >= 1 /\ Len(K.items) = n /\ Len(K.levels) = n
      /\ \A k \in 1..n : K.items[k].type # "LEAF"
  BY DEF Context, IsSeq
<1>2. IsSeq(K.stack) /\ IsSeq(K.items) /\ IsSeq(K.levels)
  BY DEF Context, IsSeq
<1>3. /\ I.stack = Append(K.stack, mode) /\ I.items = Append(K.items, item)
      /\ I.levels = Append(K.levels, level)
  BY DEF Inside
<1> HIDE DEF I
<1>4. /\ Extends(I.stack, K.stack, mode) /\ Extends(I.items, K.items, item)
      /\ Extends(I.levels, K.levels, level)
  BY <1>2, <1>3, AppendIs, Zenon
<1>5. \A k \in 1..n + 1 : I.items[k].type # "LEAF"
  BY <1>1, <1>4, SMTT(60) DEF Extends
<1>6. Context(I)
  BY <1>1, <1>4, <1>5 DEF Context, Extends
<1> QED
  BY <1>4, <1>6 DEF I

\* What is added to an object, and to the trail before anything.
LEMMA NamedAdds ==
  ASSUME NEW K, Context(K), Len(K.stack) < Depth, NEW now, now.trail.items = K.items,
         NEW q, q.token # "KS", Child(now.parser, q) # "none",
         Last(now.parser.stack) \in {"DONE", "OBJECT"},
         Last(now.parser.stack) = "OBJECT" <=> now.trail.key # NoKey,
         q.token = "NO" => Len(q.stack) = Len(K.stack) + 1
  PROVE  Only(Trailed(now.parser, q, now.trail),
              [items |-> Append(K.items, Named(Child(now.parser, q), now.trail.key)),
               key |-> NoKey])
<1> DEFINE n == Len(K.stack)
           child == Child(now.parser, q)
           key == now.trail.key
           mode == Last(now.parser.stack)
           item == [type |-> child, isItem |-> mode = "ARRAY",
                    idx |-> IF mode = "ARRAY" THEN K.items[n].count ELSE 0,
                    key |-> IF mode = "OBJECT" THEN key ELSE NoKey, count |-> 0]
           grown == Append(K.items, Named(child, key))
<1>1. n \in Nat /\ n >= 1 /\ Len(K.items) = n /\ Last(K.items) = K.items[n]
      /\ K.items[n].type # "LEAF"
  BY DEF Context, IsSeq, Last
<1>2. item = Named(child, key)
  BY DEF Named
<1>3. Left(grown, Len(q.stack)) = grown
  <2>1. PICK S : K.items \in Seq(S)
    BY DEF Context, IsSeq
  <2>2. PICK T : grown \in Seq(T) /\ Len(grown) = n + 1 /\ Last(grown) = Named(child, key)
    <3>1. Extends(grown, K.items, Named(child, key))
      BY AppendIs, Zenon DEF Context
    <3> HIDE DEF grown
    <3> QED
      BY <1>1, <3>1 DEF Extends, IsSeq
  <2>3. Named(child, key).type = child
    BY DEF Named
  <2> HIDE DEF child
  <2>4. CASE child = "LEAF"
    BY <2>2, <2>3, <2>4 DEF Left
  <2>5. CASE child # "LEAF"
    <3>1. Len(q.stack) = n + 1
      BY <2>5 DEF child, Child
    <3>2. SubSeq(grown, 1, n + 1) = grown
      <4> HIDE DEF grown
      <4> QED
        BY <2>2, PrefixIs
    <3> HIDE DEF grown
    <3> QED
      BY <1>1, <2>2, <3>1, <3>2, Zenon DEF Left
  <2> QED
    BY <2>4, <2>5
<1>4. Trailed(now.parser, q, now.trail) = {[items |-> Left(grown, Len(q.stack)), key |-> NoKey]}
  <2>1. /\ Last(K.items).type # "LEAF" /\ q.token # "KS" /\ child # "none"
        /\ mode # "ARRAY" /\ ~((mode = "OBJECT") # (key # NoKey)) /\ ~(Len(K.items) >= Depth)
    BY <1>1, DepthAssumption
  <2> QED
    BY <1>1, <1>2, <2>1, Zenon DEF Trailed
<1> QED
  BY <1>3, <1>4 DEF Only

\* A row of a list that has counted one item more.
LEMMA RowCounts ==
  ASSUME NEW S, NEW s \in Seq(S), NEW key, NEW i \in Nat
  PROVE  [Append(s, Row(key, i)) EXCEPT ![Len(s) + 1].count = @ + 1] = Append(s, Row(key, i + 1))
<1> DEFINE n == Len(s)
           x == Row(key, i)
           y == Row(key, i + 1)
           U == S \cup {x, y}
           a == Append(s, x)
           b == Append(s, y)
           c == [a EXCEPT ![n + 1] = y]
<1>0. s \in Seq(U) /\ x \in U /\ y \in U /\ n \in Nat
  BY SeqMonotonic
<1>1. [x EXCEPT !.count = @ + 1] = y
  <2> DEFINE z == [x EXCEPT !.count = i + 1]
  <2>1. /\ IsItem(x) /\ x.type = y.type /\ x.isItem = y.isItem /\ x.idx = y.idx
        /\ x.key = y.key /\ x.count = i
    BY DEF Row, IsItem
  <2>2. IsItem(y) /\ y.count = i + 1
    BY DEF Row, IsItem
  <2> HIDE DEF x, y
  <2>3. /\ IsItem(z) /\ z.type = x.type /\ z.isItem = x.isItem /\ z.idx = x.idx
        /\ z.key = x.key /\ z.count = i + 1
    BY <2>1 DEF IsItem
  <2>4. [x EXCEPT !.count = @ + 1] = z
    BY <2>1
  <2> HIDE DEF z
  <2>5. z = y
    BY <2>1, <2>2, <2>3, Zenon DEF IsItem
  <2> QED
    BY <2>4, <2>5
<1> HIDE DEF U, x, y
<1>2. /\ a \in Seq(U) /\ Len(a) = n + 1 /\ a[n + 1] = x
      /\ \A k \in 1..n : a[k] = s[k]
  BY <1>0, AppendProperties
<1>3. /\ b \in Seq(U) /\ Len(b) = n + 1 /\ b[n + 1] = y
      /\ \A k \in 1..n : b[k] = s[k]
  BY <1>0, AppendProperties
<1> HIDE DEF a, b
<1>4. /\ c \in Seq(U) /\ Len(c) = n + 1
      /\ \A k \in 1..n + 1 : c[k] = IF k = n + 1 THEN y ELSE a[k]
  BY <1>0, <1>2, ExceptSeq
<1>5. c = b
  <2> HIDE DEF c, n
  <2>1. \A k \in 1..n + 1 : c[k] = b[k]
    BY <1>0, <1>2, <1>3, <1>4
  <2> QED
    BY <1>3, <1>4, <2>1, SeqEqual
<1>6. [a EXCEPT ![n + 1].count = @ + 1] = c
  BY <1>1, <1>2
<1> QED
  BY <1>5, <1>6 DEF a, b, x, y

\* What is added to an array is counted.
LEMMA NumberedAdds ==
  ASSUME NEW J, Context(J), Len(J.stack) + 1 < Depth, NEW key, NEW i \in Nat, NEW now,
         now.trail.items = Append(J.items, Row(key, i)),
         NEW q, q.token # "KS", Child(now.parser, q) # "none",
         Last(now.parser.stack) = "ARRAY", now.trail.key = NoKey,
         q.token = "NO" => Len(q.stack) = Len(J.stack) + 2
  PROVE  Only(Trailed(now.parser, q, now.trail),
              [items |-> Append(Append(J.items, Row(key, i + 1)),
                                Numbered(Child(now.parser, q), i)),
               key |-> NoKey])
<1> DEFINE n == Len(J.stack)
           child == Child(now.parser, q)
           mode == Last(now.parser.stack)
           items == Append(J.items, Row(key, i))
           x == Numbered(child, i)
           rows == Append(J.items, Row(key, i + 1))
           grown == Append(rows, x)
           item == [type |-> child, isItem |-> mode = "ARRAY",
                    idx |-> IF mode = "ARRAY" THEN items[Len(items)].count ELSE 0,
                    key |-> IF mode = "OBJECT" THEN now.trail.key ELSE NoKey, count |-> 0]
<1>0. PICK S : J.items \in Seq(S)
  BY DEF Context, IsSeq
<1>1. n \in Nat /\ n >= 1 /\ Len(J.items) = n
  BY DEF Context, IsSeq
<1>2. Len(items) = n + 1 /\ items[n + 1] = Row(key, i) /\ Last(items) = Row(key, i)
  <2>1. Extends(items, J.items, Row(key, i))
    BY AppendIs, Zenon DEF Context
  <2> HIDE DEF items
  <2> QED
    BY <1>1, <2>1 DEF Extends
<1>3. Row(key, i).type = "ARRAY" /\ Row(key, i).count = i
  BY DEF Row
<1>4. item = x
  <2> HIDE DEF items
  <2> QED
    BY <1>2, <1>3 DEF Numbered
<1>5. [items EXCEPT ![Len(items)].count = @ + 1] = rows
  <2>1. [Append(J.items, Row(key, i)) EXCEPT ![Len(J.items) + 1].count = @ + 1]
        = Append(J.items, Row(key, i + 1))
    BY <1>0, RowCounts
  <2>2. Len(items) = Len(J.items) + 1
    BY <1>1, <1>2
  <2> QED
    BY <2>1, <2>2, Zenon
<1>6. x.type = child
  BY DEF Numbered
<1> HIDE DEF x, child
<1>7. IsSeq(rows) /\ Len(rows) = n + 1
  <2>1. Extends(rows, J.items, Row(key, i + 1))
    BY AppendIs, Zenon DEF Context
  <2> HIDE DEF rows
  <2> QED
    BY <1>1, <2>1 DEF Extends
<1> HIDE DEF rows
<1>8. PICK U : grown \in Seq(U) /\ Len(grown) = n + 2 /\ Last(grown) = x
  <2>1. Extends(grown, rows, x)
    BY <1>7, AppendIs, Zenon
  <2> HIDE DEF grown
  <2> QED
    BY <1>1, <1>7, <2>1 DEF Extends, IsSeq
<1>9. Left(grown, Len(q.stack)) = grown
  <2> HIDE DEF grown
  <2>4. CASE child = "LEAF"
    BY <1>8, <1>6, <2>4 DEF Left
  <2>5. CASE child # "LEAF"
    <3>1. Len(q.stack) = n + 2
      BY <2>5 DEF child, Child
    <3>2. SubSeq(grown, 1, n + 2) = grown
      BY <1>1, <1>8, PrefixIs
    <3> QED
      BY <1>1, <1>8, <3>1, <3>2, Zenon DEF Left
  <2> QED
    BY <2>4, <2>5
<1>10. Trailed(now.parser, q, now.trail) = {[items |-> Left(grown, Len(q.stack)), key |-> NoKey]}
  <2>1. /\ Last(items).type # "LEAF" /\ q.token # "KS" /\ child # "none"
        /\ mode = "ARRAY" /\ ~((mode = "OBJECT") # (now.trail.key # NoKey))
        /\ ~(Len(items) >= Depth) /\ now.trail.items = items
    <3> HIDE DEF items
    <3> QED
      BY <1>1, <1>2, <1>3, DepthAssumption DEF items, child
  <2>2. Trailed(now.parser, q, now.trail) =
          {[items |-> Left(Append([items EXCEPT ![Len(items)].count = @ + 1], item), Len(q.stack)),
            key |-> NoKey]}
    <3> HIDE DEF items
    <3> QED
      BY <2>1, Zenon DEF Trailed, child
  <2> QED
    BY <1>4, <1>5, <2>2
<1> QED
  BY <1>9, <1>10 DEF Only, grown, rows, x, child

\* The loader follows an item that was added.
LEMMA LoaderGrows ==
  ASSUME NEW K, Context(K), NEW n, n = Len(K.stack), K.levels[n].node.vtype \notin Scalars,
         NEW j, NEW item, IsSeq(j), Len(j) = n, NEW key, NEW token, NEW node,
         Only(Part(K.levels[n].node, item, token), node)
  PROVE  Only(Synced(K.levels, [items |-> Append(j, item), key |-> key], token),
              Append(K.levels, Level(K.levels[n], item, node)))
<1> DEFINE t == [items |-> Append(j, item), key |-> key]
<1>1. n \in Nat /\ n >= 1 /\ Len(K.levels) = n /\ Last(K.levels) = K.levels[n]
  BY DEF Context, IsSeq, Last
<1>2. Len(Append(j, item)) = n + 1 /\ Last(Append(j, item)) = item
  BY AppendIs DEF Extends
<1>3. t.items = Append(j, item)
  OBVIOUS
<1> HIDE DEF t
<1>4. ~(Len(t.items) <= Len(K.levels)) /\ Last(t.items) = item
  BY <1>1, <1>2, <1>3
<1>5. Synced(K.levels, t, token) =
        {Append(K.levels, Level(K.levels[n], item, x)) : x \in Part(K.levels[n].node, item, token)}
  BY <1>1, <1>4, Zenon DEF Synced
<1> QED
  BY <1>5 DEF Only, t

-----------------------------------------------------------------------------
(* Values and containers *)

Lev(node, at) == [node |-> node, at |-> at]

\* The level of a member has its key behind the address, that of an item its place.
LEMMA Levels ==
  ASSUME NEW top, top.node.vtype # "none", NEW node, NEW type, type # "ROOT"
  PROVE  /\ \A key : Level(top, Named(type, key), node) = Lev(node, Append(top.at, key))
         /\ \A i : Level(top, Numbered(type, i), node) = Lev(node, Append(top.at, i + 1))
<1>1. ASSUME NEW key
      PROVE  Level(top, Named(type, key), node) = Lev(node, Append(top.at, key))
  <2>1. /\ Named(type, key).type # "ROOT" /\ ~Named(type, key).isItem
        /\ Named(type, key).key = key
    BY DEF Named
  <2> QED
    BY <2>1, Zenon DEF Level, Lev
<1>2. ASSUME NEW i
      PROVE  Level(top, Numbered(type, i), node) = Lev(node, Append(top.at, i + 1))
  <2>1. /\ Numbered(type, i).type # "ROOT" /\ Numbered(type, i).isItem
        /\ Numbered(type, i).idx = i
    BY DEF Numbered
  <2> QED
    BY <2>1, Zenon DEF Level, Lev
<1> QED
  BY <1>1, <1>2

\* With a value on top, the trail and the loader are above what is open.
LEMMA LooseAbove ==
  ASSUME NEW K, Context(K), NEW d, NEW leaf, leaf.type = "LEAF", NEW level,
         d.trail.items = Append(K.items, leaf), d.loader = Append(K.levels, level)
  PROVE  Loose(d, K)
<1> DEFINE n == Len(K.stack)
<1>1. /\ n \in Nat /\ n >= 1 /\ Len(K.items) = n /\ Len(K.levels) = n
      /\ \A k \in 1..n : K.items[k].type # "LEAF"
  BY DEF Context, IsSeq
<1>2. Extends(d.trail.items, K.items, leaf) /\ Extends(d.loader, K.levels, level)
  BY AppendIs, Zenon DEF Context
<1> DEFINE j == d.trail.items
           up == d.loader
<1>3. Extends(j, K.items, leaf) /\ Extends(up, K.levels, level)
  BY <1>2
<1> HIDE DEF j, up
<1>4. /\ IsSeq(j) /\ IsSeq(up) /\ Len(up) = Len(j) /\ Len(j) = n + 1 /\ j[n + 1] = leaf
      /\ \A k \in 1..n : j[k] = K.items[k] /\ up[k] = K.levels[k]
  BY <1>1, <1>3 DEF Extends
<1>5. \A k \in 1..Len(j) - 1 : j[k].type # "LEAF"
  BY <1>1, <1>4
<1> QED
  BY <1>1, <1>4, <1>5 DEF Loose, j, up

\* What is loose above a container is loose above what is around it.
LEMMA LooseBelow ==
  ASSUME NEW K, Context(K), NEW mode, NEW item, item.type # "LEAF", NEW level, NEW now,
         Loose(now, Inside(K, mode, item, level))
  PROVE  Loose(now, K)
<1> DEFINE n == Len(K.stack)
           I == Inside(K, mode, item, level)
           j == now.trail.items
<1>1. /\ n \in Nat /\ Len(I.stack) = n + 1
      /\ \A k \in 1..n : I.items[k] = K.items[k] /\ I.levels[k] = K.levels[k]
  <2>1. /\ Extends(I.stack, K.stack, mode) /\ Extends(I.items, K.items, item)
        /\ Extends(I.levels, K.levels, level)
    BY InsideFacts, Zenon
  <2>2. Len(K.items) = n /\ Len(K.levels) = n
    BY DEF Context
  <2> HIDE DEF I
  <2> QED
    BY <2>1, <2>2 DEF Extends
<1> HIDE DEF I
<1>2. /\ IsSeq(j) /\ IsSeq(now.loader) /\ Len(now.loader) = Len(j) /\ Len(j) >= n + 1
      /\ \A k \in 1..n + 1 : j[k] = I.items[k] /\ now.loader[k] = I.levels[k]
      /\ \A k \in 1..Len(j) - 1 : j[k].type # "LEAF"
  BY <1>1 DEF Loose, I
<1>3. Len(j) \in Nat
  BY <1>2 DEF IsSeq
<1>4. \A k \in 1..n : j[k] = K.items[k] /\ now.loader[k] = K.levels[k]
  BY <1>1, <1>2
<1> HIDE DEF n
<1> QED
  BY <1>1, <1>2, <1>3, <1>4 DEF Loose, n

\* A letter that ends the value of a member stores it at the address of the member.
LEMMA ValueEnds ==
  ASSUME NEW K, Context(K), Len(K.stack) < Depth, NEW now, Exact(now, K),
         Last(now.parser.stack) = "OBJECT", NEW key, now.trail.key = key, key # NoKey,
         NEW l, NEW q, Only(Parsed(now.parser, l), q), q.token \notin {"NO", "KS"},
         NEW top, top = K.levels[Len(K.stack)], top.node.vtype = "OBJECT",
         NEW node, Only(Part(top.node, Named("LEAF", key), q.token), node),
         node.vtype \in Fitting[q.token]
  PROVE  \E d : /\ Only(Outcome(now, l), d)
                /\ d.parser = q /\ d.trail.key = NoKey /\ Loose(d, K)
                /\ d.store = Put(now.store, Append(top.at, key), Content(node, q.token, q.lex))
<1> DEFINE n == Len(K.stack)
           leaf == Named("LEAF", key)
           t == [items |-> Append(K.items, leaf), key |-> NoKey]
           level == Lev(node, Append(top.at, key))
           up == Append(K.levels, level)
           s == Put(now.store, Append(top.at, key), Content(node, q.token, q.lex))
           d == [parser |-> q, trail |-> t, loader |-> up, store |-> s]
<1>1. /\ n \in Nat /\ n >= 1 /\ Len(K.items) = n /\ Len(K.levels) = n
      /\ now.trail.items = K.items /\ now.loader = K.levels
  BY DEF Context, IsSeq, Exact
<1>2. IsSeq(K.items) /\ IsSeq(K.levels)
  BY DEF Context
<1>3. leaf.type = "LEAF" /\ ~leaf.isItem
  BY DEF Named
<1>4. Only(Trailed(now.parser, q, now.trail), t)
  <2>1. Child(now.parser, q) = "LEAF"
    BY DEF Child
  <2> QED
    BY <1>1, <2>1, NamedAdds
<1>5. top.node.vtype \notin Scalars /\ top.node.vtype # "none"
  BY DEF Scalars
<1>6. Only(Synced(now.loader, t, q.token), up)
  <2>1. Level(top, leaf, node) = level
    <3>1. leaf.type # "ROOT" /\ ~leaf.isItem /\ leaf.key = key
      BY DEF Named
    <3> QED
      BY <1>5, <3>1, Zenon DEF Level, Lev
  <2> HIDE DEF leaf, level
  <2>2. Only(Synced(K.levels, t, q.token), Append(K.levels, Level(top, leaf, node)))
    BY <1>1, <1>2, <1>5, LoaderGrows DEF leaf
  <2> QED
    BY <1>1, <2>1, <2>2
<1>7. /\ Len(up) = n + 1 /\ Last(up) = level
      /\ t.items[n + 1] = leaf
  <2>1. t.items = Append(K.items, leaf)
    OBVIOUS
  <2> HIDE DEF leaf, level, t, n
  <2>2. Extends(up, K.levels, level) /\ Extends(t.items, K.items, leaf)
    BY <1>2, <2>1, AppendIs, Zenon
  <2> HIDE DEF up
  <2> QED
    BY <1>1, <2>2 DEF Extends
<1>8. level.node = node /\ level.at = Append(top.at, key)
  BY DEF Lev
<1>9. Only(Extracted(now.store, up, t, q), s)
  <2> HIDE DEF up, t, level, leaf
  <2>1. q.token # "NO" /\ q.token # "KS"
    OBVIOUS
  <2>2. Last(up).node.vtype \in Fitting[q.token] /\ ~t.items[Len(up)].isItem
    BY <1>3, <1>7, <1>8
  <2>3. Extracted(now.store, up, t, q)
        = {Put(now.store, Last(up).at, Content(Last(up).node, q.token, q.lex))}
    BY <2>1, <2>2, Zenon DEF Extracted
  <2> QED
    BY <1>7, <1>8, <2>3 DEF Only
<1>10. Only(Outcome(now, l), d)
  <2> HIDE DEF up, t, s
  <2> QED
    BY <1>4, <1>6, <1>9, OneOutcome
<1>11. /\ d.parser = q /\ d.trail = t /\ d.loader = up /\ d.store = s
       /\ t.key = NoKey /\ t.items = Append(K.items, leaf)
  OBVIOUS
<1> HIDE DEF d, t, s, leaf, level
<1>12. Loose(d, K)
  BY <1>3, <1>11, LooseAbove
<1> QED
  BY <1>10, <1>11, <1>12 DEF s

\* A letter that ends an item of an array stores it at its place and counts it.
LEMMA IdEnds ==
  ASSUME NEW J, Context(J), Len(J.stack) + 1 < Depth, NEW key, NEW i \in Nat, NEW level,
         level.node.vtype = "ARRAY", NEW now, Exact(now, Inside(J, "ARRAY", Row(key, i), level)),
         Last(now.parser.stack) = "ARRAY", now.trail.key = NoKey,
         NEW l, NEW q, Only(Parsed(now.parser, l), q), q.token \notin {"NO", "KS"},
         NEW node, Only(Part(level.node, Numbered("LEAF", i), q.token), node),
         node.vtype \in Fitting[q.token],
         ~NoRoom(Count(now.store, level.at), level.node.maxitems)
  PROVE  \E d : /\ Only(Outcome(now, l), d)
                /\ d.parser = q /\ d.trail.key = NoKey
                /\ Loose(d, Inside(J, "ARRAY", Row(key, i + 1), level))
                /\ d.store = Put(Put(now.store, Append(level.at, i + 1),
                                     Content(node, q.token, q.lex)), level.at, i + 1)
<1> DEFINE n == Len(J.stack)
           K == Inside(J, "ARRAY", Row(key, i + 1), level)
           leaf == Numbered("LEAF", i)
           t == [items |-> Append(K.items, leaf), key |-> NoKey]
           lev == Lev(node, Append(level.at, i + 1))
           up == Append(K.levels, lev)
           s == Put(Put(now.store, Append(level.at, i + 1), Content(node, q.token, q.lex)),
                    level.at, i + 1)
           d == [parser |-> q, trail |-> t, loader |-> up, store |-> s]
<1>1. /\ now.trail.items = Append(J.items, Row(key, i)) /\ now.loader = K.levels
      /\ K.items = Append(J.items, Row(key, i + 1))
  BY DEF Exact, Inside
<1>2. /\ n \in Nat /\ n >= 1 /\ Context(K)
      /\ Len(K.stack) = n + 1 /\ Len(K.items) = n + 1 /\ Len(K.levels) = n + 1
      /\ K.levels[n + 1] = level
  <2>1. Row(key, i + 1).type # "LEAF"
    BY DEF Row
  <2>2. /\ Context(K) /\ Extends(K.stack, J.stack, "ARRAY") /\ Extends(K.levels, J.levels, level)
    BY <2>1, InsideFacts, Zenon
  <2>3. n \in Nat /\ n >= 1 /\ Len(J.levels) = n
    BY DEF Context, IsSeq
  <2> HIDE DEF K, n
  <2> QED
    BY <2>2, <2>3 DEF Context, Extends, n
<1> HIDE DEF n
<1>3. IsSeq(K.items) /\ IsSeq(K.levels)
  BY <1>2 DEF Context
<1>4. leaf.type = "LEAF" /\ leaf.isItem /\ leaf.idx = i
  BY DEF Numbered
<1>5. Only(Trailed(now.parser, q, now.trail), t)
  <2>1. Child(now.parser, q) = "LEAF"
    BY DEF Child
  <2> QED
    BY <1>1, <2>1, NumberedAdds
<1> HIDE DEF K
<1>6. level.node.vtype \notin Scalars /\ level.node.vtype # "none"
  BY DEF Scalars
<1>7. Only(Synced(now.loader, t, q.token), up)
  <2>1. Level(level, leaf, node) = lev
    BY <1>4, <1>6, Zenon DEF Level, Lev
  <2> HIDE DEF leaf, lev
  <2>2. Only(Synced(K.levels, t, q.token), Append(K.levels, Level(level, leaf, node)))
    BY <1>2, <1>3, <1>6, LoaderGrows DEF leaf
  <2> QED
    BY <1>1, <2>1, <2>2
<1>8. /\ Len(up) = n + 2 /\ Last(up) = lev /\ up[n + 1] = level
      /\ t.items[n + 2] = leaf
  <2>1. t.items = Append(K.items, leaf)
    OBVIOUS
  <2> HIDE DEF leaf, lev, t
  <2>2. Extends(up, K.levels, lev) /\ Extends(t.items, K.items, leaf)
    BY <1>3, <2>1, AppendIs, Zenon
  <2> HIDE DEF up
  <2> QED
    BY <1>2, <2>2 DEF Extends
<1>9. lev.node = node /\ lev.at = Append(level.at, i + 1)
  BY DEF Lev
<1>10. Only(Extracted(now.store, up, t, q), s)
  <2> HIDE DEF up, t, lev, leaf
  <2>1. /\ q.token # "NO" /\ q.token # "KS" /\ Len(up) - 1 = n + 1
        /\ up[Len(up) - 1] = level /\ t.items[Len(up)] = leaf
    BY <1>2, <1>8
  <2>2. /\ Last(up).node.vtype \in Fitting[q.token] /\ t.items[Len(up)].isItem
        /\ ~NoRoom(Count(now.store, up[Len(up) - 1].at), up[Len(up) - 1].node.maxitems)
    BY <1>4, <1>8, <1>9, <2>1
  <2>3. Extracted(now.store, up, t, q)
        = {Put(Put(now.store, Last(up).at, Content(Last(up).node, q.token, q.lex)),
               up[Len(up) - 1].at, t.items[Len(up)].idx + 1)}
    BY <2>1, <2>2, Zenon DEF Extracted
  <2> QED
    BY <1>4, <1>8, <1>9, <2>1, <2>3 DEF Only
<1>11. Only(Outcome(now, l), d)
  <2> HIDE DEF up, t, s
  <2> QED
    BY <1>5, <1>7, <1>10, OneOutcome
<1>12. /\ d.parser = q /\ d.trail = t /\ d.loader = up /\ d.store = s
       /\ t.key = NoKey /\ t.items = Append(K.items, leaf)
  OBVIOUS
<1> HIDE DEF d, t, s, leaf, lev
<1>13. Loose(d, K)
  BY <1>2, <1>4, <1>12, LooseAbove
<1> QED
  BY <1>11, <1>12, <1>13 DEF s, K

\* The stages after a letter that opened a container.
OpenedBy(d, q, s, I) == d.parser = q /\ d.trail.key = NoKey /\ d.store = s /\ Exact(d, I)

\* A letter that opens a member, or the grid itself.
LEMMA OpensNamed ==
  ASSUME NEW K, Context(K), Len(K.stack) < Depth, NEW now, Exact(now, K),
         Last(now.parser.stack) \in {"DONE", "OBJECT"},
         Last(now.parser.stack) = "OBJECT" <=> now.trail.key # NoKey,
         NEW top, top = K.levels[Len(K.stack)], top.node.vtype \notin Scalars,
         NEW l, NEW q, Only(Parsed(now.parser, l), q), q.token = "NO",
         Len(q.stack) = Len(K.stack) + 1, Len(q.stack) > Len(now.parser.stack),
         NEW type, type = (IF q.state = "OB" THEN "OBJECT" ELSE "ARRAY"),
         NEW key, key = now.trail.key,
         NEW node, Only(Part(top.node, Named(type, key), "NO"), node), NEW mode
  PROVE  \E d : /\ Only(Outcome(now, l), d)
                /\ OpenedBy(d, q, now.store, Inside(K, mode, Named(type, key),
                                                    Level(top, Named(type, key), node)))
<1> DEFINE n == Len(K.stack)
           item == Named(type, key)
           t == [items |-> Append(K.items, item), key |-> NoKey]
           level == Level(top, item, node)
           up == Append(K.levels, level)
           d == [parser |-> q, trail |-> t, loader |-> up, store |-> now.store]
<1>1. /\ n \in Nat /\ n >= 1 /\ Len(K.items) = n /\ Len(K.levels) = n
      /\ now.trail.items = K.items /\ now.loader = K.levels
  BY DEF Context, IsSeq, Exact
<1>2. IsSeq(K.items) /\ IsSeq(K.levels)
  BY DEF Context
<1>3. Child(now.parser, q) = type /\ type # "none"
  <2>1. Len(now.parser.stack) < Len(q.stack) => ~(Len(q.stack) <= Len(now.parser.stack))
    BY DEF Child
  <2> QED
    BY <2>1 DEF Child
<1>4. Only(Trailed(now.parser, q, now.trail), t)
  BY <1>1, <1>3, NamedAdds
<1>5. Only(Synced(now.loader, t, q.token), up)
  <2>1. Only(Synced(K.levels, t, q.token), Append(K.levels, Level(top, item, node)))
    BY <1>1, <1>2, LoaderGrows
  <2> QED
    BY <1>1, <2>1
<1>6. Only(Extracted(now.store, up, t, q), now.store)
  BY DEF Extracted, Only
<1>7. Only(Outcome(now, l), d)
  <2> HIDE DEF up, t
  <2> QED
    BY <1>4, <1>5, <1>6, OneOutcome
<1>8. Exact(d, Inside(K, mode, item, level))
  BY Zenon DEF Exact, Inside
<1>9. d.parser = q /\ d.trail.key = NoKey /\ d.store = now.store
  OBVIOUS
<1> HIDE DEF d
<1> QED
  BY <1>7, <1>8, <1>9 DEF OpenedBy

\* A letter that opens an item of an array.
LEMMA OpensNumbered ==
  ASSUME NEW J, Context(J), Len(J.stack) + 1 < Depth, NEW key, NEW i \in Nat, NEW level,
         level.node.vtype = "ARRAY", NEW now, Exact(now, Inside(J, "ARRAY", Row(key, i), level)),
         Last(now.parser.stack) = "ARRAY", now.trail.key = NoKey,
         NEW l, NEW q, Only(Parsed(now.parser, l), q), q.token = "NO", q.state = "OB",
         Len(q.stack) = Len(J.stack) + 2, Len(now.parser.stack) = Len(J.stack) + 1,
         NEW node, Only(Part(level.node, Numbered("OBJECT", i), "NO"), node), NEW mode
  PROVE  \E d : /\ Only(Outcome(now, l), d)
                /\ OpenedBy(d, q, now.store,
                            Inside(Inside(J, "ARRAY", Row(key, i + 1), level), mode,
                                   Numbered("OBJECT", i), Lev(node, Append(level.at, i + 1))))
<1> DEFINE n == Len(J.stack)
           K == Inside(J, "ARRAY", Row(key, i + 1), level)
           item == Numbered("OBJECT", i)
           t == [items |-> Append(K.items, item), key |-> NoKey]
           lev == Lev(node, Append(level.at, i + 1))
           up == Append(K.levels, lev)
           d == [parser |-> q, trail |-> t, loader |-> up, store |-> now.store]
<1>1. /\ now.trail.items = Append(J.items, Row(key, i)) /\ now.loader = K.levels
      /\ K.items = Append(J.items, Row(key, i + 1))
  BY DEF Exact, Inside
<1>2. /\ n \in Nat /\ n >= 1 /\ Context(K)
      /\ Len(K.stack) = n + 1 /\ Len(K.items) = n + 1 /\ Len(K.levels) = n + 1
      /\ K.levels[n + 1] = level
  <2>1. Row(key, i + 1).type # "LEAF"
    BY DEF Row
  <2>2. /\ Context(K) /\ Extends(K.stack, J.stack, "ARRAY") /\ Extends(K.levels, J.levels, level)
    BY <2>1, InsideFacts, Zenon
  <2>3. n \in Nat /\ n >= 1 /\ Len(J.levels) = n
    BY DEF Context, IsSeq
  <2> HIDE DEF K, n
  <2> QED
    BY <2>2, <2>3 DEF Context, Extends, n
<1>3. IsSeq(K.items) /\ IsSeq(K.levels)
  BY <1>2 DEF Context
<1>4. Child(now.parser, q) = "OBJECT"
  BY <1>2 DEF Child
<1>5. Only(Trailed(now.parser, q, now.trail), t)
  BY <1>1, <1>4, NumberedAdds
<1> HIDE DEF K, n
<1>6. level.node.vtype \notin Scalars /\ level.node.vtype # "none"
  BY DEF Scalars
<1>7. Only(Synced(now.loader, t, q.token), up)
  <2>1. Level(level, item, node) = lev
    <3>1. item.type # "ROOT" /\ item.isItem /\ item.idx = i
      BY DEF Numbered
    <3> QED
      BY <1>6, <3>1, Zenon DEF Level, Lev
  <2> HIDE DEF item, lev
  <2>2. Only(Synced(K.levels, t, q.token), Append(K.levels, Level(level, item, node)))
    BY <1>2, <1>3, <1>6, LoaderGrows DEF item
  <2> QED
    BY <1>1, <2>1, <2>2
<1>8. Only(Extracted(now.store, up, t, q), now.store)
  BY DEF Extracted, Only
<1>9. Only(Outcome(now, l), d)
  <2> HIDE DEF up, t
  <2> QED
    BY <1>5, <1>7, <1>8, OneOutcome
<1>10. Exact(d, Inside(K, mode, item, lev))
  BY Zenon DEF Exact, Inside
<1>11. d.parser = q /\ d.trail.key = NoKey /\ d.store = now.store
  OBVIOUS
<1> HIDE DEF d
<1> QED
  BY <1>9, <1>10, <1>11 DEF K, item, lev, OpenedBy

-----------------------------------------------------------------------------
(* Letters that are read, and letters that are not *)

\* The reader has stopped for good, with this in the store.
Held(a, s) == a.off /\ a.now.store = s

\* A letter with one outcome takes the reader to it.
LEMMA Lets ==
  ASSUME NEW a, ~a.off, NEW l, NEW d, Only(Outcome(a.now, l), d)
  PROVE  \E b : Reads(<<l>>, a, b) /\ ~b.off /\ b.now = d
<1> DEFINE b == [now |-> d, off |-> FALSE]
<1>1. Advances(a, l, b)
  BY DEF Advances, Only
<1>2. ~b.off /\ b.now = d
  OBVIOUS
<1> HIDE DEF b
<1>3. Reads(<<l>>, a, b)
  BY <1>1, OneStep DEF Steps, Reads
<1> QED
  BY <1>2, <1>3

\* One with no outcome stops it, and what is in the store stays.
LEMMA Refuses ==
  ASSUME NEW a, ~a.off, NEW l, Outcome(a.now, l) = {}
  PROVE  \E b : Reads(<<l>>, a, b) /\ Held(b, a.now.store)
<1> DEFINE b == [now |-> a.now, off |-> TRUE]
<1>1. Advances(a, l, b)
  BY DEF Advances
<1>2. Held(b, a.now.store)
  BY DEF Held
<1> HIDE DEF b
<1>3. Reads(<<l>>, a, b)
  BY <1>1, OneStep DEF Steps, Reads
<1> QED
  BY <1>2, <1>3

\* Whatever comes then.
LEMMA StaysHeld ==
  ASSUME NEW a, a.off, NEW S, NEW X \in Seq(S)
  PROVE  Reads(X, a, a)
<1> DEFINE f == [k \in 0..Len(X) |-> a]
<1>1. Len(X) \in Nat
  OBVIOUS
<1>2. f[0] = a /\ f[Len(X)] = a
  BY <1>1
<1>3. \A k \in 1..Len(X) : f[k - 1] = a /\ f[k] = a
  BY <1>1
<1> HIDE DEF f
<1>4. Leads("readers", X, f)
  BY <1>3 DEF Leads, Steps, Advances
<1> QED
  BY <1>2, <1>4 DEF Reads, Path

\* One text after another.
LEMMA Then ==
  ASSUME NEW X, NEW Y, NEW a, NEW b, NEW c, Reads(X, a, b), Reads(Y, b, c)
  PROVE  Reads(X \o Y, a, c)
BY PathsJoin DEF Reads

-----------------------------------------------------------------------------
(* Members *)

\* An object that the loader has a part of the specification for.
ObjectOpen(K) == /\ Context(K) /\ Len(K.stack) < Depth /\ Last(K.stack) = "OBJECT"
                 /\ K.levels[Len(K.stack)].node.vtype = "OBJECT"

\* Before a key; before the value of a member.
AtKey(a, K, s) ==
  /\ ~a.off /\ a.now.store = s /\ Loose(a.now, K)
  /\ a.now.parser.state \in {"OB", "KE"}
  /\ a.now.parser.stack = Append(Front(K.stack), "KEY")
AtValue(a, K, key, s) ==
  /\ ~a.off /\ a.now.store = s /\ Exact(a.now, K) /\ a.now.trail.key = key
  /\ a.now.parser.state = "VA" /\ a.now.parser.stack = K.stack

\* Behind a value: it is stored; it was a number with an exponent, which is passed
\* over; or it is a number that the next letter will store.
Settled(a, K, s) ==
  /\ ~a.off /\ a.now.store = s /\ Loose(a.now, K) /\ a.now.trail.key = NoKey
  /\ a.now.parser.state = "OK" /\ a.now.parser.stack = K.stack
Lost(a, K, s) ==
  /\ ~a.off /\ a.now.store = s /\ Loose(a.now, K)
  /\ a.now.parser.state = "E3" /\ a.now.parser.stack = K.stack
Pends(a, K, s) ==
  LET p     == a.now.parser
      key   == a.now.trail.key
      token == ValueToken[p.state]
      top   == K.levels[Len(K.stack)]
  IN  /\ ~a.off /\ Exact(a.now, K) /\ key # NoKey
      /\ p.state \in {"ZE", "INT", "FS"} /\ p.stack = K.stack
      /\ \E node : /\ Only(Part(top.node, Named("LEAF", key), token), node)
                   /\ node.vtype \in Fitting[token]
                   /\ s = Put(a.now.store, Append(top.at, key), Content(node, token, p.lex))
Ends(a, K, s) == Settled(a, K, s) \/ Pends(a, K, s)

\* The text that takes the reader from before the value of a member to behind it.
Value(K, key, s, Y, t) == \A v : AtValue(v, K, key, s) => \E w : Reads(Y, v, w) /\ Ends(w, K, t)

\* A letter that ends a number stores it.
LEMMA PendsNoMore ==
  ASSUME NEW K, ObjectOpen(K), NEW a, NEW s, Pends(a, K, s), NEW l, NEW q,
         Only(Parsed(a.now.parser, l), q), q.state \in {"KE", "VA", "OK"},
         q.token = Token(a.now.parser.state, q.state)
  PROVE  \E b : /\ Reads(<<l>>, a, b) /\ ~b.off /\ b.now.parser = q
                /\ b.now.store = s /\ Loose(b.now, K) /\ b.now.trail.key = NoKey
<1> DEFINE p == a.now.parser
           key == a.now.trail.key
           token == ValueToken[p.state]
           top == K.levels[Len(K.stack)]
<1>1. /\ Context(K) /\ Len(K.stack) < Depth /\ top.node.vtype = "OBJECT"
      /\ ~a.off /\ Exact(a.now, K) /\ key # NoKey
      /\ p.state \in {"ZE", "INT", "FS"} /\ Last(p.stack) = "OBJECT"
  BY DEF ObjectOpen, Pends
<1>2. PICK node : /\ Only(Part(top.node, Named("LEAF", key), token), node)
                  /\ node.vtype \in Fitting[token]
                  /\ s = Put(a.now.store, Append(top.at, key), Content(node, token, p.lex))
  BY DEF Pends
<1>3. q.token = token /\ token \notin {"NO", "KS"} /\ q.lex = p.lex
  <2>1. q.token = token /\ token \in {"VI", "VR"}
    BY <1>1 DEF Token, ValueToken
  <2>2. q.lex = p.lex
    <3>1. Parsed(p, l) = {q}
      BY DEF Only
    <3>2. q \in Parsed(p, l)
      BY <3>1
    <3> QED
      BY <1>1, <3>2, Turns
  <2> QED
    BY <2>1, <2>2
<1> HIDE DEF token
<1>4. \E d : /\ Only(Outcome(a.now, l), d)
             /\ d.parser = q /\ d.trail.key = NoKey /\ Loose(d, K)
             /\ d.store = Put(a.now.store, Append(top.at, key), Content(node, q.token, q.lex))
  BY <1>1, <1>2, <1>3, ValueEnds, SMTT(60)
<1>5. PICK d : /\ Only(Outcome(a.now, l), d)
               /\ d.parser = q /\ d.trail.key = NoKey /\ Loose(d, K) /\ d.store = s
  BY <1>2, <1>3, <1>4
<1>6. PICK b : Reads(<<l>>, a, b) /\ ~b.off /\ b.now = d
  <2>1. ~a.off /\ Only(Outcome(a.now, l), d)
    BY <1>1, <1>5
  <2> QED
    BY <2>1, Lets
<1> QED
  BY <1>5, <1>6

\* What the stack of a context with one more container is.
LEMMA StackInside ==
  ASSUME NEW K, Context(K)
  PROVE  /\ Len(K.stack) \in Nat /\ Len(K.stack) >= 1
         /\ \A m : Extends(Append(K.stack, m), K.stack, m)
         /\ \A m : Len(Append(Front(K.stack), m)) = Len(K.stack)
         /\ \A m : Last(Append(Front(K.stack), m)) = m /\ Front(Append(Front(K.stack), m)) = Front(K.stack)
         /\ Append(Front(K.stack), Last(K.stack)) = K.stack
         /\ Len(Front(K.stack)) = Len(K.stack) - 1
<1>1. PICK S : K.stack \in Seq(S)
  BY DEF Context, IsSeq
<1>2. Len(K.stack) \in Nat /\ Len(K.stack) >= 1
  BY <1>1 DEF Context
<1>3. /\ Front(K.stack) \in Seq(S) /\ Len(Front(K.stack)) = Len(K.stack) - 1
      /\ \A k \in 1..Len(K.stack) - 1 : Front(K.stack)[k] = K.stack[k]
  BY <1>1, <1>2, LastAndFront
<1>4. ASSUME NEW m
      PROVE  /\ Len(Append(Front(K.stack), m)) = Len(K.stack)
             /\ Last(Append(Front(K.stack), m)) = m
             /\ Front(Append(Front(K.stack), m)) = Front(K.stack)
  <2>1. /\ Len(Append(Front(K.stack), m)) = Len(Front(K.stack)) + 1
        /\ Last(Append(Front(K.stack), m)) = m
        /\ Front(Append(Front(K.stack), m)) = Front(K.stack)
    BY <1>3, AppendFacts
  <2> QED
    BY <1>2, <1>3, <2>1
<1>5. Append(Front(K.stack), Last(K.stack)) = K.stack
  <2> DEFINE s == K.stack
             f == Front(s)
             x == Last(s)
             g == Append(f, x)
             T == S \cup {x}
  <2>1. f \in Seq(T) /\ s \in Seq(T) /\ x \in T
    BY <1>1, <1>3, SeqMonotonic
  <2>2. x = s[Len(s)]
    BY DEF Last
  <2> HIDE DEF T, f, x
  <2>3. /\ g \in Seq(T) /\ Len(g) = Len(f) + 1 /\ g[Len(f) + 1] = x
        /\ \A k \in 1..Len(f) : g[k] = f[k]
    BY <2>1, AppendProperties
  <2> HIDE DEF g
  <2>4. Len(f) + 1 = Len(s) /\ \A k \in 1..Len(s) - 1 : f[k] = s[k]
    BY <1>2, <1>3 DEF f
  <2>5. \A k \in 1..Len(s) : g[k] = s[k]
    BY <1>2, <2>2, <2>3, <2>4
  <2>6. g = s
    BY <1>2, <2>1, <2>3, <2>4, <2>5, SeqEqual
  <2> QED
    BY <2>6 DEF g, f, x
<1>6. \A m : Extends(Append(K.stack, m), K.stack, m)
  BY AppendIs DEF Context
<1> QED
  BY <1>2, <1>3, <1>4, <1>5, <1>6

\* The letter after a value that is stored already.
LEMMA QuietOn ==
  ASSUME NEW J, Context(J), NEW a, ~a.off, Loose(a.now, J), NEW l, NEW q,
         Only(Parsed(a.now.parser, l), q), q.token = "NO", Len(q.stack) = Len(J.stack),
         Len(q.stack) <= Len(a.now.parser.stack)
  PROVE  \E b : /\ Reads(<<l>>, a, b) /\ ~b.off /\ b.now.parser = q
                /\ b.now.store = a.now.store /\ Exact(b.now, J)
                /\ b.now.trail.key = a.now.trail.key
<1> DEFINE d == [parser |-> q, trail |-> [items |-> J.items, key |-> a.now.trail.key],
                 loader |-> J.levels, store |-> a.now.store]
<1>1. Only(Outcome(a.now, l), d)
  BY Quiet
<1>2. /\ d.parser = q /\ d.store = a.now.store /\ Exact(d, J)
      /\ d.trail.key = a.now.trail.key
  BY DEF Exact
<1> HIDE DEF d
<1>3. PICK b : Reads(<<l>>, a, b) /\ ~b.off /\ b.now = d
  BY <1>1, Lets
<1> QED
  BY <1>2, <1>3

\* A comma after a member.
LEMMA CommaRead ==
  ASSUME NEW K, ObjectOpen(K), NEW a, NEW s, Ends(a, K, s) \/ Lost(a, K, s)
  PROVE  \E b : Reads(Comma1, a, b) /\ AtKey(b, K, s)
<1> DEFINE p == a.now.parser
           l == Mark(",")
           st == Append(Front(K.stack), "KEY")
           q == [state |-> "KE", stack |-> st, token |-> Token(p.state, "KE"), lex |-> p.lex]
<1>1. /\ p.state \in Ending /\ p.stack = K.stack /\ Last(K.stack) = "OBJECT"
      /\ ~a.off /\ Context(K) /\ Len(K.stack) < Depth
  BY DEF Ends, Settled, Pends, Lost, Ending, ObjectOpen
<1>2. Len(st) = Len(K.stack) /\ Len(K.stack) \in Nat
  BY <1>1, StackInside
<1>3. l.c = "," /\ Comma1 = <<l>>
  BY DEF Mark, Comma1, CommaIf
<1>4. Only(Parsed(p, l), q)
  <2>1. Taken(p, l.c, "KE", st)
    BY <1>1, <1>3 DEF Taken
  <2>2. Len(st) <= Depth
    BY <1>1, <1>2, DepthAssumption
  <2> HIDE DEF st, l, p
  <2> QED
    BY <2>1, <2>2, RuleParsed
<1>5. /\ q.state = "KE" /\ q.stack = st /\ q.token = Token(p.state, "KE")
  OBVIOUS
<1> HIDE DEF q, st, l
<1>6. CASE Settled(a, K, s) \/ Lost(a, K, s)
  <2>1. Loose(a.now, K) /\ a.now.store = s /\ p.state \in {"OK", "E3"}
    BY <1>6 DEF Settled, Lost
  <2>2. q.token = "NO"
    BY <1>5, <2>1 DEF Token, ValueToken
  <2>3. Len(q.stack) <= Len(p.stack)
    BY <1>1, <1>2, <1>5
  <2>4. PICK b : /\ Reads(<<l>>, a, b) /\ ~b.off /\ b.now.parser = q
                 /\ b.now.store = s /\ Exact(b.now, K)
    BY <1>1, <1>2, <1>4, <1>5, <2>1, <2>2, <2>3, QuietOn
  <2>5. Loose(b.now, K)
    BY <1>1, <2>4, ExactIsLoose
  <2> QED
    BY <1>3, <1>5, <2>4, <2>5 DEF AtKey, st
<1>7. CASE Pends(a, K, s)
  <2>1. PICK b : /\ Reads(<<l>>, a, b) /\ ~b.off /\ b.now.parser = q
                 /\ b.now.store = s /\ Loose(b.now, K)
    BY <1>4, <1>5, <1>7, PendsNoMore
  <2> QED
    BY <1>3, <1>5, <2>1 DEF AtKey, st
<1> QED
  BY <1>6, <1>7 DEF Ends

\* The brace after the last member.
LEMMA CloseRead ==
  ASSUME NEW J, Context(J), NEW item, item.type # "LEAF", NEW level,
         NEW K, K = Inside(J, "OBJECT", item, level), ObjectOpen(K),
         NEW a, NEW s, Ends(a, K, s)
  PROVE  \E b : Reads(<<Mark("}")>>, a, b) /\ Settled(b, J, s)
<1> DEFINE p == a.now.parser
           l == Mark("}")
           q == [state |-> "OK", stack |-> J.stack, token |-> Token(p.state, "OK"), lex |-> p.lex]
<1>1. /\ p.state \in Ending /\ p.stack = K.stack /\ Last(K.stack) = "OBJECT"
      /\ ~a.off /\ Context(K) /\ Len(K.stack) < Depth
  BY DEF Ends, Settled, Pends, Ending, ObjectOpen
<1>2. Front(K.stack) = J.stack /\ Len(K.stack) = Len(J.stack) + 1 /\ Len(J.stack) \in Nat
  <2>1. Extends(K.stack, J.stack, "OBJECT")
    BY InsideFacts, Zenon
  <2> QED
    BY <2>1 DEF Extends
<1>3. l.c = "}"
  BY DEF Mark
<1>4. Only(Parsed(p, l), q)
  <2>1. Taken(p, l.c, "OK", J.stack)
    BY <1>1, <1>2, <1>3 DEF Taken
  <2>2. Len(J.stack) <= Depth
    BY <1>1, <1>2, DepthAssumption
  <2> HIDE DEF l, p
  <2> QED
    BY <2>1, <2>2, RuleParsed
<1>5. q.state = "OK" /\ q.stack = J.stack /\ q.token = Token(p.state, "OK")
  OBVIOUS
<1> HIDE DEF q, l
<1>6. CASE Settled(a, K, s)
  <2>1. Loose(a.now, K) /\ a.now.store = s /\ p.state = "OK" /\ a.now.trail.key = NoKey
    BY <1>6 DEF Settled
  <2>2. q.token = "NO"
    BY <1>5, <2>1 DEF Token, ValueToken
  <2>3. Len(q.stack) <= Len(p.stack)
    BY <1>1, <1>2, <1>5
  <2>4. Loose(a.now, J)
    BY <2>1, LooseBelow
  <2>5. PICK b : /\ Reads(<<l>>, a, b) /\ ~b.off /\ b.now.parser = q
                 /\ b.now.store = s /\ Exact(b.now, J) /\ b.now.trail.key = NoKey
    BY <1>1, <1>4, <1>5, <2>1, <2>2, <2>3, <2>4, QuietOn
  <2>6. Loose(b.now, J)
    BY <2>5, ExactIsLoose
  <2> QED
    BY <1>5, <2>5, <2>6 DEF Settled, l
<1>7. CASE Pends(a, K, s)
  <2>1. PICK b : /\ Reads(<<l>>, a, b) /\ ~b.off /\ b.now.parser = q
                 /\ b.now.store = s /\ Loose(b.now, K) /\ b.now.trail.key = NoKey
    BY <1>4, <1>5, <1>7, PendsNoMore
  <2>2. Loose(b.now, J)
    BY <2>1, LooseBelow
  <2> QED
    BY <1>5, <2>1, <2>2 DEF Settled, l
<1> QED
  BY <1>6, <1>7 DEF Ends

\* A key; in an item of an array there may be no room to count it.
LEMMA KeyReads ==
  ASSUME NEW K, ObjectOpen(K), NEW a, NEW s, AtKey(a, K, s), NEW k
  PROVE  \E b : /\ Reads(Key(k), a, b)
                /\ Full(K, s) => Held(b, s)
                /\ ~Full(K, s) => AtValue(b, K, k, Noted(K, s))
<1> DEFINE st == Append(Front(K.stack), "KEY")
           n == Len(K.stack)
<1>1. /\ ~a.off /\ a.now.store = s /\ Loose(a.now, K)
      /\ a.now.parser.state \in {"OB", "KE"} /\ a.now.parser.stack = st
      /\ Context(K) /\ n < Depth /\ Last(K.stack) = "OBJECT"
      /\ K.levels[n].node.vtype = "OBJECT"
  BY DEF AtKey, ObjectOpen
<1>2. /\ Len(st) = n /\ n \in Nat /\ Last(st) = "KEY" /\ Front(st) = Front(K.stack)
      /\ Append(Front(K.stack), "OBJECT") = K.stack
  BY <1>1, StackInside
<1> HIDE DEF st, n
<1>3. PICK b : /\ Reads(<<Quote(k)>>, a, b) /\ ~b.off /\ b.now.store = s /\ Exact(b.now, K)
               /\ b.now.parser.state = "ST" /\ b.now.parser.stack = st
               /\ b.now.parser.lex = k
  <2> DEFINE l == Quote(k)
             p == a.now.parser
             q == [state |-> "ST", stack |-> p.stack, token |-> Token(p.state, "ST"), lex |-> k]
  <2>1. l.c = "quote" /\ l.v = k
    BY DEF Quote
  <2>2. /\ p.state \in DOMAIN Moves /\ l.c \in DOMAIN Moves[p.state]
        /\ Moves[p.state][l.c] = "ST"
    BY <1>1, <2>1 DEF Moves
  <2> HIDE DEF l
  <2>3. Only(Parsed(p, l), q)
    <3>1. p.state \in {"OB", "KE", "VA", "AR"}
      BY <1>1
    <3> HIDE DEF p
    <3>2. Only(Parsed(p, l), [state |-> "ST", stack |-> p.stack, token |-> Token(p.state, "ST"),
                              lex |-> l.v])
      BY <2>2, <3>1, MoveParsed
    <3> QED
      BY <2>1, <3>2
  <2>4. q.state = "ST" /\ q.stack = st /\ q.token = "NO" /\ q.lex = k
    BY <1>1 DEF Token
  <2> HIDE DEF q
  <2>5. Len(q.stack) = n /\ Len(q.stack) <= Len(p.stack)
    BY <1>1, <1>2, <2>4
  <2>6. \E b : /\ Reads(<<l>>, a, b) /\ ~b.off /\ b.now.parser = q
               /\ b.now.store = s /\ Exact(b.now, K)
    BY <1>1, <2>3, <2>4, <2>5, QuietOn DEF n
  <2> QED
    BY <2>4, <2>6 DEF l
<1> DEFINE p == b.now.parser
           l == Quote(Unknown)
           q == [state |-> "CO", stack |-> p.stack, token |-> Token(p.state, "CO"), lex |-> p.lex]
<1>4. Only(Parsed(p, l), q)
  <2>1. l.c = "quote"
    BY DEF Quote
  <2>2. Taken(p, l.c, "CO", p.stack)
    BY <1>2, <1>3, <2>1 DEF Taken
  <2>3. Len(p.stack) <= Depth
    BY <1>1, <1>2, <1>3, DepthAssumption
  <2> HIDE DEF l, p
  <2> QED
    BY <2>2, <2>3, RuleParsed
<1>5. q.state = "CO" /\ q.stack = st /\ q.token = "KS" /\ q.lex = k
  BY <1>3 DEF Token
<1> HIDE DEF q, l
<1>6. Len(q.stack) = n /\ Len(p.stack) = n
  BY <1>2, <1>3, <1>5
<1>7. Key(k) = <<Quote(k)>> \o (<<l>> \o <<Mark(":")>>)
  BY DEF Key, Str, l
<1>8. CASE Full(K, s)
  <2>1. Outcome(b.now, l) = {}
    BY <1>1, <1>3, <1>4, <1>5, <1>6, <1>8, KeyEnds DEF n
  <2>2. PICK c : Reads(<<l>>, b, c) /\ Held(c, s)
    BY <1>3, <2>1, Refuses
  <2>3. Reads(<<Mark(":")>>, c, c)
    <3>1. <<Mark(":")>> \in Seq({Mark(":")})
      OBVIOUS
    <3> QED
      BY <2>2, <3>1, StaysHeld DEF Held
  <2>4. Reads(Key(k), a, c)
    BY <1>3, <1>7, <2>2, <2>3, Then
  <2> QED
    BY <1>8, <2>2, <2>4
<1>9. CASE ~Full(K, s)
  <2> DEFINE d == [parser |-> q, trail |-> [items |-> K.items, key |-> q.lex],
                   loader |-> K.levels, store |-> Noted(K, s)]
  <2>1. Only(Outcome(b.now, l), d)
    BY <1>1, <1>3, <1>4, <1>5, <1>6, <1>9, KeyEnds DEF n
  <2>2. d.parser = q /\ d.trail.key = k /\ d.store = Noted(K, s) /\ Exact(d, K)
    BY <1>5 DEF Exact
  <2> HIDE DEF d
  <2>3. PICK c : Reads(<<l>>, b, c) /\ ~c.off /\ c.now = d
    BY <1>3, <2>1, Lets
  <2> DEFINE pp == c.now.parser
             m == Mark(":")
             r == [state |-> "VA", stack |-> K.stack, token |-> Token(pp.state, "VA"),
                   lex |-> pp.lex]
  <2>4. Only(Parsed(pp, m), r)
    <3>1. m.c = ":"
      BY DEF Mark
    <3>2. Taken(pp, m.c, "VA", K.stack)
      BY <1>2, <1>5, <2>2, <2>3, <3>1 DEF Taken
    <3>3. Len(K.stack) <= Depth
      BY <1>1, <1>2, DepthAssumption DEF n
    <3> HIDE DEF m, pp
    <3> QED
      BY <3>2, <3>3, RuleParsed
  <2>5. r.state = "VA" /\ r.stack = K.stack /\ r.token = "NO"
    BY <1>5, <2>2, <2>3 DEF Token, ValueToken
  <2> HIDE DEF r, m
  <2>6. Loose(c.now, K)
    BY <1>1, <2>2, <2>3, ExactIsLoose
  <2>7. Len(r.stack) = n /\ Len(r.stack) <= Len(pp.stack)
    BY <1>2, <1>5, <2>2, <2>3, <2>5 DEF n
  <2>8. PICK e : /\ Reads(<<m>>, c, e) /\ ~e.off /\ e.now.parser = r
                 /\ e.now.store = Noted(K, s) /\ Exact(e.now, K) /\ e.now.trail.key = k
    BY <1>1, <2>2, <2>3, <2>4, <2>5, <2>6, <2>7, QuietOn, SMTT(60) DEF n
  <2>9. Reads(Key(k), a, e)
    BY <1>3, <1>7, <2>3, <2>8, Then DEF m
  <2> QED
    BY <1>9, <2>5, <2>8, <2>9 DEF AtValue
<1> QED
  BY <1>8, <1>9

-----------------------------------------------------------------------------
(* Values *)

\* Somewhere in a container, and in a lexeme there.
Within(a, K, st, key, s) ==
  /\ ~a.off /\ a.now.store = s /\ Loose(a.now, K) /\ a.now.trail.key = key
  /\ a.now.parser.state = st /\ a.now.parser.stack = K.stack
Going(a, K, st, x, key, s) ==
  /\ Within(a, K, st, key, s) /\ Exact(a.now, K) /\ a.now.parser.lex = x

\* A letter that starts a lexeme or goes on in one.
LEMMA MoveReads ==
  ASSUME NEW K, Context(K), NEW a, NEW key, NEW s, NEW st \in DOMAIN Moves,
         Within(a, K, st, key, s), NEW l, l.c \in DOMAIN Moves[st],
         NEW to, to = Moves[st][l.c], Token(st, to) = "NO"
  PROVE  \E b : /\ Reads(<<l>>, a, b)
                /\ Going(b, K, to, IF st \in {"OB", "KE", "VA", "AR"} THEN l.v
                                   ELSE a.now.parser.lex, key, s)
<1> DEFINE p == a.now.parser
           x == IF st \in {"OB", "KE", "VA", "AR"} THEN l.v ELSE p.lex
           q == [state |-> to, stack |-> p.stack, token |-> Token(p.state, to), lex |-> x]
<1>1. /\ ~a.off /\ a.now.store = s /\ Loose(a.now, K) /\ a.now.trail.key = key
      /\ p.state = st /\ p.stack = K.stack
  BY DEF Within
<1>2. Only(Parsed(p, l), q)
  <2> HIDE DEF p
  <2>1. p.state \in DOMAIN Moves /\ l.c \in DOMAIN Moves[p.state] /\ to = Moves[p.state][l.c]
    BY <1>1
  <2>2. Only(Parsed(p, l), [state |-> to, stack |-> p.stack, token |-> Token(p.state, to),
                            lex |-> IF p.state \in {"OB", "KE", "VA", "AR"} THEN l.v ELSE p.lex])
    BY <2>1, MoveParsed
  <2> QED
    BY <1>1, <2>2, Zenon
<1>3. q.state = to /\ q.stack = K.stack /\ q.token = "NO" /\ q.lex = x
  BY <1>1
<1> HIDE DEF q, x
<1>4. Len(K.stack) \in Nat
  BY StackInside
<1>5. Len(q.stack) = Len(K.stack) /\ Len(q.stack) <= Len(p.stack)
  BY <1>1, <1>3, <1>4
<1>6. PICK b : /\ Reads(<<l>>, a, b) /\ ~b.off /\ b.now.parser = q
               /\ b.now.store = s /\ Exact(b.now, K) /\ b.now.trail.key = key
  BY <1>1, <1>2, <1>3, <1>5, QuietOn
<1>7. Loose(b.now, K)
  BY <1>6, ExactIsLoose
<1> QED
  BY <1>3, <1>6, <1>7 DEF Going, Within, x

\* The letters a number is made of.
LEMMA NumberMoves ==
  /\ \A st \in {"VA", "AR"} :
       /\ st \in DOMAIN Moves
       /\ "zero" \in DOMAIN Moves[st] /\ Moves[st]["zero"] = "ZE"
       /\ "digit" \in DOMAIN Moves[st] /\ Moves[st]["digit"] = "INT"
       /\ "minus" \in DOMAIN Moves[st] /\ Moves[st]["minus"] = "MI"
       /\ "tru" \in DOMAIN Moves[st] /\ Moves[st]["tru"] = "T3"
       /\ "fals" \in DOMAIN Moves[st] /\ Moves[st]["fals"] = "F4"
       /\ "quote" \in DOMAIN Moves[st] /\ Moves[st]["quote"] = "ST"
  /\ "MI" \in DOMAIN Moves /\ "digit" \in DOMAIN Moves["MI"] /\ Moves["MI"]["digit"] = "INT"
  /\ \A st \in {"ZE", "INT"} :
       /\ st \in DOMAIN Moves
       /\ "point" \in DOMAIN Moves[st] /\ Moves[st]["point"] = "FR"
       /\ "exp" \in DOMAIN Moves[st] /\ Moves[st]["exp"] = "E1"
  /\ "FR" \in DOMAIN Moves /\ "digit" \in DOMAIN Moves["FR"] /\ Moves["FR"]["digit"] = "FS"
  /\ "E1" \in DOMAIN Moves /\ "plus" \in DOMAIN Moves["E1"] /\ Moves["E1"]["plus"] = "E2"
  /\ "E2" \in DOMAIN Moves /\ "digit" \in DOMAIN Moves["E2"] /\ Moves["E2"]["digit"] = "E3"
  /\ "T3" \in DOMAIN Moves /\ "e" \in DOMAIN Moves["T3"] /\ Moves["T3"]["e"] = "OK"
  /\ "F4" \in DOMAIN Moves /\ "e" \in DOMAIN Moves["F4"] /\ Moves["F4"]["e"] = "OK"
  /\ \A st, to : to \notin {"KE", "VA", "OK", "CO"} => Token(st, to) = "NO"
<1>1. \A st \in {"VA", "AR"} : st \in DOMAIN Moves /\ Moves[st] = ValueStart
  BY DEF Moves
<1>2. /\ "MI" \in DOMAIN Moves /\ Moves["MI"] = [zero |-> "ZE", digit |-> "INT"]
      /\ "ZE" \in DOMAIN Moves /\ Moves["ZE"] = [point |-> "FR", exp |-> "E1", e |-> "E1"]
      /\ "INT" \in DOMAIN Moves
      /\ Moves["INT"] = [zero |-> "INT", digit |-> "INT", point |-> "FR", exp |-> "E1", e |-> "E1"]
      /\ "FR" \in DOMAIN Moves /\ Moves["FR"] = [zero |-> "FS", digit |-> "FS"]
  BY DEF Moves
<1>3. /\ "E1" \in DOMAIN Moves
      /\ Moves["E1"] = [plus |-> "E2", minus |-> "E2", zero |-> "E3", digit |-> "E3"]
      /\ "E2" \in DOMAIN Moves /\ Moves["E2"] = [zero |-> "E3", digit |-> "E3"]
      /\ "T3" \in DOMAIN Moves /\ Moves["T3"] = [e |-> "OK"]
      /\ "F4" \in DOMAIN Moves /\ Moves["F4"] = [e |-> "OK"]
  BY DEF Moves
<1>4. \A st, to : to \notin {"KE", "VA", "OK", "CO"} => Token(st, to) = "NO"
  BY DEF Token
<1>5. /\ "zero" \in DOMAIN ValueStart /\ ValueStart["zero"] = "ZE"
      /\ "digit" \in DOMAIN ValueStart /\ ValueStart["digit"] = "INT"
      /\ "minus" \in DOMAIN ValueStart /\ ValueStart["minus"] = "MI"
      /\ "tru" \in DOMAIN ValueStart /\ ValueStart["tru"] = "T3"
      /\ "fals" \in DOMAIN ValueStart /\ ValueStart["fals"] = "F4"
      /\ "quote" \in DOMAIN ValueStart /\ ValueStart["quote"] = "ST"
  BY DEF ValueStart
<1>6. \A st \in {"VA", "AR"} :
       /\ st \in DOMAIN Moves
       /\ "zero" \in DOMAIN Moves[st] /\ Moves[st]["zero"] = "ZE"
       /\ "digit" \in DOMAIN Moves[st] /\ Moves[st]["digit"] = "INT"
       /\ "minus" \in DOMAIN Moves[st] /\ Moves[st]["minus"] = "MI"
       /\ "tru" \in DOMAIN Moves[st] /\ Moves[st]["tru"] = "T3"
       /\ "fals" \in DOMAIN Moves[st] /\ Moves[st]["fals"] = "F4"
       /\ "quote" \in DOMAIN Moves[st] /\ Moves[st]["quote"] = "ST"
  BY <1>1, <1>5
<1>7. "MI" \in DOMAIN Moves /\ "digit" \in DOMAIN Moves["MI"] /\ Moves["MI"]["digit"] = "INT"
  BY <1>2
<1>8. \A st \in {"ZE", "INT"} :
       /\ st \in DOMAIN Moves
       /\ "point" \in DOMAIN Moves[st] /\ Moves[st]["point"] = "FR"
       /\ "exp" \in DOMAIN Moves[st] /\ Moves[st]["exp"] = "E1"
  BY <1>2
<1>9. "FR" \in DOMAIN Moves /\ "digit" \in DOMAIN Moves["FR"] /\ Moves["FR"]["digit"] = "FS"
  BY <1>2
<1>10. /\ "E1" \in DOMAIN Moves /\ "plus" \in DOMAIN Moves["E1"] /\ Moves["E1"]["plus"] = "E2"
       /\ "E2" \in DOMAIN Moves /\ "digit" \in DOMAIN Moves["E2"] /\ Moves["E2"]["digit"] = "E3"
  BY <1>3
<1>11. /\ "T3" \in DOMAIN Moves /\ "e" \in DOMAIN Moves["T3"] /\ Moves["T3"]["e"] = "OK"
       /\ "F4" \in DOMAIN Moves /\ "e" \in DOMAIN Moves["F4"] /\ Moves["F4"]["e"] = "OK"
  BY <1>3
<1> QED
  BY <1>4, <1>6, <1>7, <1>8, <1>9, <1>10, <1>11

\* An integer, with a sign or without; its last letter leaves it open.
LEMMA NumberReads ==
  ASSUME NEW K, Context(K), NEW a, NEW key, NEW s, NEW st \in {"VA", "AR"},
         Within(a, K, st, key, s), NEW n
  PROVE  /\ \E b : \E e \in {"ZE", "INT"} : Reads(Number(n), a, b) /\ Going(b, K, e, n, key, s)
         /\ \E b : Reads(Code(n), a, b) /\ Going(b, K, "INT", n, key, s)
<1>1. ASSUME NEW l, l.c \in {"zero", "digit", "minus"}
      PROVE  \E b : Reads(<<l>>, a, b) /\ Going(b, K, Moves[st][l.c], l.v, key, s)
  <2>1. /\ st \in DOMAIN Moves /\ l.c \in DOMAIN Moves[st]
        /\ Moves[st][l.c] \notin {"KE", "VA", "OK", "CO"}
    BY <1>1, NumberMoves
  <2>2. Token(st, Moves[st][l.c]) = "NO" /\ st \in {"OB", "KE", "VA", "AR"}
    BY <2>1, NumberMoves
  <2>3. \E b : /\ Reads(<<l>>, a, b)
               /\ Going(b, K, Moves[st][l.c], IF st \in {"OB", "KE", "VA", "AR"} THEN l.v
                                              ELSE a.now.parser.lex, key, s)
    BY <2>1, <2>2, MoveReads
  <2> QED
    BY <2>2, <2>3
<1> DEFINE z == [c |-> "zero", v |-> 0]
           d == [c |-> "digit", v |-> n]
           m == [c |-> "minus", v |-> n]
<1>2. \E b : Reads(<<d>>, a, b) /\ Going(b, K, "INT", n, key, s)
  <2>1. d.c = "digit" /\ d.v = n
    OBVIOUS
  <2> HIDE DEF d
  <2> QED
    BY <1>1, <2>1, NumberMoves
<1>3. CASE n = 0
  <2>1. z.c = "zero" /\ z.v = n
    BY <1>3
  <2>2. Number(n) = <<z>>
    BY <1>3 DEF Number
  <2> HIDE DEF z
  <2>3. \E b : Reads(<<z>>, a, b) /\ Going(b, K, "ZE", n, key, s)
    BY <1>1, <2>1, NumberMoves
  <2> QED
    BY <1>2, <2>2, <2>3 DEF Code
<1>4. CASE n # 0 /\ n < 0
  <2>1. m.c = "minus" /\ m.v = n
    OBVIOUS
  <2>2. Number(n) = <<m>> \o <<Mark("digit")>>
    BY <1>4 DEF Number
  <2> HIDE DEF m
  <2>3. PICK b : Reads(<<m>>, a, b) /\ Going(b, K, "MI", n, key, s)
    BY <1>1, <2>1, NumberMoves
  <2>4. Within(b, K, "MI", key, s) /\ b.now.parser.lex = n
    BY <2>3 DEF Going
  <2>5. /\ "MI" \in DOMAIN Moves /\ Mark("digit").c \in DOMAIN Moves["MI"]
        /\ Moves["MI"][Mark("digit").c] = "INT" /\ Token("MI", "INT") = "NO"
    BY Marks, NumberMoves
  <2>6. PICK c : /\ Reads(<<Mark("digit")>>, b, c)
                 /\ Going(c, K, "INT", IF "MI" \in {"OB", "KE", "VA", "AR"} THEN Mark("digit").v
                                       ELSE b.now.parser.lex, key, s)
    BY <2>4, <2>5, MoveReads
  <2>7. Going(c, K, "INT", n, key, s)
    BY <2>4, <2>6
  <2> QED
    BY <1>2, <2>2, <2>3, <2>6, <2>7, Then DEF Code
<1>5. CASE ~(n = 0) /\ ~(n < 0)
  <2>1. Number(n) = <<d>>
    BY <1>5 DEF Number
  <2> QED
    BY <1>2, <2>1 DEF Code
<1> QED
  BY <1>3, <1>4, <1>5

\* The part of the specification by which a member is stored, and where.
Takes1(K, key, token, node) ==
  /\ Only(Part(K.levels[Len(K.stack)].node, Named("LEAF", key), token), node)
  /\ node.vtype \in Fitting[token]
Place(K, key) == Append(K.levels[Len(K.stack)].at, key)

\* A letter that ends a text or a word in an object, which is stored with it.
LEMMA LastLetter ==
  ASSUME NEW K, ObjectOpen(K), NEW a, NEW st, NEW x, NEW key, key # NoKey, NEW s,
         Going(a, K, st, x, key, s), NEW l, NEW token, token \notin {"NO", "KS"},
         Only(Parsed(a.now.parser, l), [state |-> "OK", stack |-> K.stack, token |-> token,
                                        lex |-> x]),
         NEW node, Takes1(K, key, token, node)
  PROVE  \E b : /\ Reads(<<l>>, a, b)
                /\ Settled(b, K, Put(s, Place(K, key), Content(node, token, x)))
<1> DEFINE q == [state |-> "OK", stack |-> K.stack, token |-> token, lex |-> x]
           top == K.levels[Len(K.stack)]
<1>1. q.state = "OK" /\ q.stack = K.stack /\ q.token = token /\ q.lex = x
  OBVIOUS
<1>2. Only(Parsed(a.now.parser, l), q)
  OBVIOUS
<1> HIDE DEF q
<1>3. /\ ~a.off /\ a.now.store = s /\ Exact(a.now, K) /\ a.now.trail.key = key
      /\ Last(a.now.parser.stack) = "OBJECT" /\ Context(K) /\ Len(K.stack) < Depth
      /\ top.node.vtype = "OBJECT"
  BY DEF Going, Within, ObjectOpen
<1>4. PICK d : /\ Only(Outcome(a.now, l), d)
               /\ d.parser = q /\ d.trail.key = NoKey /\ Loose(d, K)
               /\ d.store = Put(s, Append(top.at, key), Content(node, token, x))
  <2>1. \E d : /\ Only(Outcome(a.now, l), d)
               /\ d.parser = q /\ d.trail.key = NoKey /\ Loose(d, K)
               /\ d.store = Put(a.now.store, Append(top.at, key),
                                Content(node, q.token, q.lex))
    BY <1>1, <1>2, <1>3, ValueEnds DEF Takes1
  <2> QED
    BY <1>1, <1>3, <2>1
<1>5. PICK b : Reads(<<l>>, a, b) /\ ~b.off /\ b.now = d
  <2>1. ~a.off /\ Only(Outcome(a.now, l), d)
    BY <1>3, <1>4
  <2> QED
    BY <2>1, Lets
<1> QED
  BY <1>1, <1>4, <1>5 DEF Settled, Place

\* A text in quotes.
LEMMA StrReads ==
  ASSUME NEW K, ObjectOpen(K), NEW key, key # NoKey, NEW s, NEW x, NEW node,
         Takes1(K, key, "VS", node)
  PROVE  Value(K, key, s, Str(x), Put(s, Place(K, key), x))
<1> SUFFICES ASSUME NEW v, AtValue(v, K, key, s)
             PROVE  \E w : Reads(Str(x), v, w) /\ Ends(w, K, Put(s, Place(K, key), x))
  BY DEF Value
<1>1. Context(K) /\ Len(K.stack) < Depth /\ Last(K.stack) = "OBJECT" /\ Len(K.stack) \in Nat
  BY StackInside DEF ObjectOpen
<1>2. Within(v, K, "VA", key, s)
  BY <1>1, ExactIsLoose DEF AtValue, Within
<1> DEFINE l == Quote(x)
           m == Quote(Unknown)
<1>3. Str(x) = <<l>> \o <<m>>
  BY DEF Str
<1>4. l.c = "quote" /\ l.v = x /\ m.c = "quote"
  BY DEF Quote
<1> HIDE DEF l, m
<1>5. PICK b : Reads(<<l>>, v, b) /\ Going(b, K, "ST", x, key, s)
  <2>1. /\ "VA" \in DOMAIN Moves /\ l.c \in DOMAIN Moves["VA"] /\ "ST" = Moves["VA"][l.c]
        /\ Token("VA", "ST") = "NO"
    BY <1>4, NumberMoves
  <2>2. \E b : /\ Reads(<<l>>, v, b)
               /\ Going(b, K, "ST", IF "VA" \in {"OB", "KE", "VA", "AR"} THEN l.v
                                    ELSE v.now.parser.lex, key, s)
    BY <1>1, <1>2, <2>1, MoveReads
  <2> QED
    BY <1>4, <2>2
<1> DEFINE p == b.now.parser
           q == [state |-> "OK", stack |-> K.stack, token |-> "VS", lex |-> x]
<1>6. p.state = "ST" /\ p.stack = K.stack /\ p.lex = x
  BY <1>5 DEF Going, Within
<1>7. Only(Parsed(p, m), q)
  <2>1. Taken(p, m.c, "OK", K.stack)
    BY <1>1, <1>4, <1>6 DEF Taken
  <2>2. Len(K.stack) <= Depth
    BY <1>1, DepthAssumption
  <2>3. Token(p.state, "OK") = "VS"
    BY <1>6 DEF Token, ValueToken
  <2> HIDE DEF p
  <2>4. Only(Parsed(p, m), [state |-> "OK", stack |-> K.stack, token |-> Token(p.state, "OK"),
                            lex |-> p.lex])
    BY <2>1, <2>2, RuleParsed
  <2> QED
    BY <1>6, <2>3, <2>4, Zenon
<1>8. PICK c : /\ Reads(<<m>>, b, c)
               /\ Settled(c, K, Put(s, Place(K, key), Content(node, "VS", x)))
  BY <1>5, <1>7, LastLetter
<1>9. Content(node, "VS", x) = x
  BY DEF Content
<1> QED
  BY <1>3, <1>5, <1>8, <1>9, Then DEF Ends

\* A number that goes on to the next letter.
LEMMA GoesPends ==
  ASSUME NEW K, NEW a, NEW st \in {"ZE", "INT", "FS"}, NEW n, NEW key, key # NoKey, NEW s,
         Going(a, K, st, n, key, s), NEW token, token = ValueToken[st],
         NEW node, Takes1(K, key, token, node)
  PROVE  Ends(a, K, Put(s, Place(K, key), Content(node, token, n)))
BY DEF Going, Within, Takes1, Place, Ends, Pends

\* An integer.
LEMMA IntReads ==
  ASSUME NEW K, ObjectOpen(K), NEW key, key # NoKey, NEW s, NEW n, NEW node,
         Takes1(K, key, "VI", node)
  PROVE  LET t == Put(s, Place(K, key), Content(node, "VI", n))
         IN  Value(K, key, s, Number(n), t) /\ Value(K, key, s, Code(n), t)
<1> DEFINE t == Put(s, Place(K, key), Content(node, "VI", n))
<1>1. ASSUME NEW v, AtValue(v, K, key, s)
      PROVE  /\ \E w : Reads(Number(n), v, w) /\ Ends(w, K, t)
             /\ \E w : Reads(Code(n), v, w) /\ Ends(w, K, t)
  <2>1. Context(K)
    BY DEF ObjectOpen
  <2>2. Within(v, K, "VA", key, s)
    BY <1>1, <2>1, ExactIsLoose DEF AtValue, Within
  <2>3. /\ \E w : \E e \in {"ZE", "INT"} : Reads(Number(n), v, w) /\ Going(w, K, e, n, key, s)
        /\ \E w : Reads(Code(n), v, w) /\ Going(w, K, "INT", n, key, s)
    <3>1. "VA" \in {"VA", "AR"}
      OBVIOUS
    <3> QED
      BY <2>1, <2>2, <3>1, NumberReads
  <2>4. ASSUME NEW w, NEW e \in {"ZE", "INT"}, Going(w, K, e, n, key, s)
        PROVE  Ends(w, K, t)
    <3>1. "VI" = ValueToken[e] /\ e \in {"ZE", "INT", "FS"}
      BY DEF ValueToken
    <3> QED
      BY <2>4, <3>1, GoesPends
  <2> HIDE DEF t
  <2> QED
    BY <2>3, <2>4
<1> QED
  BY <1>1 DEF Value

\* A word.
LEMMA WordReads ==
  ASSUME NEW K, ObjectOpen(K), NEW key, key # NoKey, NEW s, NEW x, NEW node,
         \A token \in {"VT", "VF"} : Takes1(K, key, token, node)
  PROVE  \A v : AtValue(v, K, key, s) =>
           \E w : /\ Reads(Word(x), v, w)
                  /\ Settled(w, K, Put(s, Place(K, key), <<"int", IF x THEN 1 ELSE 0>>))
<1> SUFFICES ASSUME NEW v, AtValue(v, K, key, s)
             PROVE  \E w : /\ Reads(Word(x), v, w)
                           /\ Settled(w, K, Put(s, Place(K, key), <<"int", IF x THEN 1 ELSE 0>>))
  OBVIOUS
<1>1. Context(K)
  BY DEF ObjectOpen
<1>2. Within(v, K, "VA", key, s)
  BY <1>1, ExactIsLoose DEF AtValue, Within
<1>3. ASSUME NEW l, NEW st, NEW token, \/ l.c = "tru" /\ st = "T3" /\ token = "VT"
                                       \/ l.c = "fals" /\ st = "F4" /\ token = "VF"
      PROVE  \E w : /\ Reads(<<l>> \o <<Mark("e")>>, v, w)
                    /\ Settled(w, K, Put(s, Place(K, key), Content(node, token, l.v)))
  <2>1. /\ "VA" \in DOMAIN Moves /\ l.c \in DOMAIN Moves["VA"] /\ st = Moves["VA"][l.c]
        /\ Token("VA", st) = "NO"
    BY <1>3, NumberMoves
  <2>2. PICK b : Reads(<<l>>, v, b) /\ Going(b, K, st, l.v, key, s)
    <3>1. \E b : /\ Reads(<<l>>, v, b)
                 /\ Going(b, K, st, IF "VA" \in {"OB", "KE", "VA", "AR"} THEN l.v
                                    ELSE v.now.parser.lex, key, s)
      BY <1>1, <1>2, <2>1, MoveReads
    <3> QED
      BY <3>1
  <2> DEFINE p == b.now.parser
             m == Mark("e")
             q == [state |-> "OK", stack |-> K.stack, token |-> token, lex |-> l.v]
  <2>3. p.state = st /\ p.stack = K.stack /\ p.lex = l.v
    BY <2>2 DEF Going, Within
  <2>4. m.c = "e"
    BY DEF Mark
  <2> HIDE DEF m
  <2>5. Only(Parsed(p, m), q)
    <3>1. /\ p.state \in DOMAIN Moves /\ m.c \in DOMAIN Moves[p.state]
          /\ Moves[p.state][m.c] = "OK"
      BY <1>3, <2>3, <2>4, NumberMoves
    <3>2. Token(p.state, "OK") = token /\ p.state \notin {"OB", "KE", "VA", "AR"}
      BY <1>3, <2>3 DEF Token, ValueToken
    <3> HIDE DEF p
    <3>3. Only(Parsed(p, m), [state |-> "OK", stack |-> p.stack, token |-> Token(p.state, "OK"),
                              lex |-> IF p.state \in {"OB", "KE", "VA", "AR"} THEN m.v ELSE p.lex])
      BY <3>1, MoveParsed
    <3>4. (IF p.state \in {"OB", "KE", "VA", "AR"} THEN m.v ELSE p.lex) = l.v
      BY <2>3, <3>2
    <3> QED
      BY <2>3, <3>2, <3>3, <3>4, Zenon
  <2>6. token \notin {"NO", "KS"} /\ Takes1(K, key, token, node)
    BY <1>3
  <2>7. PICK c : /\ Reads(<<m>>, b, c)
                 /\ Settled(c, K, Put(s, Place(K, key), Content(node, token, l.v)))
    BY <2>2, <2>5, <2>6, LastLetter
  <2> QED
    BY <2>2, <2>7, Then DEF m
<1>4. /\ \A y : Content(node, "VT", y) = <<"int", 1>>
      /\ \A y : Content(node, "VF", y) = <<"int", 0>>
  BY DEF Content
<1> DEFINE l == [c |-> IF x THEN "tru" ELSE "fals", v |-> 0]
<1>5. Word(x) = <<l>> \o <<Mark("e")>>
  BY DEF Word
<1>6. CASE x
  <2>1. l.c = "tru"
    BY <1>6
  <2> HIDE DEF l
  <2>2. \E w : /\ Reads(<<l>> \o <<Mark("e")>>, v, w)
               /\ Settled(w, K, Put(s, Place(K, key), Content(node, "VT", l.v)))
    BY <1>3, <2>1
  <2> QED
    BY <1>4, <1>5, <1>6, <2>2
<1>7. CASE ~x
  <2>1. l.c = "fals"
    BY <1>7
  <2> HIDE DEF l
  <2>2. \E w : /\ Reads(<<l>> \o <<Mark("e")>>, v, w)
               /\ Settled(w, K, Put(s, Place(K, key), Content(node, "VF", l.v)))
    BY <1>3, <2>1
  <2> QED
    BY <1>4, <1>5, <1>7, <2>2
<1> QED
  BY <1>6, <1>7

\* A real: it comes back as it is, as an integer, or not at all.
LEMMA RealReads ==
  ASSUME NEW K, ObjectOpen(K), NEW key, key \notin {NoKey, "phase"}, NEW s, NEW n \in Int,
         NEW int, int.key = key, Takes1(K, key, "VI", int),
         NEW real, Takes1(K, key, "VR", real),
         NEW v, AtValue(v, K, key, s)
  PROVE  \E w : /\ Reads(RealText(n), v, w)
                /\ Exponent(n) => Lost(w, K, s)
                /\ ~Exponent(n) =>
                     Ends(w, K, Put(s, Place(K, key),
                                    IF Whole(n) THEN <<"int", Rounded(n)>> ELSE <<"real", n>>))
<1>1. Context(K)
  BY DEF ObjectOpen
<1>2. Within(v, K, "VA", key, s) /\ "VA" \in {"VA", "AR"}
  BY <1>1, ExactIsLoose DEF AtValue, Within
<1>3. PICK b : \E e \in {"ZE", "INT"} : Reads(Number(n), v, b) /\ Going(b, K, e, n, key, s)
  BY <1>1, <1>2, NumberReads
<1>4. PICK e \in {"ZE", "INT"} : Reads(Number(n), v, b) /\ Going(b, K, e, n, key, s)
  BY <1>3
<1>5. ASSUME NEW a, NEW st \in DOMAIN Moves, Going(a, K, st, n, key, s), NEW c,
             c \in DOMAIN Moves[st], Moves[st][c] \notin {"KE", "VA", "OK", "CO"},
             st \notin {"OB", "KE", "VA", "AR"}
      PROVE  \E d : Reads(<<Mark(c)>>, a, d) /\ Going(d, K, Moves[st][c], n, key, s)
  <2>1. Within(a, K, st, key, s) /\ a.now.parser.lex = n
    BY <1>5 DEF Going
  <2>2. Mark(c).c = c /\ Token(st, Moves[st][c]) = "NO"
    BY <1>5, Marks, NumberMoves
  <2>3. \E d : /\ Reads(<<Mark(c)>>, a, d)
               /\ Going(d, K, Moves[st][c], IF st \in {"OB", "KE", "VA", "AR"} THEN Mark(c).v
                                            ELSE a.now.parser.lex, key, s)
    BY <1>1, <1>5, <2>1, <2>2, MoveReads
  <2> QED
    BY <1>5, <2>1, <2>3
<1>6. CASE Exponent(n)
  <2>1. PICK c : Reads(<<Mark("exp")>>, b, c) /\ Going(c, K, "E1", n, key, s)
    <3>1. /\ e \in DOMAIN Moves /\ "exp" \in DOMAIN Moves[e] /\ Moves[e]["exp"] = "E1"
          /\ e \notin {"OB", "KE", "VA", "AR"}
      BY NumberMoves
    <3>2. \E d : Reads(<<Mark("exp")>>, b, d) /\ Going(d, K, Moves[e]["exp"], n, key, s)
      BY <1>4, <1>5, <3>1
    <3> QED
      BY <3>1, <3>2
  <2>2. PICK d : Reads(<<Mark("plus")>>, c, d) /\ Going(d, K, "E2", n, key, s)
    <3>1. /\ "E1" \in DOMAIN Moves /\ "plus" \in DOMAIN Moves["E1"] /\ Moves["E1"]["plus"] = "E2"
      BY NumberMoves
    <3>2. \E d : Reads(<<Mark("plus")>>, c, d) /\ Going(d, K, Moves["E1"]["plus"], n, key, s)
      BY <1>5, <2>1, <3>1
    <3> QED
      BY <3>1, <3>2
  <2>3. PICK f : Reads(<<Mark("digit")>>, d, f) /\ Going(f, K, "E3", n, key, s)
    <3>1. /\ "E2" \in DOMAIN Moves /\ "digit" \in DOMAIN Moves["E2"] /\ Moves["E2"]["digit"] = "E3"
      BY NumberMoves
    <3>2. \E f : Reads(<<Mark("digit")>>, d, f) /\ Going(f, K, Moves["E2"]["digit"], n, key, s)
      BY <1>5, <2>2, <3>1
    <3> QED
      BY <3>1, <3>2
  <2>4. Lost(f, K, s)
    BY <2>3 DEF Going, Within, Lost
  <2>5. <<Mark("exp"), Mark("plus"), Mark("digit")>>
        = <<Mark("exp")>> \o (<<Mark("plus")>> \o <<Mark("digit")>>)
    OBVIOUS
  <2>6. RealText(n) = Number(n) \o (<<Mark("exp")>> \o (<<Mark("plus")>> \o <<Mark("digit")>>))
    BY <1>6, <2>5, Zenon DEF RealText
  <2>7. Reads(RealText(n), v, f)
    BY <1>4, <2>1, <2>2, <2>3, <2>6, Then
  <2> QED
    BY <1>6, <2>4, <2>7
<1>7. CASE ~Exponent(n) /\ Whole(n)
  <2>1. RealText(n) = Number(Rounded(n))
    BY <1>7, Zenon DEF RealText
  <2>2. Value(K, key, s, Number(Rounded(n)), Put(s, Place(K, key), Content(int, "VI", Rounded(n))))
    BY IntReads
  <2>3. Content(int, "VI", Rounded(n)) = <<"int", Rounded(n)>>
    <3> DEFINE m == Rounded(n)
    <3> HIDE DEF m
    <3>1. Content(int, "VI", m) = <<"int", m>>
      BY DEF Content
    <3> QED
      BY <3>1 DEF m
  <2> QED
    BY <1>7, <2>1, <2>2, <2>3 DEF Value
<1>8. CASE ~Exponent(n) /\ ~Whole(n)
  <2>1. PICK c : Reads(<<Mark("point")>>, b, c) /\ Going(c, K, "FR", n, key, s)
    <3>1. /\ e \in DOMAIN Moves /\ "point" \in DOMAIN Moves[e] /\ Moves[e]["point"] = "FR"
          /\ e \notin {"OB", "KE", "VA", "AR"}
      BY NumberMoves
    <3>2. \E d : Reads(<<Mark("point")>>, b, d) /\ Going(d, K, Moves[e]["point"], n, key, s)
      BY <1>4, <1>5, <3>1
    <3> QED
      BY <3>1, <3>2
  <2>2. PICK d : Reads(<<Mark("digit")>>, c, d) /\ Going(d, K, "FS", n, key, s)
    <3>1. /\ "FR" \in DOMAIN Moves /\ "digit" \in DOMAIN Moves["FR"] /\ Moves["FR"]["digit"] = "FS"
      BY NumberMoves
    <3>2. \E d : Reads(<<Mark("digit")>>, c, d) /\ Going(d, K, Moves["FR"]["digit"], n, key, s)
      BY <1>5, <2>1, <3>1
    <3> QED
      BY <3>1, <3>2
  <2>3. Ends(d, K, Put(s, Place(K, key), <<"real", n>>))
    <3>1. "VR" = ValueToken["FS"] /\ Content(real, "VR", n) = <<"real", n>>
      BY DEF ValueToken, Content
    <3>2. "FS" \in {"ZE", "INT", "FS"}
      OBVIOUS
    <3> QED
      BY <2>2, <3>1, <3>2, GoesPends
  <2>4. <<Mark("point"), Mark("digit")>> = <<Mark("point")>> \o <<Mark("digit")>>
    OBVIOUS
  <2>5. RealText(n) = Number(n) \o (<<Mark("point")>> \o <<Mark("digit")>>)
    BY <1>8, <2>4, Zenon DEF RealText
  <2>6. Reads(RealText(n), v, d)
    BY <1>4, <2>1, <2>2, <2>5, Then
  <2> QED
    BY <1>8, <2>3, <2>6
<1> QED
  BY <1>6, <1>7, <1>8

\* The value of a datapoint: what comes back is what Reread says.
LEMMA DpValueReads ==
  ASSUME NEW K, ObjectOpen(K), NEW s, NEW dp \in DocDps,
         NEW int, int.key = "value", Takes1(K, "value", "VI", int),
         NEW real, Takes1(K, "value", "VR", real),
         NEW bool, \A token \in {"VT", "VF"} : Takes1(K, "value", token, bool),
         NEW v, AtValue(v, K, "value", s)
  PROVE  LET lost == dp.type = "REAL" /\ Exponent(dp.value[2])
         IN  \E w : /\ Reads(ValueText(dp), v, w)
                    /\ lost => Lost(w, K, s)
                    /\ ~lost => Ends(w, K, Put(s, Place(K, "value"), Reread(dp).value))
<1> DEFINE n == dp.value[2]
<1>0. "value" \notin {NoKey, "phase"}
  BY DEF NoKey
<1>1. dp.type \in DpTypes /\ dp.value \in DocValues(dp.type)
  BY DEF DocDps
<1>2. CASE dp.type = "INT"
  <2>1. n \in Int /\ dp.value = <<"int", n>>
    BY <1>1, <1>2 DEF DocValues
  <2>2. ValueText(dp) = Number(n) /\ Reread(dp).value = <<"int", n>>
    BY <1>2, <2>1 DEF ValueText, Reread
  <2>3. Content(int, "VI", n) = <<"int", n>>
    BY DEF Content
  <2>4. Value(K, "value", s, Number(n), Put(s, Place(K, "value"), Content(int, "VI", n)))
    BY <1>0, IntReads
  <2> HIDE DEF n
  <2> QED
    BY <1>2, <2>2, <2>3, <2>4 DEF Value
<1>3. CASE dp.type = "BOOL"
  <2>1. n \in {0, 1} /\ dp.value = <<"int", n>>
    BY <1>1, <1>3 DEF DocValues
  <2>2. ValueText(dp) = Word(n # 0) /\ Reread(dp).value = <<"int", n>>
    BY <1>3, <2>1 DEF ValueText, Reread
  <2>3. (IF n # 0 THEN 1 ELSE 0) = n
    BY <2>1
  <2>4. \E w : /\ Reads(Word(n # 0), v, w)
               /\ Settled(w, K, Put(s, Place(K, "value"), <<"int", IF n # 0 THEN 1 ELSE 0>>))
    BY <1>0, WordReads
  <2> HIDE DEF n
  <2> QED
    BY <1>3, <2>2, <2>3, <2>4 DEF Ends
<1>4. CASE dp.type = "REAL"
  <2>1. n \in Int /\ dp.value = <<"real", n>>
    BY <1>1, <1>4 DEF DocValues
  <2>2. ValueText(dp) = RealText(n)
    BY <1>4 DEF ValueText
  <2>3. ~Exponent(n) =>
          Reread(dp).value = IF Whole(n) THEN <<"int", Rounded(n)>> ELSE <<"real", n>>
    <3> DEFINE m == Rounded(n)
    <3> HIDE DEF m
    <3>1. CASE ~Exponent(n) /\ Whole(n)
      <4>1. Reread(dp) = [dp EXCEPT !.value = <<"int", m>>]
        BY <1>4, <3>1 DEF Reread, m
      <4>2. dp.value = dp.value /\ "value" \in DOMAIN dp
        BY DEF DocDps
      <4> QED
        BY <3>1, <4>1, <4>2 DEF m
    <3>2. CASE ~Exponent(n) /\ ~Whole(n)
      <4>1. Reread(dp) = dp
        BY <1>4, <3>2 DEF Reread
      <4> QED
        BY <2>1, <3>2, <4>1
    <3> QED
      BY <3>1, <3>2
  <2>4. PICK w : /\ Reads(RealText(n), v, w)
                 /\ Exponent(n) => Lost(w, K, s)
                 /\ ~Exponent(n) =>
                      Ends(w, K, Put(s, Place(K, "value"),
                                     IF Whole(n) THEN <<"int", Rounded(n)>> ELSE <<"real", n>>))
    BY <1>0, <2>1, RealReads
  <2> HIDE DEF n
  <2>5. ~Exponent(n) => Ends(w, K, Put(s, Place(K, "value"), Reread(dp).value))
    BY <2>3, <2>4, Zenon
  <2> QED
    BY <1>4, <2>2, <2>4, <2>5 DEF n
<1> QED
  BY <1>1, <1>2, <1>3, <1>4 DEF DpTypes

-----------------------------------------------------------------------------
(* The store *)

\* Two stores have the same at an address.
Same(s, t, x) == /\ x \in DOMAIN s <=> x \in DOMAIN t
                 /\ x \in DOMAIN s => t[x] = s[x]

\* Writing at one address leaves all others alone.
LEMMA PutFacts ==
  ASSUME NEW s, NEW at, NEW v
  PROVE  /\ at \in DOMAIN Put(s, at, v) /\ Put(s, at, v)[at] = v
         /\ \A x : x # at => Same(s, Put(s, at, v), x)
<1> DEFINE t == Put(s, at, v)
<1>1. /\ DOMAIN t = {at} \cup DOMAIN s
      /\ \A x \in DOMAIN t : t[x] = IF x = at THEN v ELSE s[x]
  BY DEF Put
<1> HIDE DEF t
<1> QED
  BY <1>1 DEF Same, t

\* What two steps leave alone, both together leave alone.
LEMMA SameOn ==
  ASSUME NEW s, NEW t, NEW u, NEW x, Same(s, t, x), Same(t, u, x)
  PROVE  Same(s, u, x)
BY DEF Same

\* An array of ids, and what it leaves, item by item.
AtIds(at, x) == x = at \/ \E i \in Nat : x = Append(at, i)
IdsStored(s, t, at, ids, j) ==
  /\ Count(t, at) = j
  /\ \A i \in 1..j : Append(at, i) \in DOMAIN t /\ t[Append(at, i)] = <<"int", ids[i]>>
  /\ \A x : ~AtIds(at, x) => Same(s, t, x)

\* One more id of an array, and its count, are written.
LEMMA IdStored ==
  ASSUME NEW at, IsSeq(at), NEW s, NEW t, NEW ids, NEW j \in Nat, IdsStored(s, t, at, ids, j)
  PROVE  IdsStored(s, Put(Put(t, Append(at, j + 1), <<"int", ids[j + 1]>>), at, j + 1),
                   at, ids, j + 1)
<1> DEFINE u == Put(t, Append(at, j + 1), <<"int", ids[j + 1]>>)
           w == Put(u, at, j + 1)
<1>1. \A i : Append(at, i) # at
  <2> TAKE i
  <2>1. Extends(Append(at, i), at, i)
    BY AppendIs
  <2>2. Len(Append(at, i)) = Len(at) + 1 /\ Len(at) \in Nat
    BY <2>1 DEF Extends
  <2> QED
    BY <2>2
<1>2. \A i, k : Append(at, i) = Append(at, k) => i = k
  <2> TAKE i, k
  <2>1. Extends(Append(at, i), at, i) /\ Extends(Append(at, k), at, k)
    BY AppendIs
  <2>2. Last(Append(at, i)) = i /\ Last(Append(at, k)) = k
    BY <2>1, Zenon DEF Extends
  <2> QED
    BY <2>2
<1>3. /\ Append(at, j + 1) \in DOMAIN u /\ u[Append(at, j + 1)] = <<"int", ids[j + 1]>>
      /\ \A x : x # Append(at, j + 1) => Same(t, u, x)
  BY PutFacts
<1>4. at \in DOMAIN w /\ w[at] = j + 1 /\ \A x : x # at => Same(u, w, x)
  BY PutFacts
<1> HIDE DEF u, w
<1>5. Count(w, at) = j + 1
  BY <1>4 DEF Count
<1>6. ASSUME NEW i \in 1..j + 1
      PROVE  Append(at, i) \in DOMAIN w /\ w[Append(at, i)] = <<"int", ids[i]>>
  <2>1. Same(u, w, Append(at, i))
    BY <1>1, <1>4
  <2>2. CASE i = j + 1
    BY <1>3, <2>1, <2>2 DEF Same
  <2>3. CASE i # j + 1
    <3>1. i \in 1..j /\ Append(at, i) # Append(at, j + 1)
      BY <1>2, <2>3
    <3>2. Same(t, u, Append(at, i))
      BY <1>3, <3>1
    <3>3. Append(at, i) \in DOMAIN t /\ t[Append(at, i)] = <<"int", ids[i]>>
      BY <3>1 DEF IdsStored
    <3> QED
      BY <2>1, <3>2, <3>3 DEF Same
  <2> QED
    BY <2>2, <2>3
<1>7. ASSUME NEW x, ~AtIds(at, x) PROVE Same(s, w, x)
  <2>1. x # at /\ x # Append(at, j + 1)
    BY <1>7 DEF AtIds
  <2>2. Same(s, t, x) /\ Same(t, u, x) /\ Same(u, w, x)
    BY <1>3, <1>4, <1>7, <2>1 DEF IdsStored
  <2> QED
    BY <2>2, SameOn
<1>8. IdsStored(s, w, at, ids, j + 1)
  BY <1>5, <1>6, <1>7 DEF IdsStored
<1> QED
  BY <1>8 DEF u, w

-----------------------------------------------------------------------------
(* Arrays of ids *)

\* What is open at an item of an array in an object, and the level of the array.
Listed(F, key, node, i) == Inside(F, "ARRAY", Row(key, i), Lev(node, Place(F, key)))

\* The reader behind some of the ids: the last one is not stored yet.
AmongIds(a, F, key, node, s, ids, j) ==
  \E t : IF j = Len(ids) /\ j # 0
         THEN /\ \E e \in {"ZE", "INT"} :
                   Going(a, Listed(F, key, node, j - 1), e, ids[j], NoKey, t)
              /\ IdsStored(s, t, Place(F, key), ids, j - 1)
         ELSE /\ Within(a, Listed(F, key, node, j), IF j = 0 THEN "AR" ELSE "VA", NoKey, t)
              /\ IdsStored(s, t, Place(F, key), ids, j)

\* The array in the specification.
IdList(F, key, node) ==
  /\ ObjectOpen(F) /\ Len(F.stack) + 1 < Depth /\ IsSeq(Place(F, key))
  /\ node.vtype = "ARRAY" /\ node.maxitems \in Nat
  /\ node.kids[1].vtype = "INTEGER" /\ node.kids[1].key # "phase"

\* An array of ids, open around its items, is a context.
LEMMA ListedFacts ==
  ASSUME NEW F, Context(F), NEW key, NEW node, NEW i
  PROVE  LET I == Listed(F, key, node, i)
         IN  /\ Context(I) /\ I.stack = Append(F.stack, "ARRAY")
             /\ Last(I.stack) = "ARRAY" /\ Front(I.stack) = F.stack
             /\ Len(F.stack) \in Nat /\ Len(I.stack) = Len(F.stack) + 1
<1> DEFINE I == Listed(F, key, node, i)
<1>1. Row(key, i).type # "LEAF"
  BY DEF Row
<1>2. Context(I) /\ Extends(I.stack, F.stack, "ARRAY")
  BY <1>1, InsideFacts, Zenon DEF Listed
<1>3. I.stack = Append(F.stack, "ARRAY")
  BY DEF Listed, Inside
<1> HIDE DEF I
<1>4. /\ Last(I.stack) = "ARRAY" /\ Front(I.stack) = F.stack
      /\ Len(F.stack) \in Nat /\ Len(I.stack) = Len(F.stack) + 1
  BY <1>2 DEF Extends
<1> QED
  BY <1>2, <1>3, <1>4 DEF I

\* The reader behind an id, which is stored and counted.
Behind(b, K, to, st, u) ==
  /\ ~b.off /\ b.now.store = u /\ Loose(b.now, K) /\ b.now.trail.key = NoKey
  /\ b.now.parser.state = to /\ b.now.parser.stack = st

\* The letter behind an id.
LEMMA IdGoes ==
  ASSUME NEW F, NEW key, NEW node, NEW i \in Nat, NEW n, NEW a, NEW t, NEW e, NEW l, NEW to,
         NEW st, IdList(F, key, node), e \in {"ZE", "INT"},
         Going(a, Listed(F, key, node, i), e, n, NoKey, t),
         ~NoRoom(Count(t, Place(F, key)), node.maxitems), to \in {"VA", "OK"},
         Taken(a.now.parser, l.c, to, st), Len(st) <= Depth
  PROVE  \E b : /\ Reads(<<l>>, a, b)
                /\ Behind(b, Listed(F, key, node, i + 1), to, st,
                          Put(Put(t, Append(Place(F, key), i + 1), <<"int", n>>),
                              Place(F, key), i + 1))
<1> DEFINE p == a.now.parser
           q == [state |-> to, stack |-> st, token |-> Token(p.state, to), lex |-> p.lex]
           kid == node.kids[1]
           level == Lev(node, Place(F, key))
<1>1. /\ ~a.off /\ a.now.store = t /\ a.now.trail.key = NoKey
      /\ Exact(a.now, Listed(F, key, node, i)) /\ p.lex = n
      /\ p.state = e /\ p.stack = Listed(F, key, node, i).stack
  BY DEF Going, Within
<1>2. Only(Parsed(p, l), q)
  <2> HIDE DEF p
  <2> QED
    BY RuleParsed DEF p
<1>3. /\ q.state = to /\ q.stack = st /\ q.token = "VI" /\ q.lex = n
  BY <1>1 DEF Token, ValueToken
<1> HIDE DEF q
<1>4. Context(F) /\ Last(p.stack) = "ARRAY" /\ Len(F.stack) + 1 < Depth
  <2>1. Context(F) /\ Len(F.stack) + 1 < Depth
    BY DEF IdList, ObjectOpen
  <2> QED
    BY <1>1, <2>1, ListedFacts
<1>5. Only(Part(level.node, Numbered("LEAF", i), q.token), kid) /\ kid.vtype \in Fitting[q.token]
  <2>1. level.node = node /\ node.vtype = "ARRAY" /\ kid.vtype = "INTEGER"
    BY DEF IdList, Lev
  <2>2. Part(level.node, Numbered("LEAF", i), q.token) = {kid}
    BY <2>1, Zenon DEF Part
  <2> QED
    BY <1>3, <2>1, <2>2 DEF Only, Fitting
<1>6. level.node.vtype = "ARRAY" /\ level.at = Place(F, key) /\ level.node = node
  BY DEF Lev, IdList
<1>7. Content(kid, "VI", n) = <<"int", n>>
  BY DEF Content, IdList
<1>8. Exact(a.now, Inside(F, "ARRAY", Row(key, i), level))
  BY <1>1 DEF Listed
<1> HIDE DEF level, kid
<1>9. \E d : /\ Only(Outcome(a.now, l), d)
             /\ d.parser = q /\ d.trail.key = NoKey
             /\ Loose(d, Inside(F, "ARRAY", Row(key, i + 1), level))
             /\ d.store = Put(Put(a.now.store, Append(level.at, i + 1),
                                  Content(kid, q.token, q.lex)), level.at, i + 1)
  <2>1. q.token \notin {"NO", "KS"} /\ ~NoRoom(Count(a.now.store, level.at), level.node.maxitems)
    BY <1>1, <1>3, <1>6
  <2> HIDE DEF p
  <2> QED
    <3>1. /\ Context(F) /\ Len(F.stack) + 1 < Depth /\ level.node.vtype = "ARRAY"
          /\ Exact(a.now, Inside(F, "ARRAY", Row(key, i), level))
          /\ Last(a.now.parser.stack) = "ARRAY" /\ a.now.trail.key = NoKey
          /\ Only(Parsed(a.now.parser, l), q) /\ q.token \notin {"NO", "KS"}
          /\ Only(Part(level.node, Numbered("LEAF", i), q.token), kid)
          /\ kid.vtype \in Fitting[q.token]
          /\ ~NoRoom(Count(a.now.store, level.at), level.node.maxitems)
      BY <1>1, <1>2, <1>4, <1>5, <1>6, <1>8, <2>1 DEF p
    <3> QED
      BY <3>1, IdEnds, SMTT(60)
<1>10. PICK d : /\ Only(Outcome(a.now, l), d)
                /\ d.parser = q /\ d.trail.key = NoKey
                /\ Loose(d, Listed(F, key, node, i + 1))
                /\ d.store = Put(Put(t, Append(Place(F, key), i + 1), <<"int", n>>),
                                 Place(F, key), i + 1)
  <2>1. Listed(F, key, node, i + 1) = Inside(F, "ARRAY", Row(key, i + 1), level)
    BY DEF Listed, level
  <2> QED
    BY <1>1, <1>3, <1>6, <1>7, <1>9, <2>1, Zenon
<1>11. PICK b : Reads(<<l>>, a, b) /\ ~b.off /\ b.now = d
  <2>1. ~a.off /\ Only(Outcome(a.now, l), d)
    BY <1>1, <1>10
  <2> QED
    BY <2>1, Lets
<1> QED
  BY <1>3, <1>10, <1>11 DEF Behind

\* One more of the ids.
LEMMA IdReads ==
  ASSUME NEW F, NEW key, NEW node, IdList(F, key, node), NEW s, NEW ids \in Seq(Int),
         Len(ids) <= node.maxitems, NEW j \in 1..Len(ids), NEW a,
         AmongIds(a, F, key, node, s, ids, j - 1)
  PROVE  \E b : /\ Reads(Number(ids[j]) \o CommaIf(j < Len(ids)), a, b)
                /\ AmongIds(b, F, key, node, s, ids, j)
<1> DEFINE i == j - 1
           I == Listed(F, key, node, i)
           at == Place(F, key)
           n == ids[j]
<1>1. /\ Len(ids) \in Nat /\ j \in Nat /\ i \in Nat /\ i + 1 = j /\ i < Len(ids) /\ j # 0
      /\ node.maxitems \in Nat /\ Context(F) /\ IsSeq(at) /\ Len(F.stack) + 1 < Depth
  BY DEF IdList, ObjectOpen
<1>2. PICK t : /\ Within(a, I, IF i = 0 THEN "AR" ELSE "VA", NoKey, t)
               /\ IdsStored(s, t, at, ids, i)
  BY <1>1 DEF AmongIds
<1> DEFINE st == IF i = 0 THEN "AR" ELSE "VA"
<1>3. st \in {"VA", "AR"} /\ Within(a, I, st, NoKey, t)
  BY <1>2
<1> HIDE DEF st, I, i
<1>4. Context(I) /\ I.stack = Append(F.stack, "ARRAY") /\ Last(I.stack) = "ARRAY"
      /\ Len(I.stack) = Len(F.stack) + 1 /\ Len(F.stack) \in Nat
  BY <1>1, ListedFacts, SMTT(60) DEF I
<1>5. PICK b : \E e \in {"ZE", "INT"} : Reads(Number(n), a, b) /\ Going(b, I, e, n, NoKey, t)
  BY <1>3, <1>4, NumberReads
<1>6. PICK e \in {"ZE", "INT"} : Reads(Number(n), a, b) /\ Going(b, I, e, n, NoKey, t)
  BY <1>5
<1>7. CASE j = Len(ids)
  <2>1. CommaIf(j < Len(ids)) = <<>>
    BY <1>1, <1>7 DEF CommaIf
  <2>2. Reads(<<>>, b, b)
    BY NoStep DEF Reads
  <2>3. Reads(Number(n) \o CommaIf(j < Len(ids)), a, b)
    BY <1>6, <2>1, <2>2, Then
  <2>4. AmongIds(b, F, key, node, s, ids, j)
    BY <1>1, <1>2, <1>6, <1>7 DEF AmongIds, I, i
  <2> QED
    BY <2>3, <2>4
<1>8. CASE j # Len(ids)
  <2>1. CommaIf(j < Len(ids)) = <<Mark(",")>>
    <3>1. j < Len(ids)
      BY <1>1, <1>8
    <3> QED
      BY <3>1, Zenon DEF CommaIf
  <2>2. Taken(b.now.parser, Mark(",").c, "VA", I.stack) /\ Len(I.stack) <= Depth
    <3>1. b.now.parser.state \in Ending /\ b.now.parser.stack = I.stack
      BY <1>6 DEF Going, Within, Ending
    <3>2. Mark(",").c = "," /\ Last(b.now.parser.stack) = "ARRAY"
      BY <1>4, <3>1, Marks
    <3>3. Len(I.stack) <= Depth
      BY <1>1, <1>4, DepthAssumption
    <3> QED
      BY <3>1, <3>2, <3>3 DEF Taken
  <2>3. ~NoRoom(Count(t, at), node.maxitems)
    BY <1>1, <1>2 DEF IdsStored, NoRoom
  <2> DEFINE u == Put(Put(t, Append(at, i + 1), <<"int", n>>), at, i + 1)
  <2>4. PICK c : /\ Reads(<<Mark(",")>>, b, c)
                 /\ Behind(c, Listed(F, key, node, i + 1), "VA", I.stack, u)
    <3>1. "VA" \in {"VA", "OK"}
      OBVIOUS
    <3>2. Going(b, Listed(F, key, node, i), e, n, NoKey, t) /\ i \in Nat
      BY <1>1, <1>6 DEF I
    <3> HIDE DEF n, at
    <3>3. \E c : /\ Reads(<<Mark(",")>>, b, c)
                 /\ Behind(c, Listed(F, key, node, i + 1), "VA", I.stack,
                           Put(Put(t, Append(Place(F, key), i + 1), <<"int", n>>),
                               Place(F, key), i + 1))
      <4>1. /\ IdList(F, key, node) /\ i \in Nat /\ e \in {"ZE", "INT"}
            /\ Going(b, Listed(F, key, node, i), e, n, NoKey, t)
            /\ ~NoRoom(Count(t, Place(F, key)), node.maxitems)
            /\ "VA" \in {"VA", "OK"}
            /\ Taken(b.now.parser, Mark(",").c, "VA", I.stack) /\ Len(I.stack) <= Depth
        BY <2>2, <2>3, <3>1, <3>2 DEF at
      <4> DEFINE l == Mark(",")
      <4>2. Taken(b.now.parser, l.c, "VA", I.stack)
        BY <4>1
      <4> HIDE DEF l
      <4>3. \E c : /\ Reads(<<l>>, b, c)
                   /\ Behind(c, Listed(F, key, node, i + 1), "VA", I.stack,
                             Put(Put(t, Append(Place(F, key), i + 1), <<"int", n>>),
                                 Place(F, key), i + 1))
        BY <4>1, <4>2, IdGoes
      <4> QED
        BY <4>3 DEF l
    <3> QED
      BY <3>3 DEF at
  <2>5. IdsStored(s, u, at, ids, j)
    <3>1. IdsStored(s, Put(Put(t, Append(at, i + 1), <<"int", ids[i + 1]>>), at, i + 1),
                    at, ids, i + 1)
      BY <1>1, <1>2, IdStored
    <3> QED
      BY <1>1, <3>1
  <2>6. Listed(F, key, node, j).stack = I.stack
    BY <1>1, <1>4, ListedFacts, SMTT(60)
  <2> HIDE DEF u
  <2>7. Within(c, Listed(F, key, node, j), "VA", NoKey, u)
    BY <1>1, <2>4, <2>6 DEF Within, Behind
  <2>8. AmongIds(c, F, key, node, s, ids, j)
    BY <1>1, <1>8, <2>5, <2>7 DEF AmongIds
  <2>9. Reads(Number(n) \o CommaIf(j < Len(ids)), a, c)
    BY <1>6, <2>1, <2>4, Then
  <2> QED
    BY <2>8, <2>9
<1> QED
  BY <1>7, <1>8

\* Before an item of an array.
AtItem(a, L, st, s) ==
  /\ ~a.off /\ a.now.store = s /\ Exact(a.now, L) /\ a.now.trail.key = NoKey
  /\ a.now.parser.state = st /\ a.now.parser.stack = L.stack

\* An array that is a member.
ListIn(F, key, node) ==
  /\ ObjectOpen(F) /\ Len(F.stack) + 1 < Depth /\ key # NoKey
  /\ Only(Part(F.levels[Len(F.stack)].node, Named("ARRAY", key), "NO"), node)

\* The bracket in front of an array.
LEMMA ListOpens ==
  ASSUME NEW F, NEW key, NEW node, ListIn(F, key, node), NEW s, NEW v, AtValue(v, F, key, s)
  PROVE  \E a : Reads(<<Mark("[")>>, v, a) /\ AtItem(a, Listed(F, key, node, 0), "AR", s)
<1> DEFINE p == v.now.parser
           l == Mark("[")
           st == Append(F.stack, "ARRAY")
           q == [state |-> "AR", stack |-> st, token |-> Token(p.state, "AR"), lex |-> p.lex]
           top == F.levels[Len(F.stack)]
<1>1. /\ ~v.off /\ v.now.store = s /\ Exact(v.now, F) /\ v.now.trail.key = key
      /\ p.state = "VA" /\ p.stack = F.stack
  BY DEF AtValue
<1>2. /\ Context(F) /\ Len(F.stack) + 1 < Depth /\ Last(F.stack) = "OBJECT" /\ key # NoKey
      /\ top.node.vtype = "OBJECT" /\ Only(Part(top.node, Named("ARRAY", key), "NO"), node)
  BY DEF ListIn, ObjectOpen
<1>3. Len(st) = Len(F.stack) + 1 /\ Len(F.stack) \in Nat
  <2>1. Extends(st, F.stack, "ARRAY") /\ Len(F.stack) \in Nat
    BY <1>2, StackInside
  <2> HIDE DEF st
  <2> QED
    BY <2>1 DEF Extends
<1>4. Only(Parsed(p, l), q)
  <2>1. l.c = "["
    BY Marks
  <2>2. Taken(p, l.c, "AR", st)
    BY <1>1, <2>1 DEF Taken
  <2>3. Len(st) <= Depth
    BY <1>2, <1>3, DepthAssumption
  <2> HIDE DEF st, l, p
  <2> QED
    BY <2>2, <2>3, RuleParsed
<1>5. q.state = "AR" /\ q.stack = st /\ q.token = "NO"
  BY <1>1 DEF Token, ValueToken
<1> HIDE DEF q, l, st
<1>6. top.node.vtype \notin Scalars /\ top.node.vtype # "none" /\ Len(F.stack) < Depth
  BY <1>2, <1>3, DepthAssumption DEF Scalars
<1>7. \E d : /\ Only(Outcome(v.now, l), d)
             /\ OpenedBy(d, q, v.now.store, Inside(F, "ARRAY", Named("ARRAY", key),
                                                   Level(top, Named("ARRAY", key), node)))
  <2>1. Last(v.now.parser.stack) = "OBJECT"
    BY <1>1, <1>2
  <2>2. Len(q.stack) = Len(F.stack) + 1 /\ Len(q.stack) > Len(v.now.parser.stack)
    BY <1>1, <1>3, <1>5
  <2>3. "ARRAY" = (IF q.state = "OB" THEN "OBJECT" ELSE "ARRAY")
    BY <1>5
  <2>4. Last(v.now.parser.stack) = "OBJECT" <=> v.now.trail.key # NoKey
    BY <1>1, <1>2, <2>1
  <2>5. /\ Context(F) /\ Len(F.stack) < Depth /\ Exact(v.now, F)
        /\ Last(v.now.parser.stack) \in {"DONE", "OBJECT"}
        /\ Last(v.now.parser.stack) = "OBJECT" <=> v.now.trail.key # NoKey
        /\ top = F.levels[Len(F.stack)] /\ top.node.vtype \notin Scalars
        /\ Only(Parsed(v.now.parser, l), q) /\ q.token = "NO"
        /\ Len(q.stack) = Len(F.stack) + 1 /\ Len(q.stack) > Len(v.now.parser.stack)
        /\ "ARRAY" = (IF q.state = "OB" THEN "OBJECT" ELSE "ARRAY")
        /\ key = v.now.trail.key
        /\ Only(Part(top.node, Named("ARRAY", key), "NO"), node)
    BY <1>1, <1>2, <1>4, <1>5, <1>6, <2>1, <2>2, <2>3, <2>4
  <2> HIDE DEF top, p
  <2> QED
    BY <2>5, OpensNamed
<1>8. Inside(F, "ARRAY", Named("ARRAY", key), Level(top, Named("ARRAY", key), node))
      = Listed(F, key, node, 0)
  <2>1. Named("ARRAY", key) = Row(key, 0)
    BY DEF Named, Row
  <2>2. Level(top, Named("ARRAY", key), node) = Lev(node, Append(top.at, key))
    BY <1>6, Levels
  <2>3. Lev(node, Append(top.at, key)) = Lev(node, Place(F, key))
    BY Zenon DEF Place
  <2> QED
    BY <2>1, <2>2, <2>3, Zenon DEF Listed
<1>9. PICK d : /\ Only(Outcome(v.now, l), d)
               /\ d.parser = q /\ d.trail.key = NoKey /\ d.store = s
               /\ Exact(d, Listed(F, key, node, 0))
  <2> HIDE DEF top
  <2> QED
    BY <1>1, <1>7, <1>8, Zenon DEF OpenedBy
<1>10. PICK a : Reads(<<l>>, v, a) /\ ~a.off /\ a.now = d
  <2>1. ~v.off /\ Only(Outcome(v.now, l), d)
    BY <1>1, <1>9
  <2> QED
    BY <2>1, Lets
<1>11. Listed(F, key, node, 0).stack = st
  BY <1>2, ListedFacts DEF st
<1>12. AtItem(a, Listed(F, key, node, 0), "AR", s)
  BY <1>5, <1>9, <1>10, <1>11 DEF AtItem
<1> QED
  BY <1>10, <1>12 DEF l

\* The bracket in front of the ids.
LEMMA IdsOpen ==
  ASSUME NEW F, NEW key, NEW node, IdList(F, key, node), ListIn(F, key, node), NEW s, NEW ids,
         Count(s, Place(F, key)) = 0, Len(ids) \in Nat, NEW v, AtValue(v, F, key, s)
  PROVE  \E a : Reads(<<Mark("[")>>, v, a) /\ AmongIds(a, F, key, node, s, ids, 0)
<1>1. PICK a : Reads(<<Mark("[")>>, v, a) /\ AtItem(a, Listed(F, key, node, 0), "AR", s)
  BY ListOpens
<1>2. Context(Listed(F, key, node, 0))
  BY ListedFacts DEF IdList, ObjectOpen
<1>3. Loose(a.now, Listed(F, key, node, 0))
  BY <1>1, <1>2, ExactIsLoose DEF AtItem
<1>4. Within(a, Listed(F, key, node, 0), "AR", NoKey, s)
  BY <1>1, <1>3 DEF Within, AtItem
<1>5. IdsStored(s, s, Place(F, key), ids, 0)
  BY DEF IdsStored, Same
<1>6. AmongIds(a, F, key, node, s, ids, 0)
  BY <1>4, <1>5 DEF AmongIds
<1> QED
  BY <1>1, <1>6

\* The bracket behind the ids.
LEMMA IdsClose ==
  ASSUME NEW F, NEW key, NEW node, IdList(F, key, node), NEW s, NEW ids \in Seq(Int),
         Len(ids) <= node.maxitems, NEW a, AmongIds(a, F, key, node, s, ids, Len(ids))
  PROVE  \E b, t : /\ Reads(<<Mark("]")>>, a, b) /\ Settled(b, F, t)
                   /\ IdsStored(s, t, Place(F, key), ids, Len(ids))
<1> DEFINE l == Mark("]")
           p == a.now.parser
           n == Len(ids)
           at == Place(F, key)
<1>1. /\ Context(F) /\ Len(F.stack) + 1 < Depth /\ IsSeq(at) /\ node.maxitems \in Nat /\ n \in Nat
  BY DEF IdList, ObjectOpen
<1>2. l.c = "]"
  BY Marks
<1>3. \A i : /\ Listed(F, key, node, i) = Inside(F, "ARRAY", Row(key, i), Lev(node, Place(F, key)))
             /\ Row(key, i).type # "LEAF"
  BY Zenon DEF Listed, Row
<1>4. Len(F.stack) \in Nat /\ Len(F.stack) <= Depth
  BY <1>1, StackInside, DepthAssumption
<1> HIDE DEF l
<1>5. CASE n = 0
  <2> DEFINE I == Listed(F, key, node, 0)
             q == [state |-> "OK", stack |-> F.stack, token |-> Token(p.state, "OK"), lex |-> p.lex]
  <2>1. PICK t : Within(a, I, "AR", NoKey, t) /\ IdsStored(s, t, at, ids, 0)
    BY <1>5 DEF AmongIds
  <2>2. /\ ~a.off /\ a.now.store = t /\ Loose(a.now, I) /\ a.now.trail.key = NoKey
        /\ p.state = "AR" /\ p.stack = I.stack
    BY <2>1 DEF Within
  <2>3. Last(I.stack) = "ARRAY" /\ Front(I.stack) = F.stack /\ Len(I.stack) = Len(F.stack) + 1
    BY <1>1, ListedFacts
  <2>4. Loose(a.now, F)
    BY <1>1, <1>3, <2>2, LooseBelow
  <2>5. Taken(p, l.c, "OK", F.stack)
    BY <1>2, <2>2, <2>3 DEF Taken
  <2>6. Only(Parsed(p, l), q)
    <3> HIDE DEF p
    <3> QED
      BY <1>4, <2>5, RuleParsed
  <2>7. q.state = "OK" /\ q.stack = F.stack /\ q.token = "NO"
    BY <2>2 DEF Token, ValueToken
  <2> HIDE DEF q
  <2>8. Len(q.stack) = Len(F.stack) /\ Len(q.stack) <= Len(a.now.parser.stack)
    BY <1>4, <2>2, <2>3, <2>7
  <2>9. PICK b : /\ Reads(<<l>>, a, b) /\ ~b.off /\ b.now.parser = q
                 /\ b.now.store = a.now.store /\ Exact(b.now, F)
                 /\ b.now.trail.key = a.now.trail.key
    BY <1>1, <2>2, <2>4, <2>6, <2>7, <2>8, QuietOn, SMTT(60)
  <2>10. Loose(b.now, F)
    BY <1>1, <2>9, ExactIsLoose
  <2>11. Settled(b, F, t)
    BY <2>2, <2>7, <2>9, <2>10 DEF Settled
  <2> QED
    BY <1>5, <2>1, <2>9, <2>11 DEF l
<1>6. CASE n # 0
  <2> DEFINE i == n - 1
             I == Listed(F, key, node, i)
             x == ids[n]
  <2>1. i \in Nat /\ i + 1 = n
    BY <1>1, <1>6
  <2>2. PICK t : /\ \E e \in {"ZE", "INT"} : Going(a, I, e, x, NoKey, t)
                 /\ IdsStored(s, t, at, ids, i)
    BY <1>6 DEF AmongIds
  <2>3. PICK e \in {"ZE", "INT"} : Going(a, I, e, x, NoKey, t)
    BY <2>2
  <2>4. Taken(p, l.c, "OK", F.stack)
    <3>1. p.state \in Ending /\ p.stack = I.stack
      BY <2>3 DEF Going, Within, Ending
    <3>2. Last(I.stack) = "ARRAY" /\ Front(I.stack) = F.stack
      BY <1>1, ListedFacts
    <3> QED
      BY <1>2, <3>1, <3>2 DEF Taken
  <2>5. ~NoRoom(Count(t, at), node.maxitems)
    BY <1>1, <2>1, <2>2 DEF IdsStored, NoRoom
  <2> HIDE DEF x, i
  <2> DEFINE u == Put(Put(t, Append(at, i + 1), <<"int", x>>), at, i + 1)
  <2>6. PICK b : Reads(<<l>>, a, b) /\ Behind(b, Listed(F, key, node, i + 1), "OK", F.stack, u)
    <3>1. /\ IdList(F, key, node) /\ i \in Nat /\ e \in {"ZE", "INT"}
          /\ Going(a, Listed(F, key, node, i), e, x, NoKey, t)
          /\ ~NoRoom(Count(t, Place(F, key)), node.maxitems)
          /\ "OK" \in {"VA", "OK"}
          /\ Taken(a.now.parser, l.c, "OK", F.stack) /\ Len(F.stack) <= Depth
      BY <1>4, <2>1, <2>3, <2>4, <2>5
    <3> QED
      BY <3>1, IdGoes
  <2>7. IdsStored(s, u, at, ids, n)
    <3>1. IdsStored(s, Put(Put(t, Append(at, i + 1), <<"int", ids[i + 1]>>), at, i + 1),
                    at, ids, i + 1)
      BY <1>1, <2>1, <2>2, IdStored DEF i
    <3> QED
      BY <2>1, <3>1 DEF x
  <2> HIDE DEF u
  <2>8. Loose(b.now, F)
    <3>1. Loose(b.now, Listed(F, key, node, i + 1))
      BY <2>6 DEF Behind
    <3> QED
      BY <1>1, <1>3, <3>1, LooseBelow
  <2>9. Settled(b, F, u)
    BY <2>6, <2>8 DEF Settled, Behind
  <2> QED
    BY <2>6, <2>7, <2>9 DEF l
<1> QED
  BY <1>5, <1>6

\* An array of ids, from the first bracket to the last.
LEMMA IdsReads ==
  ASSUME NEW F, NEW key, NEW node, IdList(F, key, node), NEW s, NEW ids \in Seq(Int),
         Len(ids) <= node.maxitems, Count(s, Place(F, key)) = 0, ListIn(F, key, node),
         NEW v, AtValue(v, F, key, s)
  PROVE  \E w, t : /\ Reads(IdsText(ids), v, w) /\ Settled(w, F, t)
                   /\ IdsStored(s, t, Place(F, key), ids, Len(ids))
<1> DEFINE part(i) == Number(ids[i]) \o CommaIf(i < Len(ids))
           n == Len(ids)
           parts == [i \in 1..n |-> part(i)]
           S == {parts[i] : i \in 1..n}
<1>1. n \in Nat /\ DOMAIN ids = 1..n
  OBVIOUS
<1>2. IdsText(ids) = Brackets(FlattenSeq(parts))
  BY <1>1 DEF IdsText
<1>3. PICK a : Reads(<<Mark("[")>>, v, a) /\ AmongIds(a, F, key, node, s, ids, 0)
  BY <1>1, IdsOpen
<1>4. parts \in Seq(S) /\ Len(parts) = n /\ \A i \in 1..n : parts[i] = part(i)
  <2>1. parts = [i \in 1..n |-> parts[i]] /\ \A i \in 1..n : parts[i] = part(i)
    OBVIOUS
  <2>2. n \in Nat
    BY <1>1
  <2> HIDE DEF parts, part, n
  <2>3. parts \in Seq({parts[i] : i \in 1..n}) /\ Len(parts) = n
    BY ONLY <2>1, <2>2, PiecesAreSeq
  <2> QED
    BY <2>1, <2>3, Zenon DEF S
<1> HIDE DEF parts, S
<1>5. \E b : Reads(FlattenSeq(parts), a, b) /\ AmongIds(b, F, key, node, s, ids, n)
  <2>1. CASE n = 0
    <3>1. FlattenSeq(parts) = <<>>
      BY <1>4, <2>1 DEF FlattenSeq
    <3>2. Reads(<<>>, a, a)
      BY NoStep DEF Reads
    <3> QED
      BY <1>3, <2>1, <3>1, <3>2
  <2>2. CASE n # 0
    <3>1. PICK flat : Glued(parts, flat) /\ FlattenSeq(parts) = flat[n]
      BY <1>4, <2>2, FlatIsGlued
    <3>2. \A k \in 1..n : flat[k] = IF k = 1 THEN parts[k] ELSE flat[k - 1] \o parts[k]
      BY <1>4, <3>1 DEF Glued
    <3> DEFINE Comes(k) == \E b : Reads(flat[k], a, b) /\ AmongIds(b, F, key, node, s, ids, k)
               bad == {k \in 1..n : ~Comes(k)}
    <3>3. bad = {}
      <4> SUFFICES ASSUME bad # {} PROVE FALSE
        OBVIOUS
      <4>0. bad \in SUBSET Nat
        OBVIOUS
      <4>1. PICK x \in bad : \A y \in bad : x <= y
        BY <4>0, Least
      <4>2. x \in 1..n /\ ~Comes(x)
        OBVIOUS
      <4>3. CASE x = 1
        <5>1. AmongIds(a, F, key, node, s, ids, x - 1)
          BY <1>3, <4>3
        <5>2. \E b : Reads(part(x), a, b) /\ AmongIds(b, F, key, node, s, ids, x)
          BY <4>2, <5>1, IdReads
        <5>3. flat[x] = part(x)
          BY <1>4, <3>2, <4>2, <4>3
        <5> HIDE DEF part
        <5> QED
          BY <4>2, <5>2, <5>3
      <4>4. CASE x # 1
        <5>1. x - 1 \in 1..n /\ x - 1 \notin bad
          BY <1>1, <4>1, <4>2, <4>4
        <5>2. PICK b : Reads(flat[x - 1], a, b) /\ AmongIds(b, F, key, node, s, ids, x - 1)
          BY <5>1
        <5>3. PICK c : Reads(part(x), b, c) /\ AmongIds(c, F, key, node, s, ids, x)
          BY <4>2, <5>2, IdReads
        <5>4. flat[x] = flat[x - 1] \o part(x)
          BY <1>4, <3>2, <4>2, <4>4
        <5> HIDE DEF part
        <5>5. Reads(flat[x], a, c)
          BY <5>2, <5>3, <5>4, Then
        <5> QED
          BY <4>2, <5>3, <5>5
      <4> QED
        BY <4>3, <4>4
    <3>4. n \in 1..n
      BY <1>1, <2>2
    <3>5. Comes(n)
      BY <3>3, <3>4
    <3> QED
      BY <3>1, <3>5
  <2> QED
    BY <2>1, <2>2
<1>6. PICK b : Reads(FlattenSeq(parts), a, b) /\ AmongIds(b, F, key, node, s, ids, n)
  BY <1>5
<1>7. PICK w, t : /\ Reads(<<Mark("]")>>, b, w) /\ Settled(w, F, t)
                  /\ IdsStored(s, t, Place(F, key), ids, n)
  BY <1>6, IdsClose
<1>8. IdsText(ids) = <<Mark("[")>> \o FlattenSeq(parts) \o <<Mark("]")>>
  BY <1>2 DEF Brackets
<1>9. Reads(IdsText(ids), v, w)
  BY <1>3, <1>6, <1>7, <1>8, Then
<1> QED
  BY <1>7, <1>9

-----------------------------------------------------------------------------
(* Objects *)

\* Before an object that is a member, or the grid itself.
AtObject(a, K, key, s) ==
  /\ ~a.off /\ a.now.store = s /\ Exact(a.now, K) /\ a.now.trail.key = key
  /\ a.now.parser.state \in {"GO", "VA"} /\ a.now.parser.stack = K.stack

\* An object that the specification has there.
ObjectIn(K, key, node) ==
  /\ Context(K) /\ Len(K.stack) + 1 < Depth
  /\ Last(K.stack) \in {"DONE", "OBJECT"} /\ (Last(K.stack) = "OBJECT" <=> key # NoKey)
  /\ K.levels[Len(K.stack)].node.vtype \notin Scalars
  /\ Only(Part(K.levels[Len(K.stack)].node, Named("OBJECT", key), "NO"), node)

\* The brace in front of such an object.
LEMMA ObjectOpens ==
  ASSUME NEW K, NEW key, NEW node, ObjectIn(K, key, node), NEW s, NEW a, AtObject(a, K, key, s)
  PROVE  LET item == Named("OBJECT", key)
         IN  \E b : /\ Reads(<<Mark("{")>>, a, b)
                    /\ AtKey(b, Inside(K, "OBJECT", item, Level(K.levels[Len(K.stack)], item, node)),
                             s)
<1> DEFINE p == a.now.parser
           l == Mark("{")
           st == Append(K.stack, "KEY")
           q == [state |-> "OB", stack |-> st, token |-> Token(p.state, "OB"), lex |-> p.lex]
           top == K.levels[Len(K.stack)]
           item == Named("OBJECT", key)
           I == Inside(K, "OBJECT", item, Level(top, item, node))
<1>0. /\ ~a.off /\ a.now.store = s /\ Exact(a.now, K) /\ a.now.trail.key = key
      /\ p.state \in {"GO", "VA"} /\ p.stack = K.stack
      /\ Context(K) /\ Len(K.stack) + 1 < Depth
      /\ Last(K.stack) \in {"DONE", "OBJECT"} /\ (Last(K.stack) = "OBJECT" <=> key # NoKey)
      /\ top.node.vtype \notin Scalars /\ Only(Part(top.node, item, "NO"), node)
  BY DEF AtObject, ObjectIn
<1>1. Len(st) = Len(K.stack) + 1 /\ Len(K.stack) \in Nat
  <2>1. Extends(st, K.stack, "KEY") /\ Len(K.stack) \in Nat
    BY <1>0, StackInside
  <2> HIDE DEF st
  <2> QED
    BY <2>1 DEF Extends
<1>2. Only(Parsed(p, l), q)
  <2>1. l.c = "{"
    BY Marks
  <2>2. Taken(p, l.c, "OB", st)
    BY <1>0, <2>1 DEF Taken
  <2>3. Len(st) <= Depth
    BY <1>0, <1>1, DepthAssumption
  <2> HIDE DEF st, l, p
  <2> QED
    BY <2>2, <2>3, RuleParsed
<1>3. q.state = "OB" /\ q.stack = st /\ q.token = "NO"
  BY <1>0 DEF Token, ValueToken
<1> HIDE DEF q, l, st, I
<1>4. PICK d : Only(Outcome(a.now, l), d) /\ OpenedBy(d, q, s, I)
  <2>1. Last(a.now.parser.stack) = "OBJECT" <=> a.now.trail.key # NoKey
    BY <1>0
  <2>2. /\ Context(K) /\ Len(K.stack) < Depth /\ Exact(a.now, K)
        /\ Last(a.now.parser.stack) \in {"DONE", "OBJECT"}
        /\ Last(a.now.parser.stack) = "OBJECT" <=> a.now.trail.key # NoKey
        /\ top = K.levels[Len(K.stack)] /\ top.node.vtype \notin Scalars
        /\ Only(Parsed(a.now.parser, l), q) /\ q.token = "NO"
        /\ Len(q.stack) = Len(K.stack) + 1 /\ Len(q.stack) > Len(a.now.parser.stack)
        /\ "OBJECT" = (IF q.state = "OB" THEN "OBJECT" ELSE "ARRAY")
        /\ key = a.now.trail.key
        /\ Only(Part(top.node, Named("OBJECT", key), "NO"), node)
    BY <1>0, <1>1, <1>2, <1>3, <2>1, DepthAssumption
  <2> HIDE DEF top, p
  <2>3. \E d : /\ Only(Outcome(a.now, l), d)
               /\ OpenedBy(d, q, a.now.store, Inside(K, "OBJECT", Named("OBJECT", key),
                                                     Level(top, Named("OBJECT", key), node)))
    BY <2>2, OpensNamed
  <2> QED
    BY <1>0, <2>3, Zenon DEF I, top
<1>5. PICK b : Reads(<<l>>, a, b) /\ ~b.off /\ b.now = d
  <2>1. ~a.off /\ Only(Outcome(a.now, l), d)
    BY <1>0, <1>4
  <2> QED
    BY <2>1, Lets
<1>6. Context(I) /\ st = Append(Front(I.stack), "KEY")
  <2>1. item.type # "LEAF"
    BY DEF Named
  <2>2. Context(I) /\ Extends(I.stack, K.stack, "OBJECT")
    BY <1>0, <2>1, InsideFacts, Zenon DEF I
  <2> QED
    BY <2>2 DEF Extends, st
<1>7. AtKey(b, I, s)
  <2>1. Exact(b.now, I) /\ b.now.parser = q /\ b.now.store = s
    BY <1>4, <1>5 DEF OpenedBy
  <2>2. Loose(b.now, I)
    BY <1>6, <2>1, ExactIsLoose
  <2> QED
    BY <1>3, <1>5, <1>6, <2>1, <2>2 DEF AtKey
<1> QED
  BY <1>5, <1>7 DEF l, I

\* What is open at a block.
Block(G, key, node, i) ==
  Inside(Listed(G, key, node, i + 1), "OBJECT", Numbered("OBJECT", i),
         Lev(node.kids[1], Append(Place(G, key), i + 1)))

\* The brace in front of a block.
LEMMA BlockOpens ==
  ASSUME NEW G, Context(G), Len(G.stack) + 2 < Depth, NEW key, NEW node, node.vtype = "ARRAY",
         NEW i \in Nat, NEW a, NEW st \in {"AR", "VA"}, NEW s,
         AtItem(a, Listed(G, key, node, i), st, s)
  PROVE  \E b : Reads(<<Mark("{")>>, a, b) /\ AtKey(b, Block(G, key, node, i), s)
<1> DEFINE p == a.now.parser
           l == Mark("{")
           L == Listed(G, key, node, i)
           to == Append(L.stack, "KEY")
           q == [state |-> "OB", stack |-> to, token |-> Token(p.state, "OB"), lex |-> p.lex]
           level == Lev(node, Place(G, key))
           I == Block(G, key, node, i)
<1>1. /\ ~a.off /\ a.now.store = s /\ Exact(a.now, L) /\ a.now.trail.key = NoKey
      /\ p.state = st /\ p.stack = L.stack
  BY DEF AtItem
<1>2. /\ Context(L) /\ Last(L.stack) = "ARRAY" /\ Len(L.stack) = Len(G.stack) + 1
      /\ L.stack = Append(G.stack, "ARRAY") /\ Len(G.stack) \in Nat
  BY ListedFacts
<1> HIDE DEF L
<1>3. Len(to) = Len(G.stack) + 2
  <2>1. Extends(to, L.stack, "KEY")
    BY <1>2, StackInside
  <2> HIDE DEF to
  <2> QED
    BY <1>2, <2>1 DEF Extends
<1>4. Only(Parsed(p, l), q)
  <2>1. l.c = "{"
    BY Marks
  <2>2. Taken(p, l.c, "OB", to)
    BY <1>1, <2>1 DEF Taken
  <2>3. Len(to) <= Depth
    BY <1>2, <1>3, DepthAssumption
  <2> HIDE DEF to, l, p
  <2> QED
    BY <2>2, <2>3, RuleParsed
<1>5. q.state = "OB" /\ q.stack = to /\ q.token = "NO"
  BY <1>1 DEF Token, ValueToken
<1>6. level.node = node /\ level.at = Place(G, key)
  BY DEF Lev
<1>7. Only(Part(level.node, Numbered("OBJECT", i), q.token), node.kids[1])
  BY <1>6, Zenon DEF Part, Only
<1>8. Exact(a.now, Inside(G, "ARRAY", Row(key, i), level))
  BY <1>1 DEF Listed, L
<1> HIDE DEF q, l, to, I, level
<1>9. PICK d : Only(Outcome(a.now, l), d) /\ OpenedBy(d, q, s, I)
  <2>1. /\ Context(G) /\ Len(G.stack) + 1 < Depth /\ level.node.vtype = "ARRAY"
        /\ Exact(a.now, Inside(G, "ARRAY", Row(key, i), level))
        /\ Last(a.now.parser.stack) = "ARRAY" /\ a.now.trail.key = NoKey
        /\ Only(Parsed(a.now.parser, l), q) /\ q.token = "NO" /\ q.state = "OB"
        /\ Len(q.stack) = Len(G.stack) + 2 /\ Len(a.now.parser.stack) = Len(G.stack) + 1
        /\ Only(Part(level.node, Numbered("OBJECT", i), "NO"), node.kids[1])
    BY <1>1, <1>2, <1>3, <1>4, <1>5, <1>6, <1>7, <1>8, DepthAssumption
  <2>2. \E d : /\ Only(Outcome(a.now, l), d)
               /\ OpenedBy(d, q, a.now.store,
                           Inside(Inside(G, "ARRAY", Row(key, i + 1), level), "OBJECT",
                                  Numbered("OBJECT", i),
                                  Lev(node.kids[1], Append(level.at, i + 1))))
    BY <2>1, OpensNumbered
  <2> QED
    BY <1>1, <1>6, <2>2, Zenon DEF I, Block, Listed, level
<1>10. PICK b : Reads(<<l>>, a, b) /\ ~b.off /\ b.now = d
  <2>1. ~a.off /\ Only(Outcome(a.now, l), d)
    BY <1>1, <1>9
  <2> QED
    BY <2>1, Lets
<1>11. Context(I) /\ to = Append(Front(I.stack), "KEY")
  <2>1. Numbered("OBJECT", i).type # "LEAF"
    BY DEF Numbered
  <2> DEFINE M == Listed(G, key, node, i + 1)
  <2>2. Context(M) /\ M.stack = L.stack
    BY <1>2, ListedFacts
  <2> HIDE DEF M
  <2>3. Context(I) /\ Extends(I.stack, M.stack, "OBJECT")
    BY <2>1, <2>2, InsideFacts, Zenon DEF I, Block, M
  <2> QED
    BY <2>2, <2>3 DEF Extends, to
<1>12. AtKey(b, I, s)
  <2>1. Exact(b.now, I) /\ b.now.parser = q /\ b.now.store = s
    BY <1>9, <1>10 DEF OpenedBy
  <2>2. Loose(b.now, I)
    BY <1>11, <2>1, ExactIsLoose
  <2> QED
    BY <1>5, <1>10, <1>11, <2>1, <2>2 DEF AtKey
<1> QED
  BY <1>10, <1>12 DEF l, I

-----------------------------------------------------------------------------
(* The parts of the specification *)

\* The first kid with the key and a type that fits.
LEMMA PartIs ==
  ASSUME NEW node, node.vtype = "OBJECT", NEW n \in Nat, DOMAIN node.kids = 1..n,
         NEW i \in 1..n, NEW item, NEW token, item.key # NoKey,
         node.kids[i].key = item.key, node.kids[i].vtype \in Fitting[token],
         \A j \in 1..n : j < i => node.kids[j].key # item.key
                                  \/ node.kids[j].vtype \notin Fitting[token]
  PROVE  Only(Part(node, item, token), node.kids[i])
<1> DEFINE fits == {k \in DOMAIN node.kids : /\ SameKey(node.kids[k], item.key)
                                             /\ node.kids[k].vtype \in Fitting[token]}
           first == {k \in fits : \A j \in fits : k <= j}
<1>1. i \in fits
  BY DEF SameKey
<1>2. \A j \in fits : j \in 1..n /\ i <= j
  BY DEF SameKey
<1>3. \A k \in first : k = i
  BY <1>1, <1>2
<1>4. i \in first
  BY <1>1, <1>2
<1>5. Part(node, item, token) = {node.kids[k] : k \in first}
  BY Zenon DEF Part
<1> HIDE DEF first
<1>6. {node.kids[k] : k \in first} = {node.kids[i]}
  BY <1>3, <1>4
<1> QED
  BY <1>5, <1>6 DEF Only

\* A kid takes a token: it is the first that does.
Kid(node, type, key, token, kid) ==
  Only(Part(node, Named(type, key), token), kid) /\ kid.vtype \in Fitting[token]

\* The parts of the specification for the members of a function.
LEMMA FnKids ==
  /\ Kid(FnSpec, "LEAF", "id", "VI", Leaf("id", "INTEGER"))
  /\ Kid(FnSpec, "LEAF", "type", "VI", Leaf("type", "INTEGER"))
  /\ Kid(FnSpec, "LEAF", "name", "VS", Leaf("name", "STRING"))
  /\ Kid(FnSpec, "LEAF", "phase", "VI", Leaf("phase", "INTEGER"))
  /\ Kid(FnSpec, "ARRAY", "in_dp_ids", "NO",
         Array("in_dp_ids", Leaf(NoKey, "INTEGER"), MaxIn))
  /\ Kid(FnSpec, "ARRAY", "out_dp_ids", "NO",
         Array("out_dp_ids", Leaf(NoKey, "INTEGER"), MaxOut))
<1> DEFINE in == Array("in_dp_ids", Leaf(NoKey, "INTEGER"), MaxIn)
           out == Array("out_dp_ids", Leaf(NoKey, "INTEGER"), MaxOut)
           kids == FnSpec.kids
<1>1. /\ FnSpec.vtype = "OBJECT" /\ DOMAIN kids = 1..6
      /\ kids[1] = Leaf("id", "INTEGER") /\ kids[2] = Leaf("type", "INTEGER")
      /\ kids[3] = Leaf("name", "STRING") /\ kids[4] = Leaf("phase", "INTEGER")
      /\ kids[5] = in /\ kids[6] = out
  <2> HIDE DEF in, out
  <2> QED
    BY DEF FnSpec, Object, in, out
<1>2. /\ \A key, vtype : Leaf(key, vtype).key = key /\ Leaf(key, vtype).vtype = vtype
      /\ in.key = "in_dp_ids" /\ in.vtype = "ARRAY"
      /\ out.key = "out_dp_ids" /\ out.vtype = "ARRAY"
  BY DEF Leaf, Array
<1>3. /\ Fitting["VI"] = {"INTEGER"} /\ Fitting["VS"] = {"STRING"}
      /\ "ARRAY" \in Fitting["NO"]
  BY DEF Fitting, VTypes
<1>4. \A type, key : Named(type, key).key = key
  BY DEF Named
<1> HIDE DEF in, out, kids
<1>5. /\ kids[1].key = "id" /\ kids[2].key = "type" /\ kids[3].key = "name"
      /\ kids[4].key = "phase" /\ kids[5].key = "in_dp_ids" /\ kids[6].key = "out_dp_ids"
      /\ \A i \in {1, 2, 4} : kids[i].vtype = "INTEGER"
      /\ kids[3].vtype = "STRING" /\ \A i \in {5, 6} : kids[i].vtype = "ARRAY"
  BY <1>1, <1>2
<1>9. \A i \in 1..6 : kids[i].key # NoKey
  <2>1. /\ kids[1].key # NoKey /\ kids[2].key # NoKey /\ kids[3].key # NoKey
        /\ kids[4].key # NoKey /\ kids[5].key # NoKey /\ kids[6].key # NoKey
    BY <1>5 DEF NoKey
  <2> QED
    BY <2>1
<1>6. ASSUME NEW i \in 1..6, NEW type, NEW token, kids[i].vtype \in Fitting[token]
      PROVE  Kid(FnSpec, type, kids[i].key, token, kids[i])
  <2> DEFINE item == Named(type, kids[i].key)
  <2>0. item.key = kids[i].key
    BY <1>4, Zenon
  <2>1. item.key = kids[i].key /\ item.key # NoKey
    <3> HIDE DEF item
    <3> QED
      BY <1>9, <2>0
  <2>2. \A j \in 1..6 : j < i => kids[j].key # item.key
    BY <1>5, <2>1
  <2> HIDE DEF item
  <2>3. Only(Part(FnSpec, item, token), kids[i])
    BY <1>1, <1>6, <2>1, <2>2, PartIs DEF kids
  <2> QED
    BY <1>6, <2>3 DEF Kid, item
<1>7. /\ Kid(FnSpec, "LEAF", kids[1].key, "VI", kids[1])
      /\ Kid(FnSpec, "LEAF", kids[2].key, "VI", kids[2])
      /\ Kid(FnSpec, "LEAF", kids[3].key, "VS", kids[3])
      /\ Kid(FnSpec, "LEAF", kids[4].key, "VI", kids[4])
      /\ Kid(FnSpec, "ARRAY", kids[5].key, "NO", kids[5])
      /\ Kid(FnSpec, "ARRAY", kids[6].key, "NO", kids[6])
  BY <1>3, <1>5, <1>6
<1> QED
  BY <1>1, <1>5, <1>7 DEF in, out

\* For those of a datapoint: which of the three for a value, the token tells.
LEMMA DpKids ==
  /\ Kid(DpSpec, "LEAF", "id", "VI", Leaf("id", "INTEGER"))
  /\ Kid(DpSpec, "LEAF", "type", "VI", Leaf("type", "INTEGER"))
  /\ Kid(DpSpec, "LEAF", "name", "VS", Leaf("name", "STRING"))
  /\ \A token \in {"VT", "VF"} : Kid(DpSpec, "LEAF", "emitted", token, Leaf("emitted", "BOOL"))
  /\ \A token \in {"VT", "VF"} : Kid(DpSpec, "LEAF", "value", token, Leaf("value", "BOOL"))
  /\ Kid(DpSpec, "LEAF", "value", "VI", Leaf("value", "INTEGER"))
  /\ Kid(DpSpec, "LEAF", "value", "VR", Leaf("value", "REAL"))
<1> DEFINE kids == DpSpec.kids
<1>1. /\ DpSpec.vtype = "OBJECT" /\ DOMAIN kids = 1..7
      /\ kids[1] = Leaf("id", "INTEGER") /\ kids[2] = Leaf("type", "INTEGER")
      /\ kids[3] = Leaf("name", "STRING") /\ kids[4] = Leaf("emitted", "BOOL")
      /\ kids[5] = Leaf("value", "BOOL") /\ kids[6] = Leaf("value", "INTEGER")
      /\ kids[7] = Leaf("value", "REAL")
  BY DEF DpSpec, Object
<1>2. \A key, vtype : Leaf(key, vtype).key = key /\ Leaf(key, vtype).vtype = vtype
  BY DEF Leaf
<1>3. /\ Fitting["VI"] = {"INTEGER"} /\ Fitting["VS"] = {"STRING"} /\ Fitting["VR"] = {"REAL"}
      /\ Fitting["VT"] = {"BOOL"} /\ Fitting["VF"] = {"BOOL"}
  BY DEF Fitting
<1>4. \A type, key : Named(type, key).key = key
  BY DEF Named
<1> HIDE DEF kids
<1>5. /\ kids[1].key = "id" /\ kids[2].key = "type" /\ kids[3].key = "name"
      /\ kids[4].key = "emitted" /\ \A i \in {5, 6, 7} : kids[i].key = "value"
      /\ kids[1].vtype = "INTEGER" /\ kids[2].vtype = "INTEGER" /\ kids[3].vtype = "STRING"
      /\ kids[4].vtype = "BOOL" /\ kids[5].vtype = "BOOL" /\ kids[6].vtype = "INTEGER"
      /\ kids[7].vtype = "REAL"
  BY <1>1, <1>2
<1>9. \A i \in 1..7 : kids[i].key # NoKey
  <2>1. /\ kids[1].key # NoKey /\ kids[2].key # NoKey /\ kids[3].key # NoKey
        /\ kids[4].key # NoKey /\ kids[5].key # NoKey /\ kids[6].key # NoKey
        /\ kids[7].key # NoKey
    BY <1>5 DEF NoKey
  <2> QED
    BY <2>1
<1>6. ASSUME NEW i \in 1..7, NEW token \in {"VI", "VS", "VR", "VT", "VF"},
             kids[i].vtype \in Fitting[token]
      PROVE  Kid(DpSpec, "LEAF", kids[i].key, token, kids[i])
  <2> DEFINE item == Named("LEAF", kids[i].key)
  <2>0. item.key = kids[i].key
    BY <1>4, Zenon
  <2>1. item.key = kids[i].key /\ item.key # NoKey
    <3> HIDE DEF item
    <3> QED
      BY <1>9, <2>0
  <2>2. \A j \in 1..7 : j < i => kids[j].key # item.key \/ kids[j].vtype \notin Fitting[token]
    BY <1>3, <1>5, <1>6, <2>1
  <2> HIDE DEF item
  <2>3. Only(Part(DpSpec, item, token), kids[i])
    BY <1>1, <1>6, <2>1, <2>2, PartIs DEF kids
  <2> QED
    BY <1>6, <2>3 DEF Kid, item
<1>7. /\ Kid(DpSpec, "LEAF", kids[1].key, "VI", kids[1])
      /\ Kid(DpSpec, "LEAF", kids[2].key, "VI", kids[2])
      /\ Kid(DpSpec, "LEAF", kids[3].key, "VS", kids[3])
      /\ \A token \in {"VT", "VF"} : Kid(DpSpec, "LEAF", kids[4].key, token, kids[4])
      /\ \A token \in {"VT", "VF"} : Kid(DpSpec, "LEAF", kids[5].key, token, kids[5])
      /\ Kid(DpSpec, "LEAF", kids[6].key, "VI", kids[6])
      /\ Kid(DpSpec, "LEAF", kids[7].key, "VR", kids[7])
  BY <1>3, <1>5, <1>6
<1> QED
  BY <1>1, <1>5, <1>7

\* The four parts of a grid and the one part of its cursor.
BlockList(A) == IF A = "fns" THEN Array("fns", FnSpec, MaxFns) ELSE Array("dps", DpSpec, MaxDps)
CtlSpec == Object("ctl", <<Leaf("curr_fn_idx", "INTEGER")>>)

\* And for those of the grid.
LEMMA GridKids ==
  /\ Kid(RootSpec, "LEAF", "name", "VS", Leaf("name", "STRING"))
  /\ \A A \in {"fns", "dps"} : Kid(RootSpec, "ARRAY", A, "NO", BlockList(A))
  /\ Kid(RootSpec, "OBJECT", "ctl", "NO", CtlSpec)
  /\ Kid(CtlSpec, "LEAF", "curr_fn_idx", "VI", Leaf("curr_fn_idx", "INTEGER"))
<1> DEFINE kids == RootSpec.kids
<1>0. \A key, kid, max : Array(key, kid, max).key = key /\ Array(key, kid, max).vtype = "ARRAY"
  BY DEF Array
<1>1. /\ RootSpec.vtype = "OBJECT" /\ DOMAIN kids = 1..4
      /\ kids[1] = Leaf("name", "STRING") /\ kids[2] = BlockList("fns")
      /\ kids[3] = BlockList("dps") /\ kids[4] = CtlSpec
  <2> DEFINE x == Array("fns", FnSpec, MaxFns)
             y == Array("dps", DpSpec, MaxDps)
  <2>1. BlockList("fns") = x /\ BlockList("dps") = y
    BY DEF BlockList
  <2>2. RootSpec = Object(NoKey, <<Leaf("name", "STRING"), x, y, CtlSpec>>)
    BY Zenon DEF RootSpec, CtlSpec
  <2> HIDE DEF x, y
  <2> QED
    BY <2>1, <2>2 DEF Object
<1>2. /\ Leaf("name", "STRING").key = "name" /\ Leaf("name", "STRING").vtype = "STRING"
      /\ CtlSpec.key = "ctl" /\ CtlSpec.vtype = "OBJECT"
      /\ BlockList("fns").key = "fns" /\ BlockList("fns").vtype = "ARRAY"
      /\ BlockList("dps").key = "dps" /\ BlockList("dps").vtype = "ARRAY"
  BY <1>0 DEF Leaf, BlockList, CtlSpec, Object
<1>3. /\ Fitting["VI"] = {"INTEGER"} /\ Fitting["VS"] = {"STRING"}
      /\ "ARRAY" \in Fitting["NO"] /\ "OBJECT" \in Fitting["NO"]
  BY DEF Fitting, VTypes
<1>4. \A type, key : Named(type, key).key = key
  BY DEF Named
<1> HIDE DEF kids
<1>5. /\ kids[1].key = "name" /\ kids[2].key = "fns" /\ kids[3].key = "dps" /\ kids[4].key = "ctl"
      /\ kids[1].vtype = "STRING" /\ kids[2].vtype = "ARRAY" /\ kids[3].vtype = "ARRAY"
      /\ kids[4].vtype = "OBJECT"
  BY <1>1, <1>2
<1>9. \A i \in 1..4 : kids[i].key # NoKey
  <2>1. /\ kids[1].key # NoKey /\ kids[2].key # NoKey /\ kids[3].key # NoKey
        /\ kids[4].key # NoKey
    BY <1>5 DEF NoKey
  <2> QED
    BY <2>1
<1>6. ASSUME NEW i \in 1..4, NEW type, NEW token, kids[i].vtype \in Fitting[token]
      PROVE  Kid(RootSpec, type, kids[i].key, token, kids[i])
  <2> DEFINE item == Named(type, kids[i].key)
  <2>0. item.key = kids[i].key
    BY <1>4, Zenon
  <2>1. item.key = kids[i].key /\ item.key # NoKey
    <3> HIDE DEF item
    <3> QED
      BY <1>9, <2>0
  <2>2. \A j \in 1..4 : j < i => kids[j].key # item.key
    BY <1>5, <2>1
  <2> HIDE DEF item
  <2>3. Only(Part(RootSpec, item, token), kids[i])
    BY <1>1, <1>6, <2>1, <2>2, PartIs DEF kids
  <2> QED
    BY <1>6, <2>3 DEF Kid, item
<1>7. /\ Kid(RootSpec, "LEAF", kids[1].key, "VS", kids[1])
      /\ Kid(RootSpec, "ARRAY", kids[2].key, "NO", kids[2])
      /\ Kid(RootSpec, "ARRAY", kids[3].key, "NO", kids[3])
      /\ Kid(RootSpec, "OBJECT", kids[4].key, "NO", kids[4])
  BY <1>3, <1>5, <1>6
<1>8. Kid(CtlSpec, "LEAF", "curr_fn_idx", "VI", Leaf("curr_fn_idx", "INTEGER"))
  <2> DEFINE leaf == Leaf("curr_fn_idx", "INTEGER")
             item == Named("LEAF", "curr_fn_idx")
  <2>1. CtlSpec.vtype = "OBJECT" /\ DOMAIN CtlSpec.kids = 1..1 /\ CtlSpec.kids[1] = leaf
    BY DEF CtlSpec, Object
  <2>2. leaf.key = "curr_fn_idx" /\ leaf.vtype = "INTEGER"
    BY DEF Leaf
  <2>0. item.key = "curr_fn_idx"
    BY <1>4, Zenon
  <2>3. item.key = "curr_fn_idx" /\ item.key # NoKey
    <3> HIDE DEF item
    <3> QED
      BY <2>0 DEF NoKey
  <2> HIDE DEF leaf, item
  <2>4. Only(Part(CtlSpec, item, "VI"), CtlSpec.kids[1])
    <3>1. /\ CtlSpec.kids[1].key = item.key /\ CtlSpec.kids[1].vtype \in Fitting["VI"]
          /\ 1 \in Nat /\ 1 \in 1..1 /\ \A j \in 1..1 : ~(j < 1)
      BY <1>3, <2>1, <2>2, <2>3
    <3> QED
      BY <2>1, <2>3, <3>1, PartIs
  <2> QED
    BY <1>3, <2>1, <2>2, <2>4 DEF Kid, leaf, item
<1> QED
  BY <1>1, <1>5, <1>7, <1>8

-----------------------------------------------------------------------------
(* Addresses *)

\* An address of something at or below a member of what is at another one.
Inner(x, at, key) ==
  /\ Len(x) \in Nat /\ Len(x) > Len(at) /\ x[Len(at) + 1] = key
  /\ \A k \in 1..Len(at) : x[k] = at[k]
SameIn(s, t, at, key) == \A x : Inner(x, at, key) => Same(s, t, x)
Fresh(s, at, key) == \A x : Inner(x, at, key) => x \notin DOMAIN s
StoredAt(s, at, v) == at \in DOMAIN s /\ s[at] = v

\* Which addresses are inside a member: its own and those below; members are apart.
LEMMA InnerFacts ==
  ASSUME NEW at, IsSeq(at), NEW key
  PROVE  /\ Inner(Append(at, key), at, key)
         /\ \A i : Inner(Append(Append(at, key), i), at, key)
         /\ \A x, k : Inner(x, at, key) /\ k # key => ~Inner(x, at, k)
         /\ \A x : Inner(x, at, key) => x # at
         /\ \A x, k : Inner(x, Append(at, key), k) => Inner(x, at, key)
<1>1. Extends(Append(at, key), at, key) /\ IsSeq(Append(at, key))
  BY AppendIs DEF Extends
<1>2. Inner(Append(at, key), at, key)
  <2> DEFINE a == Append(at, key)
  <2>1. Extends(a, at, key)
    BY <1>1
  <2> HIDE DEF a
  <2> QED
    BY <2>1 DEF Extends, Inner
<1>3. ASSUME NEW i
      PROVE  Inner(Append(Append(at, key), i), at, key)
  <2> DEFINE a == Append(at, key)
             b == Append(a, i)
  <2>1. Extends(a, at, key) /\ IsSeq(a)
    BY <1>1
  <2> HIDE DEF a
  <2>2. Extends(b, a, i)
    BY <2>1, AppendIs
  <2> HIDE DEF b
  <2>3. Inner(b, at, key)
    BY <2>1, <2>2 DEF Extends, Inner
  <2> QED
    BY <2>3 DEF a, b
<1>4. \A x, k : Inner(x, at, key) /\ k # key => ~Inner(x, at, k)
  BY DEF Inner
<1>5. \A x : Inner(x, at, key) => x # at
  BY <1>1 DEF Inner, Extends
<1>6. ASSUME NEW x, NEW k, Inner(x, Append(at, key), k)
      PROVE  Inner(x, at, key)
  <2> DEFINE a == Append(at, key)
  <2>1. Extends(a, at, key) /\ Inner(x, a, k)
    BY <1>1, <1>6
  <2> HIDE DEF a
  <2> QED
    BY <2>1 DEF Extends, Inner
<1> QED
  BY <1>2, <1>3, <1>4, <1>5, <1>6

\* The same for all that is inside a member.
LEMMA SameInOn ==
  ASSUME NEW s, NEW t, NEW u, NEW at, NEW key, SameIn(s, t, at, key), SameIn(t, u, at, key)
  PROVE  SameIn(s, u, at, key)
BY SameOn DEF SameIn

\* What is the same still is what it was.
LEMMA SameStored ==
  ASSUME NEW s, NEW t, NEW at, NEW key, SameIn(s, t, at, key)
  PROVE  /\ Fresh(s, at, key) => Fresh(t, at, key)
         /\ \A x, v : Inner(x, at, key) /\ StoredAt(s, x, v) => StoredAt(t, x, v)
BY DEF SameIn, Same, Fresh, StoredAt

-----------------------------------------------------------------------------
(* The members of a block *)

\* What is open at block k of an array, and where the array is counted.
BlockAt(F, kid, ca, k, max) ==
  /\ ObjectOpen(F) /\ Len(F.stack) + 1 < Depth
  /\ IsSeq(ca) /\ k \in Nat \ {0} /\ max \in Nat
  /\ F.levels[Len(F.stack)].node = kid
  /\ \A key : Place(F, key) = Append(Append(ca, k), key)
  /\ \A s : Full(F, s) <=> Count(s, ca) + 1 > max
  /\ \A s : Noted(F, s) = Put(s, ca, k)

\* A member of block k has been written, the block has been counted, and the rest
\* is as it was.
Wrote(s, t, ca, k, key) ==
  /\ Count(t, ca) = k
  /\ \A x : x # ca /\ ~Inner(x, Append(ca, k), key) => Same(s, t, x)

\* What writing a member of a block leaves alone.
LEMMA WroteElse ==
  ASSUME NEW ca, IsSeq(ca), NEW k, NEW s, NEW t, NEW key, Wrote(s, t, ca, k, key)
  PROVE  /\ \A other : other # key => SameIn(s, t, Append(ca, k), other)
         /\ \A i : i # k => SameIn(s, t, ca, i)
         /\ Count(t, ca) = k
<1>1. IsSeq(Append(ca, k))
  BY AppendIs DEF Extends
<1>2. ASSUME NEW other, other # key
      PROVE  SameIn(s, t, Append(ca, k), other)
  <2> SUFFICES ASSUME NEW x, Inner(x, Append(ca, k), other)
               PROVE  Same(s, t, x)
    BY DEF SameIn
  <2>1. ~Inner(x, Append(ca, k), key)
    BY <1>1, <1>2, InnerFacts
  <2>2. x # ca
    BY InnerFacts
  <2> QED
    BY <2>1, <2>2 DEF Wrote
<1>3. ASSUME NEW i, i # k
      PROVE  SameIn(s, t, ca, i)
  <2> SUFFICES ASSUME NEW x, Inner(x, ca, i)
               PROVE  Same(s, t, x)
    BY DEF SameIn
  <2>1. ~Inner(x, Append(ca, k), key)
    BY <1>3, InnerFacts
  <2>2. x # ca
    BY InnerFacts
  <2> QED
    BY <2>1, <2>2 DEF Wrote
<1> QED
  BY <1>2, <1>3 DEF Wrote

\* Counting the block and storing a value writes a member, and so does counting
\* it and storing ids.
LEMMA PutWrites ==
  ASSUME NEW ca, IsSeq(ca), NEW k \in Nat, NEW s, NEW key, NEW v
  PROVE  LET at == Append(Append(ca, k), key)
             t  == Put(Put(s, ca, k), at, v)
         IN  Wrote(s, t, ca, k, key) /\ StoredAt(t, at, v)
<1> DEFINE at == Append(Append(ca, k), key)
           u == Put(s, ca, k)
           t == Put(u, at, v)
<1>1. IsSeq(Append(ca, k))
  BY AppendIs DEF Extends
<1>2. Inner(at, Append(ca, k), key)
  BY <1>1, InnerFacts
<1>3. at # ca
  BY <1>2, InnerFacts
<1> HIDE DEF at
<1>4. ca \in DOMAIN u /\ u[ca] = k /\ \A x : x # ca => Same(s, u, x)
  BY PutFacts
<1> HIDE DEF u
<1>5. at \in DOMAIN t /\ t[at] = v /\ \A x : x # at => Same(u, t, x)
  BY PutFacts
<1> HIDE DEF t
<1>6. Count(t, ca) = k
  BY <1>3, <1>4, <1>5 DEF Count, Same
<1>7. ASSUME NEW x, x # ca, ~Inner(x, Append(ca, k), key) PROVE Same(s, t, x)
  <2>1. x # at
    BY <1>2, <1>7
  <2> QED
    BY <1>4, <1>5, <1>7, <2>1, SameOn
<1> QED
  BY <1>5, <1>6, <1>7 DEF Wrote, StoredAt, t, u, at

\* An array of ids is written inside its member.
LEMMA IdsWrite ==
  ASSUME NEW ca, IsSeq(ca), NEW k \in Nat, NEW s, NEW key, NEW t, NEW ids, NEW n,
         IdsStored(Put(s, ca, k), t, Append(Append(ca, k), key), ids, n)
  PROVE  Wrote(s, t, ca, k, key)
<1> DEFINE at == Append(Append(ca, k), key)
           u == Put(s, ca, k)
<1>1. IsSeq(Append(ca, k))
  BY AppendIs DEF Extends
<1>2. \A x : AtIds(at, x) => Inner(x, Append(ca, k), key)
  <2> DEFINE c == Append(ca, k)
  <2>1. IsSeq(c) /\ at = Append(c, key)
    BY <1>1
  <2> HIDE DEF c, at
  <2>2. Inner(Append(c, key), c, key) /\ \A i : Inner(Append(Append(c, key), i), c, key)
    BY <2>1, InnerFacts
  <2>3. \A x : AtIds(at, x) => Inner(x, c, key)
    BY <2>1, <2>2, Zenon DEF AtIds
  <2> QED
    BY <2>3 DEF c
<1>3. \A x : AtIds(at, x) => x # ca
  BY <1>2, InnerFacts
<1> HIDE DEF at
<1>4. ca \in DOMAIN u /\ u[ca] = k /\ \A x : x # ca => Same(s, u, x)
  BY PutFacts
<1> HIDE DEF u
<1>5. \A x : ~AtIds(at, x) => Same(u, t, x)
  BY DEF IdsStored, u, at
<1>6. Count(t, ca) = k
  <2>1. Same(u, t, ca)
    BY <1>3, <1>5
  <2> QED
    BY <1>4, <2>1 DEF Count, Same
<1>7. ASSUME NEW x, x # ca, ~Inner(x, Append(ca, k), key) PROVE Same(s, t, x)
  <2>1. ~AtIds(at, x)
    BY <1>2, <1>7
  <2> QED
    BY <1>4, <1>5, <1>7, <2>1, SameOn
<1> QED
  BY <1>6, <1>7 DEF Wrote

\* The first key of a block; there is room for the block.
LEMMA FirstKey ==
  ASSUME NEW F, NEW kid, NEW ca, NEW k, NEW max, BlockAt(F, kid, ca, k, max), k <= max,
         NEW a, NEW s, AtKey(a, F, s), Count(s, ca) = k - 1, NEW key
  PROVE  \E v : Reads(Key(key), a, v) /\ AtValue(v, F, key, Put(s, ca, k))
<1>1. ObjectOpen(F) /\ ~Full(F, s) /\ Noted(F, s) = Put(s, ca, k)
  BY DEF BlockAt
<1>2. PICK v : /\ Reads(Key(key), a, v)
               /\ ~Full(F, s) => AtValue(v, F, key, Noted(F, s))
  BY <1>1, KeyReads
<1> QED
  BY <1>1, <1>2

\* A text that has led behind a value of a block.
Past(T, a, w, F, s) == Reads(T, a, w) /\ (Ends(w, F, s) \/ Lost(w, F, s))

\* The next key: it is refused when there is no room for another block.
LEMMA NextKey ==
  ASSUME NEW F, NEW kid, NEW ca, NEW k, NEW max, BlockAt(F, kid, ca, k, max), k <= max,
         NEW T, NEW a, NEW w, NEW s, Past(T, a, w, F, s), Count(s, ca) = k, NEW key
  PROVE  \E v : /\ Reads(T \o Comma1 \o Key(key), a, v)
                /\ k = max => Held(v, s)
                /\ k < max => AtValue(v, F, key, Put(s, ca, k))
<1>1. /\ ObjectOpen(F) /\ Noted(F, s) = Put(s, ca, k)
      /\ k = max => Full(F, s)
      /\ k < max => ~Full(F, s)
  BY DEF BlockAt
<1>2. PICK b : Reads(Comma1, w, b) /\ AtKey(b, F, s)
  BY <1>1, CommaRead DEF Past
<1>3. PICK v : /\ Reads(Key(key), b, v)
               /\ Full(F, s) => Held(v, s)
               /\ ~Full(F, s) => AtValue(v, F, key, Noted(F, s))
  BY <1>1, <1>2, KeyReads
<1>4. Reads(T, a, w)
  BY DEF Past
<1>5. Reads(T \o Comma1 \o Key(key), a, v)
  BY <1>2, <1>3, <1>4, Then
<1> QED
  BY <1>1, <1>3, <1>5

\* A member that is one value.
LEMMA LeafMember ==
  ASSUME NEW F, NEW kid, NEW ca, NEW k, NEW max, BlockAt(F, kid, ca, k, max), k < max,
         NEW T, NEW a, NEW b, NEW s, Past(T, a, b, F, s), Count(s, ca) = k,
         NEW key, NEW Y, NEW c, \A x : Value(F, key, x, Y, Put(x, Place(F, key), c))
  PROVE  \E w, t : /\ Past(T \o Comma1 \o Key(key) \o Y, a, w, F, t) /\ Ends(w, F, t)
                   /\ Wrote(s, t, ca, k, key) /\ StoredAt(t, Append(Append(ca, k), key), c)
<1> DEFINE t == Put(Put(s, ca, k), Append(Append(ca, k), key), c)
<1>1. k <= max /\ k # max /\ k \in Nat /\ IsSeq(ca)
      /\ Place(F, key) = Append(Append(ca, k), key)
  BY DEF BlockAt
<1>2. PICK v : /\ Reads(T \o Comma1 \o Key(key), a, v)
               /\ AtValue(v, F, key, Put(s, ca, k))
  BY <1>1, NextKey
<1>3. PICK w : Reads(Y, v, w) /\ Ends(w, F, t)
  BY <1>1, <1>2 DEF Value
<1>4. Wrote(s, t, ca, k, key) /\ StoredAt(t, Append(Append(ca, k), key), c)
  BY <1>1, PutWrites
<1> HIDE DEF t
<1>5. Reads(T \o Comma1 \o Key(key) \o Y, a, w)
  BY <1>2, <1>3, Then
<1>6. Past(T \o Comma1 \o Key(key) \o Y, a, w, F, t)
  BY <1>3, <1>5 DEF Past
<1> QED
  BY <1>3, <1>4, <1>6

\* A member that is an array of ids.
LEMMA IdsMember ==
  ASSUME NEW F, NEW kid, NEW ca, NEW k, NEW max, BlockAt(F, kid, ca, k, max), k < max,
         NEW T, NEW a, NEW b, NEW s, Past(T, a, b, F, s), Count(s, ca) = k,
         NEW key, key # NoKey, Fresh(s, Append(ca, k), key),
         NEW node, Kid(kid, "ARRAY", key, "NO", node), node.vtype = "ARRAY",
         node.maxitems \in Nat, node.kids[1] = Leaf(NoKey, "INTEGER"),
         NEW ids \in Seq(Int), Len(ids) <= node.maxitems
  PROVE  \E w, t, u : /\ Past(T \o Comma1 \o Key(key) \o IdsText(ids), a, w, F, t)
                      /\ Settled(w, F, t) /\ Wrote(s, t, ca, k, key)
                      /\ IdsStored(u, t, Append(Append(ca, k), key), ids, Len(ids))
<1> DEFINE at == Append(Append(ca, k), key)
           u == Put(s, ca, k)
<1>1. /\ k <= max /\ k # max /\ k \in Nat /\ IsSeq(ca) /\ Place(F, key) = at
      /\ ObjectOpen(F) /\ Len(F.stack) + 1 < Depth
  BY DEF BlockAt
<1>2. PICK v : Reads(T \o Comma1 \o Key(key), a, v) /\ AtValue(v, F, key, u)
  BY <1>1, NextKey
<1>3. IsSeq(Append(ca, k)) /\ IsSeq(at)
  <2>1. IsSeq(Append(ca, k))
    BY <1>1, AppendIs DEF Extends
  <2> QED
    BY <2>1, AppendIs DEF Extends
<1>4. ListIn(F, key, node)
  BY <1>1 DEF ListIn, BlockAt, Kid
<1>5. IdList(F, key, node)
  <2>0. Leaf(NoKey, "INTEGER").vtype = "INTEGER" /\ Leaf(NoKey, "INTEGER").key = NoKey
    BY DEF Leaf
  <2>1. node.kids[1].vtype = "INTEGER" /\ node.kids[1].key # "phase"
    BY <2>0 DEF NoKey
  <2> QED
    BY <1>1, <1>3, <2>1 DEF IdList
<1>6. Count(u, Place(F, key)) = 0
  <2>1. Inner(at, Append(ca, k), key)
    BY <1>3, InnerFacts
  <2>2. at \notin DOMAIN s /\ at # ca
    BY <1>1, <2>1, InnerFacts DEF Fresh
  <2> HIDE DEF at
  <2>3. Same(s, u, at)
    BY <2>2, PutFacts
  <2> QED
    BY <1>1, <2>2, <2>3 DEF Count, Same
<1> HIDE DEF at, u
<1>7. PICK w, t : /\ Reads(IdsText(ids), v, w) /\ Settled(w, F, t)
                  /\ IdsStored(u, t, Place(F, key), ids, Len(ids))
  BY <1>2, <1>4, <1>5, <1>6, IdsReads
<1>8. IdsStored(u, t, at, ids, Len(ids))
  BY <1>1, <1>7
<1>9. Wrote(s, t, ca, k, key)
  BY <1>1, <1>8, IdsWrite DEF at, u
<1>10. Reads(T \o Comma1 \o Key(key) \o IdsText(ids), a, w)
  BY <1>2, <1>7, Then
<1>11. Past(T \o Comma1 \o Key(key) \o IdsText(ids), a, w, F, t)
  BY <1>7, <1>10 DEF Past, Ends
<1> QED
  BY <1>7, <1>8, <1>9, <1>11 DEF at

\* The members of a block that are there already: the others are written after them.
Written(s, t, ca, k) == /\ Count(t, ca) = k
                        /\ \A x : x # ca /\ ~Inner(x, ca, k) => Same(s, t, x)

\* To write a member of a block is to write inside the block.
LEMMA WroteWithin ==
  ASSUME NEW ca, IsSeq(ca), NEW k, NEW s, NEW t, NEW key, Wrote(s, t, ca, k, key)
  PROVE  Written(s, t, ca, k)
BY InnerFacts DEF Wrote, Written

\* What is written member by member is written inside the block.
LEMMA WrittenOn ==
  ASSUME NEW ca, NEW k, NEW s, NEW t, NEW u, Written(s, t, ca, k), Written(t, u, ca, k)
  PROVE  Written(s, u, ca, k)
BY SameOn DEF Written

\* An array of ids in the store.
IdsIn(t, at, ids) == /\ Count(t, at) = Len(ids)
                     /\ \A i \in 1..Len(ids) : StoredAt(t, Append(at, i), <<"int", ids[i]>>)

\* An array of ids that nothing was written to is the array it was.
LEMMA SameIds ==
  ASSUME NEW at, IsSeq(at), NEW key, NEW s, NEW t, SameIn(s, t, at, key), NEW ids,
         IdsIn(s, Append(at, key), ids)
  PROVE  IdsIn(t, Append(at, key), ids)
<1> DEFINE a == Append(at, key)
<1>1. Inner(a, at, key) /\ \A i : Inner(Append(a, i), at, key)
  BY InnerFacts
<1> HIDE DEF a
<1>2. Same(s, t, a) /\ \A i : Same(s, t, Append(a, i))
  BY <1>1 DEF SameIn
<1>3. IdsIn(s, a, ids)
  BY DEF a
<1>4. Count(t, a) = Len(ids)
  BY <1>2, <1>3 DEF IdsIn, Count, Same
<1>5. \A i \in 1..Len(ids) : StoredAt(t, Append(a, i), <<"int", ids[i]>>)
  BY <1>2, <1>3 DEF IdsIn, StoredAt, Same
<1> QED
  BY <1>4, <1>5 DEF IdsIn, a

\* The first member of a block, its id.
LEMMA FirstMember ==
  ASSUME NEW F, NEW kid, NEW ca, NEW k, NEW max, BlockAt(F, kid, ca, k, max), k <= max,
         NEW a, NEW s, AtKey(a, F, s), Count(s, ca) = k - 1,
         Kid(kid, "LEAF", "id", "VI", Leaf("id", "INTEGER")), NEW n
  PROVE  \E w, t : /\ Past(Key("id") \o Number(n), a, w, F, t)
                   /\ Wrote(s, t, ca, k, "id")
                   /\ StoredAt(t, Append(Append(ca, k), "id"), <<"int", n>>)
<1> DEFINE c == Content(Leaf("id", "INTEGER"), "VI", n)
           t == Put(Put(s, ca, k), Append(Append(ca, k), "id"), c)
<1>1. k \in Nat /\ IsSeq(ca) /\ ObjectOpen(F) /\ "id" # NoKey
      /\ Place(F, "id") = Append(Append(ca, k), "id")
  BY DEF BlockAt, NoKey
<1>2. Takes1(F, "id", "VI", Leaf("id", "INTEGER"))
  BY Zenon DEF Takes1, Kid, BlockAt
<1>3. c = <<"int", n>>
  BY DEF Content, Leaf
<1>4. PICK v : Reads(Key("id"), a, v) /\ AtValue(v, F, "id", Put(s, ca, k))
  BY FirstKey
<1>5. Value(F, "id", Put(s, ca, k), Number(n), Put(Put(s, ca, k), Place(F, "id"), c))
  BY <1>1, <1>2, IntReads
<1>6. PICK w : Reads(Number(n), v, w) /\ Ends(w, F, t)
  <2> HIDE DEF c
  <2> QED
    BY <1>1, <1>4, <1>5 DEF Value
<1>7. Wrote(s, t, ca, k, "id") /\ StoredAt(t, Append(Append(ca, k), "id"), c)
  BY <1>1, PutWrites
<1> HIDE DEF t, c
<1>8. Reads(Key("id") \o Number(n), a, w)
  BY <1>4, <1>6, Then
<1>9. Past(Key("id") \o Number(n), a, w, F, t)
  BY <1>6, <1>8 DEF Past
<1> QED
  BY <1>3, <1>7, <1>9

\* What comes after the block that there was no room for.
LEMMA MoreHeld ==
  ASSUME NEW T, NEW a, NEW w, NEW s, Reads(T, a, w), Held(w, s), NEW X, IsSeq(X)
  PROVE  Reads(T \o X, a, w)
<1>1. Reads(X, w, w)
  BY StaysHeld DEF IsSeq, Held
<1> QED
  BY <1>1, Then

\* When the count of the array says that the block is one too many, its second key is
\* refused, and the store stays as it is.
LEMMA Refused ==
  ASSUME NEW F, NEW kid, NEW ca, NEW k, BlockAt(F, kid, ca, k, k),
         NEW T, NEW a, NEW b, NEW s, Past(T, a, b, F, s), Count(s, ca) = k,
         NEW key, NEW X, IsSeq(X)
  PROVE  \E w : Reads(T \o Comma1 \o Key(key) \o X, a, w) /\ Held(w, s)
<1>1. k <= k
  BY DEF BlockAt
<1>2. PICK w : Reads(T \o Comma1 \o Key(key), a, w) /\ Held(w, s)
  BY <1>1, NextKey
<1> QED
  BY <1>2, MoreHeld

\* No further member moves a reader that has stopped.
LEMMA HeldMember ==
  ASSUME NEW T, NEW a, NEW w, NEW s, Reads(T, a, w), Held(w, s), NEW X, IsSeq(X), NEW key
  PROVE  Reads(T \o Comma1 \o Key(key) \o X, a, w)
<1>1. IsSeq(Comma1) /\ IsSeq(Key(key))
  <2>1. Comma1 \in Seq({Mark(",")})
    BY DEF Comma1, CommaIf
  <2> DEFINE S == {Quote(key), Quote(Unknown), Mark(":")}
  <2>2. Key(key) \in Seq(S)
    BY DEF Key, Str
  <2> QED
    BY <2>1, <2>2 DEF IsSeq
<1>2. Reads(T \o Comma1, a, w)
  BY <1>1, MoreHeld
<1>3. Reads(T \o Comma1 \o Key(key), a, w)
  BY <1>1, <1>2, MoreHeld
<1> QED
  BY <1>3, MoreHeld

\* The texts of values are sequences of letters.
LEMMA Texts1 ==
  /\ \A x : IsSeq(Str(x)) /\ IsSeq(Code(x))
  /\ \A n \in Int : IsSeq(Number(n)) /\ IsSeq(RealText(n))
  /\ \A b \in BOOLEAN : IsSeq(Word(b))
<1>1. \A x : IsSeq(Str(x)) /\ IsSeq(Code(x))
  <2> TAKE x
  <2>1. Str(x) \in Seq({Quote(x), Quote(Unknown)})
    BY DEF Str
  <2>2. Code(x) \in Seq({[c |-> "digit", v |-> x]})
    BY DEF Code
  <2> QED
    BY <2>1, <2>2 DEF IsSeq
<1>2. \A n : IsSeq(Number(n))
  <2> TAKE n
  <2> DEFINE S == {[c |-> "zero", v |-> 0], [c |-> "minus", v |-> n], Mark("digit"),
                   [c |-> "digit", v |-> n]}
  <2>1. <<[c |-> "zero", v |-> 0]>> \in Seq(S) /\ <<[c |-> "digit", v |-> n]>> \in Seq(S)
        /\ <<[c |-> "minus", v |-> n], Mark("digit")>> \in Seq(S)
    OBVIOUS
  <2> HIDE DEF S
  <2>2. Number(n) \in Seq(S)
    BY <2>1, Zenon DEF Number
  <2> QED
    BY <2>2 DEF IsSeq
<1>3. \A X, Y : IsSeq(X) /\ IsSeq(Y) => IsSeq(X \o Y)
  <2> SUFFICES ASSUME NEW X, NEW Y, IsSeq(X), IsSeq(Y) PROVE IsSeq(X \o Y)
    OBVIOUS
  <2>1. PICK S, T : X \in Seq(S) /\ Y \in Seq(T)
    BY DEF IsSeq
  <2> DEFINE U == S \cup T
  <2>2. X \in Seq(U) /\ Y \in Seq(U)
    BY <2>1, SeqMonotonic
  <2> HIDE DEF U
  <2>3. X \o Y \in Seq(U)
    BY <2>2
  <2> QED
    BY <2>3 DEF IsSeq
<1>4. \A n : IsSeq(RealText(n))
  <2> TAKE n
  <2> DEFINE e == <<Mark("exp"), Mark("plus"), Mark("digit")>>
             f == <<Mark("point"), Mark("digit")>>
  <2>1. e \in Seq({Mark("exp"), Mark("plus"), Mark("digit")})
        /\ f \in Seq({Mark("point"), Mark("digit")})
    OBVIOUS
  <2>2. IsSeq(e) /\ IsSeq(f)
    BY <2>1 DEF IsSeq
  <2> HIDE DEF e, f
  <2>3. IsSeq(Number(n) \o e) /\ IsSeq(Number(n) \o f) /\ IsSeq(Number(Rounded(n)))
    BY <1>2, <1>3, <2>2
  <2> QED
    BY <2>3, Zenon DEF RealText, e, f
<1>5. \A b \in BOOLEAN : IsSeq(Word(b))
  <2> TAKE b \in BOOLEAN
  <2> DEFINE x == [c |-> IF b THEN "tru" ELSE "fals", v |-> 0]
  <2>1. Word(b) = <<x, Mark("e")>>
    BY DEF Word
  <2>2. <<x, Mark("e")>> \in Seq({x, Mark("e")})
    OBVIOUS
  <2> QED
    BY <2>1, <2>2 DEF IsSeq
<1> QED
  BY <1>1, <1>2, <1>4, <1>5

\* And so are those of phases, arrays of ids and values of datapoints.
LEMMA Texts2 ==
  /\ \A p \in PhaseNumbers : IsSeq(PhaseText(p))
  /\ \A ids \in Seq(Int) : IsSeq(IdsText(ids))
  /\ \A dp \in DocDps : IsSeq(ValueText(dp))
<1>1. \A p \in PhaseNumbers : IsSeq(PhaseText(p))
  <2> TAKE p \in PhaseNumbers
  <2>1. \E n \in Int : PhaseText(p) = Number(n)
    BY SizesAssumption DEF PhaseText, PhaseNumbers
  <2> QED
    BY <2>1, Texts1
<1>2. \A ids \in Seq(Int) : IsSeq(IdsText(ids))
  <2> TAKE ids \in Seq(Int)
  <2>1. Walks(IdsText(ids), Spot("block", "value", "in_dp_ids"), After("block"))
    BY IdsWalks
  <2> QED
    BY <2>1 DEF Walks, Path, IsSeq
<1>3. \A dp \in DocDps : IsSeq(ValueText(dp))
  <2> TAKE dp \in DocDps
  <2>1. dp.type \in DpTypes /\ dp.value[2] \in Int /\ (dp.value[2] # 0) \in BOOLEAN
    BY DEF DocDps
  <2>2. \/ ValueText(dp) = Number(dp.value[2])
        \/ ValueText(dp) = RealText(dp.value[2])
        \/ ValueText(dp) = Word(dp.value[2] # 0)
    BY <2>1 DEF ValueText, DpTypes
  <2>3. IsSeq(Number(dp.value[2])) /\ IsSeq(RealText(dp.value[2])) /\ IsSeq(Word(dp.value[2] # 0))
    BY <2>1, Texts1
  <2> QED
    BY <2>2, <2>3
<1> QED
  BY <1>1, <1>2, <1>3

-----------------------------------------------------------------------------
(* Blocks *)

\* What is open at a block is right for its members.
LEMMA BlockFacts ==
  ASSUME NEW G, ObjectOpen(G), Len(G.stack) + 3 < Depth, NEW key, NEW node,
         node.vtype = "ARRAY", node.kids[1].vtype = "OBJECT", node.maxitems \in Nat,
         IsSeq(Place(G, key)), NEW i \in Nat
  PROVE  BlockAt(Block(G, key, node, i), node.kids[1], Place(G, key), i + 1, node.maxitems)
<1> DEFINE L == Listed(G, key, node, i + 1)
           ca == Place(G, key)
           kid == node.kids[1]
           item == Numbered("OBJECT", i)
           level == Lev(kid, Append(ca, i + 1))
           F == Block(G, key, node, i)
           n == Len(G.stack)
<1>1. Context(G) /\ n \in Nat /\ n >= 1 /\ IsSeq(ca)
  BY StackInside DEF ObjectOpen
<1>2. Context(L) /\ Len(L.stack) = n + 1
  BY <1>1, ListedFacts
<1>3. item.type # "LEAF" /\ item.isItem /\ item.idx = i
  BY DEF Numbered
<1>4. F = Inside(L, "OBJECT", item, level)
  BY DEF Block
<1> HIDE DEF item, level, F
<1>5. /\ Context(F)
      /\ Extends(F.stack, L.stack, "OBJECT") /\ Extends(F.items, L.items, item)
      /\ Extends(F.levels, L.levels, level)
  BY <1>2, <1>3, <1>4, InsideFacts
<1>6. Extends(L.levels, G.levels, Lev(node, ca))
  <2>1. L = Inside(G, "ARRAY", Row(key, i + 1), Lev(node, ca)) /\ Row(key, i + 1).type # "LEAF"
    BY Zenon DEF Listed, Row
  <2> HIDE DEF L, ca
  <2> QED
    BY <1>1, <2>1, InsideFacts
<1>7. Len(F.stack) = n + 2 /\ Last(F.stack) = "OBJECT"
  <2>1. Len(F.stack) = Len(L.stack) + 1 /\ Last(F.stack) = "OBJECT"
    <3> HIDE DEF L
    <3> QED
      BY <1>5 DEF Extends
  <2> HIDE DEF L, n
  <2> QED
    BY <1>1, <1>2, <2>1
<1>8. Len(F.items) = n + 2 /\ Len(F.levels) = n + 2 /\ Len(L.items) = n + 1 /\ Len(L.levels) = n + 1
  BY <1>2, <1>5, <1>7 DEF Context
<1>9. F.items[n + 2] = item /\ F.levels[n + 2] = level /\ F.levels[n + 1] = L.levels[n + 1]
  <2> HIDE DEF n, L
  <2>1. n + 1 + 1 = n + 2 /\ n + 1 \in 1..n + 1
    BY <1>1
  <2>2. F.items[n + 1 + 1] = item /\ F.levels[n + 1 + 1] = level
    BY <1>5, <1>8 DEF Extends
  <2>3. F.levels[n + 1] = L.levels[n + 1]
    BY <1>5, <1>8, <2>1 DEF Extends
  <2> QED
    BY <2>1, <2>2, <2>3
<1>10. L.levels[n + 1] = Lev(node, ca)
  BY <1>1, <1>6, <1>8 DEF Extends, Context, ObjectOpen
<1>11. /\ level.node = kid /\ level.at = Append(ca, i + 1)
       /\ Lev(node, ca).node = node /\ Lev(node, ca).at = ca
  BY DEF level, Lev
<1> HIDE DEF L
<1>12. ObjectOpen(F) /\ Len(F.stack) + 1 < Depth /\ F.levels[Len(F.stack)].node = kid
  BY <1>1, <1>5, <1>7, <1>9, <1>11, DepthAssumption DEF ObjectOpen
<1>13. \A k : Place(F, k) = Append(Append(ca, i + 1), k)
  <2> HIDE DEF ca
  <2> QED
    BY <1>7, <1>9, <1>11 DEF Place
<1> HIDE DEF ca, n
<1>14. /\ F.items[Len(F.stack)] = item /\ F.levels[Len(F.stack) - 1] = Lev(node, ca)
  <2>1. Len(F.stack) - 1 = n + 1
    BY <1>1, <1>7
  <2> QED
    BY <1>7, <1>9, <1>10, <2>1, Zenon
<1>15. \A s : Full(F, s) <=> Count(s, ca) + 1 > node.maxitems
  BY <1>3, <1>11, <1>14, Zenon DEF Full, NoRoom
<1>16. \A s : Noted(F, s) = Put(s, ca, i + 1)
  BY <1>3, <1>11, <1>14, Zenon DEF Noted
<1> QED
  <2>1. i + 1 \in Nat \ {0}
    OBVIOUS
  <2> QED
    BY <1>1, <1>12, <1>13, <1>15, <1>16, <2>1 DEF BlockAt, F, ca

\* What a member that is written leaves of the others.
OthersStay(s, t, at, key) ==
  \A k : k # key =>
    /\ \A v : StoredAt(s, Append(at, k), v) => StoredAt(t, Append(at, k), v)
    /\ \A ids : IdsIn(s, Append(at, k), ids) => IdsIn(t, Append(at, k), ids)
    /\ Fresh(s, at, k) => Fresh(t, at, k)

\* The other members of the block are as they were.
LEMMA WroteLeaves ==
  ASSUME NEW ca, IsSeq(ca), NEW k, NEW s, NEW t, NEW key, Wrote(s, t, ca, k, key)
  PROVE  OthersStay(s, t, Append(ca, k), key)
<1> DEFINE at == Append(ca, k)
<1>1. IsSeq(at)
  BY AppendIs DEF Extends
<1>2. \A other : other # key => SameIn(s, t, at, other)
  BY WroteElse
<1> HIDE DEF at
<1>3. ASSUME NEW other, other # key
      PROVE  /\ \A v : StoredAt(s, Append(at, other), v) => StoredAt(t, Append(at, other), v)
             /\ \A ids : IdsIn(s, Append(at, other), ids) => IdsIn(t, Append(at, other), ids)
             /\ Fresh(s, at, other) => Fresh(t, at, other)
  <2>1. SameIn(s, t, at, other) /\ Inner(Append(at, other), at, other)
    BY <1>1, <1>2, <1>3, InnerFacts
  <2> QED
    BY <1>1, <2>1, SameStored, SameIds
<1> QED
  BY <1>3 DEF OthersStay, at

\* A fresh block has fresh members.
LEMMA FreshMembers ==
  ASSUME NEW ca, IsSeq(ca), NEW k, NEW s, Fresh(s, ca, k)
  PROVE  \A key : Fresh(s, Append(ca, k), key)
BY InnerFacts DEF Fresh

\* What is written of a function, and the text between its braces.
FnMembers(fn) ==
  Key("id") \o Number(fn.id)
  \o Comma1 \o Key("name") \o Str("f") \o Comma1 \o Key("type") \o Number(fn.type)
  \o Comma1 \o Key("phase") \o PhaseText(fn.phase)
  \o Comma1 \o Key("in_dp_ids") \o IdsText(fn.in)
  \o Comma1 \o Key("out_dp_ids") \o IdsText(fn.out)
FnIn(t, at, fn) ==
  /\ StoredAt(t, Append(at, "id"), <<"int", fn.id>>)
  /\ StoredAt(t, Append(at, "name"), "f")
  /\ StoredAt(t, Append(at, "type"), <<"int", fn.type>>)
  /\ StoredAt(t, Append(at, "phase"), <<"int", fn.phase>>)
  /\ IdsIn(t, Append(at, "in_dp_ids"), fn.in)
  /\ IdsIn(t, Append(at, "out_dp_ids"), fn.out)

\* An integer, a name and a phase as members.
LEMMA IntMember ==
  ASSUME NEW F, NEW kid, NEW ca, NEW k, NEW max, BlockAt(F, kid, ca, k, max), k < max,
         NEW T, NEW a, NEW b, NEW s, Past(T, a, b, F, s), Count(s, ca) = k,
         NEW key, key # NoKey, NEW node, Kid(kid, "LEAF", key, "VI", node), NEW n
  PROVE  LET c == Content(node, "VI", n)
         IN  /\ \E w, t : /\ Past(T \o Comma1 \o Key(key) \o Number(n), a, w, F, t)
                          /\ Wrote(s, t, ca, k, key) /\ StoredAt(t, Append(Append(ca, k), key), c)
             /\ \E w, t : /\ Past(T \o Comma1 \o Key(key) \o Code(n), a, w, F, t)
                          /\ Wrote(s, t, ca, k, key) /\ StoredAt(t, Append(Append(ca, k), key), c)
<1> DEFINE c == Content(node, "VI", n)
<1>1. ObjectOpen(F) /\ Takes1(F, key, "VI", node)
  BY Zenon DEF Takes1, Kid, BlockAt
<1>2. \A x : /\ Value(F, key, x, Number(n), Put(x, Place(F, key), c))
             /\ Value(F, key, x, Code(n), Put(x, Place(F, key), c))
  BY <1>1, IntReads
<1> HIDE DEF c
<1>3. \A Y : (\A x : Value(F, key, x, Y, Put(x, Place(F, key), c))) =>
        \E w, t : /\ Past(T \o Comma1 \o Key(key) \o Y, a, w, F, t)
                  /\ Wrote(s, t, ca, k, key) /\ StoredAt(t, Append(Append(ca, k), key), c)
  BY LeafMember
<1> QED
  BY <1>2, <1>3 DEF c

\* A name as a member.
LEMMA NameMember ==
  ASSUME NEW F, NEW kid, NEW ca, NEW k, NEW max, BlockAt(F, kid, ca, k, max), k < max,
         NEW T, NEW a, NEW b, NEW s, Past(T, a, b, F, s), Count(s, ca) = k,
         Kid(kid, "LEAF", "name", "VS", Leaf("name", "STRING")), NEW n
  PROVE  \E w, t : /\ Past(T \o Comma1 \o Key("name") \o Str(n), a, w, F, t)
                   /\ Wrote(s, t, ca, k, "name")
                   /\ StoredAt(t, Append(Append(ca, k), "name"), n)
<1>1. ObjectOpen(F) /\ Takes1(F, "name", "VS", Leaf("name", "STRING"))
  BY Zenon DEF Takes1, Kid, BlockAt
<1>2. "name" # NoKey
  BY DEF NoKey
<1>3. \A x : Value(F, "name", x, Str(n), Put(x, Place(F, "name"), n))
  BY <1>1, <1>2, StrReads
<1> QED
  BY <1>3, LeafMember

\* A phase comes back as it was.
LEMMA PhaseComesBack ==
  ASSUME NEW p \in PhaseNumbers
  PROVE  \E n : PhaseText(p) = Number(n) /\ Wrap(n) = p
<1> DEFINE M == 2 * PhaseHalf
<1>1. M \in Nat /\ M > 0 /\ p \in 0..M - 1
  BY SizesAssumption DEF PhaseNumbers
<1>2. PhaseText(p) = Number(IF p < PhaseHalf THEN p ELSE p - M)
  BY DEF PhaseText
<1>3. \A n : Wrap(n) = n % M
  BY DEF Wrap
<1> HIDE DEF M
<1>4. p % M = p /\ (p - M) % M = p
  BY <1>1
<1> QED
  BY <1>2, <1>3, <1>4

\* The contents of the members of a block.
LEMMA Contents ==
  ASSUME NEW n
  PROVE  /\ \A key : key # "phase" => Content(Leaf(key, "INTEGER"), "VI", n) = <<"int", n>>
         /\ Content(Leaf("phase", "INTEGER"), "VI", n) = <<"int", Wrap(n)>>
BY DEF Content, Leaf

\* A block of a function that there is room for.
LEMMA FnReads ==
  ASSUME NEW F, NEW ca, NEW k, NEW max, BlockAt(F, FnSpec, ca, k, max), k < max,
         NEW a, NEW s, AtKey(a, F, s), Count(s, ca) = k - 1, Fresh(s, ca, k), NEW fn \in DocFns
  PROVE  \E w, t : /\ Reads(FnMembers(fn), a, w) /\ Ends(w, F, t)
                   /\ Written(s, t, ca, k) /\ FnIn(t, Append(ca, k), fn)
<1> DEFINE at == Append(ca, k)
           ins == Array("in_dp_ids", Leaf(NoKey, "INTEGER"), MaxIn)
           outs == Array("out_dp_ids", Leaf(NoKey, "INTEGER"), MaxOut)
           T1 == Key("id") \o Number(fn.id)
           T2 == T1 \o Comma1 \o Key("name") \o Str("f")
           T3 == T2 \o Comma1 \o Key("type") \o Number(fn.type)
           T4 == T3 \o Comma1 \o Key("phase") \o PhaseText(fn.phase)
           T5 == T4 \o Comma1 \o Key("in_dp_ids") \o IdsText(fn.in)
           T6 == T5 \o Comma1 \o Key("out_dp_ids") \o IdsText(fn.out)
<1>1. /\ fn.phase \in PhaseNumbers
      /\ fn.in \in Seq(Int) /\ Len(fn.in) <= MaxIn
      /\ fn.out \in Seq(Int) /\ Len(fn.out) <= MaxOut
  BY DEF DocFns, IdArrays
<1>2. k <= max /\ k \in Nat /\ IsSeq(ca)
  BY DEF BlockAt
<1>3. /\ "type" # NoKey /\ "phase" # NoKey /\ "in_dp_ids" # NoKey /\ "out_dp_ids" # NoKey
      /\ "type" # "phase"
  BY DEF NoKey
<1>4. /\ ins.vtype = "ARRAY" /\ ins.maxitems = MaxIn /\ ins.kids[1] = Leaf(NoKey, "INTEGER")
      /\ outs.vtype = "ARRAY" /\ outs.maxitems = MaxOut /\ outs.kids[1] = Leaf(NoKey, "INTEGER")
      /\ MaxIn \in Nat /\ MaxOut \in Nat
  BY SizesAssumption DEF Array
<1>5. FnMembers(fn) = T6
  BY DEF FnMembers
<1>6. \A key : Fresh(s, at, key)
  BY <1>2, FreshMembers
<1> HIDE DEF ins, outs
<1>7. PICK w1, t1 : /\ Past(T1, a, w1, F, t1) /\ Wrote(s, t1, ca, k, "id")
                    /\ StoredAt(t1, Append(at, "id"), <<"int", fn.id>>)
  BY <1>2, FnKids, FirstMember
<1> HIDE DEF T1
<1>8. PICK w2, t2 : /\ Past(T2, a, w2, F, t2) /\ Wrote(t1, t2, ca, k, "name")
                    /\ StoredAt(t2, Append(at, "name"), "f")
  <2>1. Count(t1, ca) = k
    BY <1>7 DEF Wrote
  <2> QED
    BY <1>7, <2>1, FnKids, NameMember
<1> HIDE DEF T2
<1>9. PICK w3, t3 : /\ Past(T3, a, w3, F, t3) /\ Wrote(t2, t3, ca, k, "type")
                    /\ StoredAt(t3, Append(at, "type"), <<"int", fn.type>>)
  <2>1. Count(t2, ca) = k
    BY <1>8 DEF Wrote
  <2>2. Kid(FnSpec, "LEAF", "type", "VI", Leaf("type", "INTEGER"))
    BY FnKids
  <2>3. Content(Leaf("type", "INTEGER"), "VI", fn.type) = <<"int", fn.type>>
    BY <1>3, Contents
  <2> QED
    BY <1>3, <1>8, <2>1, <2>2, <2>3, IntMember
<1> HIDE DEF T3
<1>10. PICK w4, t4 : /\ Past(T4, a, w4, F, t4) /\ Wrote(t3, t4, ca, k, "phase")
                     /\ StoredAt(t4, Append(at, "phase"), <<"int", fn.phase>>)
  <2>1. Count(t3, ca) = k
    BY <1>9 DEF Wrote
  <2>2. Kid(FnSpec, "LEAF", "phase", "VI", Leaf("phase", "INTEGER"))
    BY FnKids
  <2>3. PICK n : PhaseText(fn.phase) = Number(n) /\ Wrap(n) = fn.phase
    BY <1>1, PhaseComesBack
  <2>4. Content(Leaf("phase", "INTEGER"), "VI", n) = <<"int", fn.phase>>
    BY <2>3, Contents
  <2> QED
    BY <1>3, <1>9, <2>1, <2>2, <2>3, <2>4, IntMember
<1> HIDE DEF T4
<1>11. /\ OthersStay(s, t1, at, "id") /\ OthersStay(t1, t2, at, "name")
       /\ OthersStay(t2, t3, at, "type") /\ OthersStay(t3, t4, at, "phase")
  BY <1>2, <1>7, <1>8, <1>9, <1>10, WroteLeaves
<1>12. Fresh(t4, at, "in_dp_ids") /\ Fresh(t4, at, "out_dp_ids")
  <2> HIDE DEF at
  <2> QED
    BY <1>6, <1>11 DEF OthersStay
<1>13. PICK w5, t5 : /\ Past(T5, a, w5, F, t5) /\ Wrote(t4, t5, ca, k, "in_dp_ids")
                     /\ IdsIn(t5, Append(at, "in_dp_ids"), fn.in)
  <2>1. Count(t4, ca) = k
    BY <1>10 DEF Wrote
  <2>2. Kid(FnSpec, "ARRAY", "in_dp_ids", "NO", ins)
    BY FnKids DEF ins
  <2>3. PICK w5, t5, u : /\ Past(T5, a, w5, F, t5) /\ Wrote(t4, t5, ca, k, "in_dp_ids")
                         /\ IdsStored(u, t5, Append(at, "in_dp_ids"), fn.in, Len(fn.in))
    BY <1>1, <1>3, <1>4, <1>10, <1>12, <2>1, <2>2, IdsMember
  <2>4. IdsIn(t5, Append(at, "in_dp_ids"), fn.in)
    <3> HIDE DEF at
    <3> QED
      BY <2>3 DEF IdsStored, IdsIn, StoredAt
  <2> QED
    BY <2>3, <2>4
<1> HIDE DEF T5
<1>14. OthersStay(t4, t5, at, "in_dp_ids")
  BY <1>2, <1>13, WroteLeaves
<1>15. Fresh(t5, at, "out_dp_ids")
  <2> HIDE DEF at
  <2> QED
    BY <1>12, <1>14 DEF OthersStay
<1>16. PICK w6, t6 : /\ Reads(T6, a, w6) /\ Ends(w6, F, t6) /\ Wrote(t5, t6, ca, k, "out_dp_ids")
                     /\ IdsIn(t6, Append(at, "out_dp_ids"), fn.out)
  <2>1. Count(t5, ca) = k
    BY <1>13 DEF Wrote
  <2>2. Kid(FnSpec, "ARRAY", "out_dp_ids", "NO", outs)
    BY FnKids DEF outs
  <2>3. PICK w6, t6, u : /\ Past(T6, a, w6, F, t6) /\ Settled(w6, F, t6)
                         /\ Wrote(t5, t6, ca, k, "out_dp_ids")
                         /\ IdsStored(u, t6, Append(at, "out_dp_ids"), fn.out, Len(fn.out))
    BY <1>1, <1>3, <1>4, <1>13, <1>15, <2>1, <2>2, IdsMember
  <2>4. IdsIn(t6, Append(at, "out_dp_ids"), fn.out)
    <3> HIDE DEF at
    <3> QED
      BY <2>3 DEF IdsStored, IdsIn, StoredAt
  <2> QED
    BY <2>3, <2>4 DEF Past, Ends
<1> HIDE DEF T6
<1>17. OthersStay(t5, t6, at, "out_dp_ids")
  BY <1>2, <1>16, WroteLeaves
<1>18. FnIn(t6, at, fn)
  <2> HIDE DEF at
  <2>1. /\ StoredAt(t6, Append(at, "id"), <<"int", fn.id>>)
        /\ StoredAt(t6, Append(at, "name"), "f")
        /\ StoredAt(t6, Append(at, "type"), <<"int", fn.type>>)
        /\ StoredAt(t6, Append(at, "phase"), <<"int", fn.phase>>)
        /\ IdsIn(t6, Append(at, "in_dp_ids"), fn.in)
    BY <1>7, <1>8, <1>9, <1>10, <1>11, <1>13, <1>14, <1>17 DEF OthersStay
  <2> QED
    BY <1>16, <2>1 DEF FnIn
<1>19. Written(s, t6, ca, k)
  <2>1. /\ Written(s, t1, ca, k) /\ Written(t1, t2, ca, k) /\ Written(t2, t3, ca, k)
        /\ Written(t3, t4, ca, k) /\ Written(t4, t5, ca, k) /\ Written(t5, t6, ca, k)
    BY <1>2, <1>7, <1>8, <1>9, <1>10, <1>13, <1>16, WroteWithin
  <2>2. Written(s, t2, ca, k)
    BY <2>1, WrittenOn
  <2>3. Written(s, t3, ca, k)
    BY <2>1, <2>2, WrittenOn
  <2>4. Written(s, t4, ca, k)
    BY <2>1, <2>3, WrittenOn
  <2>5. Written(s, t5, ca, k)
    BY <2>1, <2>4, WrittenOn
  <2> QED
    BY <2>1, <2>5, WrittenOn
<1> QED
  BY <1>5, <1>16, <1>18, <1>19

\* What is written of a datapoint.  A real with an exponent leaves nothing.
DpMembers(dp) ==
  Key("id") \o Number(dp.id)
  \o Comma1 \o Key("name") \o Str("d") \o Comma1 \o Key("type") \o Code(dp.type)
  \o Comma1 \o Key("value") \o ValueText(dp)
  \o Comma1 \o Key("emitted") \o Word(dp.emitted)
IsLost(dp) == dp.type = "REAL" /\ Exponent(dp.value[2])
DpIn(t, at, dp) ==
  /\ StoredAt(t, Append(at, "id"), <<"int", dp.id>>)
  /\ StoredAt(t, Append(at, "name"), "d")
  /\ StoredAt(t, Append(at, "type"), <<"int", dp.type>>)
  /\ IsLost(dp) => Fresh(t, at, "value")
  /\ ~IsLost(dp) => StoredAt(t, Append(at, "value"), Reread(dp).value)
  /\ StoredAt(t, Append(at, "emitted"), <<"int", IF dp.emitted THEN 1 ELSE 0>>)

\* Counting the block alone writes nothing.
LEMMA CountWrites ==
  ASSUME NEW ca, IsSeq(ca), NEW k, NEW s, NEW key
  PROVE  /\ Wrote(s, Put(s, ca, k), ca, k, key)
         /\ Fresh(s, Append(ca, k), key) => Fresh(Put(s, ca, k), Append(ca, k), key)
<1> DEFINE t == Put(s, ca, k)
<1>1. ca \in DOMAIN t /\ t[ca] = k /\ \A x : x # ca => Same(s, t, x)
  BY PutFacts
<1> HIDE DEF t
<1>2. Count(t, ca) = k
  BY <1>1 DEF Count
<1>3. \A x : Inner(x, Append(ca, k), key) => x # ca
  <2>1. \A x : Inner(x, Append(ca, k), key) => Inner(x, ca, k)
    BY InnerFacts
  <2> QED
    BY <2>1, InnerFacts
<1>4. Wrote(s, t, ca, k, key)
  BY <1>1, <1>2 DEF Wrote
<1>5. Fresh(s, Append(ca, k), key) => Fresh(t, Append(ca, k), key)
  BY <1>1, <1>3 DEF Fresh, Same
<1> QED
  BY <1>4, <1>5 DEF t

\* The value of a datapoint as a member.
LEMMA ValueMember ==
  ASSUME NEW F, NEW ca, NEW k, NEW max, BlockAt(F, DpSpec, ca, k, max), k < max,
         NEW T, NEW a, NEW b, NEW s, Past(T, a, b, F, s), Count(s, ca) = k, NEW dp \in DocDps,
         Fresh(s, Append(ca, k), "value")
  PROVE  \E w, t :
           /\ Past(T \o Comma1 \o Key("value") \o ValueText(dp), a, w, F, t)
           /\ Wrote(s, t, ca, k, "value")
           /\ IsLost(dp) => Fresh(t, Append(ca, k), "value")
           /\ ~IsLost(dp) => StoredAt(t, Append(Append(ca, k), "value"), Reread(dp).value)
<1> DEFINE at == Append(Append(ca, k), "value")
           u == Put(s, ca, k)
           c == Reread(dp).value
<1>1. /\ k <= max /\ k # max /\ k \in Nat /\ IsSeq(ca) /\ Place(F, "value") = at
      /\ ObjectOpen(F)
  BY DEF BlockAt
<1>2. PICK v : Reads(T \o Comma1 \o Key("value"), a, v) /\ AtValue(v, F, "value", u)
  BY <1>1, NextKey
<1>3. /\ Takes1(F, "value", "VI", Leaf("value", "INTEGER"))
      /\ Takes1(F, "value", "VR", Leaf("value", "REAL"))
      /\ \A token \in {"VT", "VF"} : Takes1(F, "value", token, Leaf("value", "BOOL"))
      /\ Leaf("value", "INTEGER").key = "value" /\ Leaf("value", "REAL").key = "value"
  <2>1. F.levels[Len(F.stack)].node = DpSpec
    BY Zenon DEF BlockAt
  <2>2. /\ Kid(DpSpec, "LEAF", "value", "VI", Leaf("value", "INTEGER"))
        /\ Kid(DpSpec, "LEAF", "value", "VR", Leaf("value", "REAL"))
        /\ \A token \in {"VT", "VF"} : Kid(DpSpec, "LEAF", "value", token, Leaf("value", "BOOL"))
    BY DpKids
  <2>3. Leaf("value", "INTEGER").key = "value" /\ Leaf("value", "REAL").key = "value"
    BY DEF Leaf
  <2> QED
    BY <2>1, <2>2, <2>3, Zenon DEF Takes1, Kid
<1>4. PICK w : /\ Reads(ValueText(dp), v, w)
               /\ IsLost(dp) => Lost(w, F, u)
               /\ ~IsLost(dp) => Ends(w, F, Put(u, Place(F, "value"), c))
  <2> HIDE DEF u
  <2> QED
    BY <1>1, <1>2, <1>3, DpValueReads DEF IsLost
<1>5. Reads(T \o Comma1 \o Key("value") \o ValueText(dp), a, w)
  BY <1>2, <1>4, Then
<1>6. CASE IsLost(dp)
  <2>1. Past(T \o Comma1 \o Key("value") \o ValueText(dp), a, w, F, u)
    BY <1>4, <1>5, <1>6 DEF Past
  <2>2. Wrote(s, u, ca, k, "value") /\ Fresh(u, Append(ca, k), "value")
    BY <1>1, CountWrites
  <2> QED
    BY <1>6, <2>1, <2>2
<1>7. CASE ~IsLost(dp)
  <2>1. Past(T \o Comma1 \o Key("value") \o ValueText(dp), a, w, F, Put(u, at, c))
    BY <1>1, <1>4, <1>5, <1>7 DEF Past
  <2>2. Wrote(s, Put(u, at, c), ca, k, "value") /\ StoredAt(Put(u, at, c), at, c)
    BY <1>1, PutWrites
  <2> QED
    BY <1>7, <2>1, <2>2
<1> QED
  BY <1>6, <1>7

\* A block of a datapoint that there is room for.
LEMMA DpReads ==
  ASSUME NEW F, NEW ca, NEW k, NEW max, BlockAt(F, DpSpec, ca, k, max), k < max,
         NEW a, NEW s, AtKey(a, F, s), Count(s, ca) = k - 1, Fresh(s, ca, k), NEW dp \in DocDps
  PROVE  \E w, t : /\ Reads(DpMembers(dp), a, w) /\ Ends(w, F, t)
                   /\ Written(s, t, ca, k) /\ DpIn(t, Append(ca, k), dp)
<1> DEFINE at == Append(ca, k)
           T1 == Key("id") \o Number(dp.id)
           T2 == T1 \o Comma1 \o Key("name") \o Str("d")
           T3 == T2 \o Comma1 \o Key("type") \o Code(dp.type)
           T4 == T3 \o Comma1 \o Key("value") \o ValueText(dp)
           T5 == T4 \o Comma1 \o Key("emitted") \o Word(dp.emitted)
           bit == <<"int", IF dp.emitted THEN 1 ELSE 0>>
<1>1. k <= max /\ k \in Nat /\ IsSeq(ca)
  BY DEF BlockAt
<1>2. "type" # NoKey /\ "value" # NoKey /\ "emitted" # NoKey /\ "type" # "phase"
  BY DEF NoKey
<1>3. DpMembers(dp) = T5
  BY DEF DpMembers
<1>4. \A key : Fresh(s, at, key)
  BY <1>1, FreshMembers
<1>5. PICK w1, t1 : /\ Past(T1, a, w1, F, t1) /\ Wrote(s, t1, ca, k, "id")
                    /\ StoredAt(t1, Append(at, "id"), <<"int", dp.id>>)
  BY <1>1, DpKids, FirstMember
<1> HIDE DEF T1
<1>6. PICK w2, t2 : /\ Past(T2, a, w2, F, t2) /\ Wrote(t1, t2, ca, k, "name")
                    /\ StoredAt(t2, Append(at, "name"), "d")
  <2>1. Count(t1, ca) = k
    BY <1>5 DEF Wrote
  <2> QED
    BY <1>5, <2>1, DpKids, NameMember
<1> HIDE DEF T2
<1>7. PICK w3, t3 : /\ Past(T3, a, w3, F, t3) /\ Wrote(t2, t3, ca, k, "type")
                    /\ StoredAt(t3, Append(at, "type"), <<"int", dp.type>>)
  <2>1. Count(t2, ca) = k
    BY <1>6 DEF Wrote
  <2>2. Kid(DpSpec, "LEAF", "type", "VI", Leaf("type", "INTEGER"))
    BY DpKids
  <2>3. Content(Leaf("type", "INTEGER"), "VI", dp.type) = <<"int", dp.type>>
    BY <1>2, Contents
  <2> QED
    BY <1>2, <1>6, <2>1, <2>2, <2>3, IntMember
<1> HIDE DEF T3
<1>8. /\ OthersStay(s, t1, at, "id") /\ OthersStay(t1, t2, at, "name")
      /\ OthersStay(t2, t3, at, "type")
  BY <1>1, <1>5, <1>6, <1>7, WroteLeaves
<1>9. Fresh(t3, at, "value")
  <2> HIDE DEF at
  <2> QED
    BY <1>4, <1>8 DEF OthersStay
<1>10. PICK w4, t4 :
         /\ Past(T4, a, w4, F, t4) /\ Wrote(t3, t4, ca, k, "value")
         /\ IsLost(dp) => Fresh(t4, at, "value")
         /\ ~IsLost(dp) => StoredAt(t4, Append(at, "value"), Reread(dp).value)
  <2>1. Count(t3, ca) = k
    BY <1>7 DEF Wrote
  <2> QED
    BY <1>7, <1>9, <2>1, ValueMember
<1> HIDE DEF T4, bit
<1>11. PICK w5, t5 : /\ Reads(T5, a, w5) /\ Ends(w5, F, t5) /\ Wrote(t4, t5, ca, k, "emitted")
                     /\ StoredAt(t5, Append(at, "emitted"), bit)
  <2>1. Count(t4, ca) = k
    BY <1>10 DEF Wrote
  <2>2. \A token \in {"VT", "VF"} : Takes1(F, "emitted", token, Leaf("emitted", "BOOL"))
    <3>1. F.levels[Len(F.stack)].node = DpSpec
      BY Zenon DEF BlockAt
    <3>2. \A token \in {"VT", "VF"} : Kid(DpSpec, "LEAF", "emitted", token, Leaf("emitted", "BOOL"))
      BY DpKids
    <3> QED
      BY <3>1, <3>2, Zenon DEF Takes1, Kid
  <2>3. ObjectOpen(F)
    BY DEF BlockAt
  <2>4. \A x : Value(F, "emitted", x, Word(dp.emitted), Put(x, Place(F, "emitted"), bit))
    BY <1>2, <2>2, <2>3, WordReads DEF Value, Ends, bit
  <2>5. PICK w, t : /\ Past(T4 \o Comma1 \o Key("emitted") \o Word(dp.emitted), a, w, F, t)
                    /\ Ends(w, F, t) /\ Wrote(t4, t, ca, k, "emitted")
                    /\ StoredAt(t, Append(Append(ca, k), "emitted"), bit)
    BY <1>10, <2>1, <2>4, LeafMember
  <2> QED
    BY <2>5 DEF Past
<1> HIDE DEF T5
<1>12. OthersStay(t3, t4, at, "value") /\ OthersStay(t4, t5, at, "emitted")
  BY <1>1, <1>10, <1>11, WroteLeaves
<1>13. DpIn(t5, at, dp)
  <2> HIDE DEF at
  <2>1. /\ StoredAt(t5, Append(at, "id"), <<"int", dp.id>>)
        /\ StoredAt(t5, Append(at, "name"), "d")
        /\ StoredAt(t5, Append(at, "type"), <<"int", dp.type>>)
    BY <1>5, <1>6, <1>7, <1>8, <1>12 DEF OthersStay
  <2>2. /\ IsLost(dp) => Fresh(t5, at, "value")
        /\ ~IsLost(dp) => StoredAt(t5, Append(at, "value"), Reread(dp).value)
    BY <1>10, <1>12 DEF OthersStay
  <2> QED
    BY <1>11, <2>1, <2>2 DEF DpIn, bit
<1>14. Written(s, t5, ca, k)
  <2>1. /\ Written(s, t1, ca, k) /\ Written(t1, t2, ca, k) /\ Written(t2, t3, ca, k)
        /\ Written(t3, t4, ca, k) /\ Written(t4, t5, ca, k)
    BY <1>1, <1>5, <1>6, <1>7, <1>10, <1>11, WroteWithin
  <2>2. Written(s, t2, ca, k)
    BY <2>1, WrittenOn
  <2>3. Written(s, t3, ca, k)
    BY <2>1, <2>2, WrittenOn
  <2>4. Written(s, t4, ca, k)
    BY <2>1, <2>3, WrittenOn
  <2> QED
    BY <2>1, <2>4, WrittenOn
<1> QED
  BY <1>3, <1>11, <1>13, <1>14

\* A block that there is no room for: its first key is read, the second is refused.
IdAlone(t, at, id) == /\ StoredAt(t, Append(at, "id"), <<"int", id>>)
                      /\ \A key : key # "id" => Fresh(t, at, key)

\* What the first member, the id, leaves of a block that nothing else is known of.
LEMMA IdWrites ==
  ASSUME NEW ca, IsSeq(ca), NEW k, NEW s, NEW t, NEW id, Fresh(s, ca, k),
         Wrote(s, t, ca, k, "id"), StoredAt(t, Append(Append(ca, k), "id"), <<"int", id>>)
  PROVE  Written(s, t, ca, k) /\ IdAlone(t, Append(ca, k), id)
<1>1. Written(s, t, ca, k)
  BY WroteWithin
<1>2. \A key : Fresh(s, Append(ca, k), key)
  BY FreshMembers
<1>3. OthersStay(s, t, Append(ca, k), "id")
  BY WroteLeaves
<1> QED
  BY <1>1, <1>2, <1>3 DEF OthersStay, IdAlone

\* Of a function that there is no room for, the id is stored and no more.
LEMMA FnRefused ==
  ASSUME NEW F, NEW ca, NEW k, BlockAt(F, FnSpec, ca, k, k),
         NEW a, NEW s, AtKey(a, F, s), Count(s, ca) = k - 1, Fresh(s, ca, k), NEW fn \in DocFns
  PROVE  \E w, t : /\ Reads(FnMembers(fn), a, w) /\ Held(w, t)
                   /\ Written(s, t, ca, k) /\ IdAlone(t, Append(ca, k), fn.id)
<1> DEFINE T1 == Key("id") \o Number(fn.id)
           T2 == T1 \o Comma1 \o Key("name") \o Str("f")
           T3 == T2 \o Comma1 \o Key("type") \o Number(fn.type)
           T4 == T3 \o Comma1 \o Key("phase") \o PhaseText(fn.phase)
           T5 == T4 \o Comma1 \o Key("in_dp_ids") \o IdsText(fn.in)
           T6 == T5 \o Comma1 \o Key("out_dp_ids") \o IdsText(fn.out)
<1>1. fn.type \in Int /\ fn.phase \in PhaseNumbers /\ fn.in \in Seq(Int) /\ fn.out \in Seq(Int)
  BY DEF DocFns, IdArrays
<1>2. k <= k /\ k \in Nat /\ IsSeq(ca)
  BY DEF BlockAt
<1>3. FnMembers(fn) = T6
  BY DEF FnMembers
<1>4. PICK w1, t : /\ Past(T1, a, w1, F, t) /\ Wrote(s, t, ca, k, "id")
                   /\ StoredAt(t, Append(Append(ca, k), "id"), <<"int", fn.id>>)
  BY <1>2, FnKids, FirstMember
<1>5. Written(s, t, ca, k) /\ IdAlone(t, Append(ca, k), fn.id)
  BY <1>2, <1>4, IdWrites
<1>6. /\ IsSeq(Str("f")) /\ IsSeq(Number(fn.type)) /\ IsSeq(PhaseText(fn.phase))
      /\ IsSeq(IdsText(fn.in)) /\ IsSeq(IdsText(fn.out))
  BY <1>1, Texts1, Texts2
<1> HIDE DEF T1
<1>7. PICK w : Reads(T2, a, w) /\ Held(w, t)
  <2>1. Count(t, ca) = k
    BY <1>4 DEF Wrote
  <2> QED
    BY <1>4, <1>6, <2>1, Refused
<1> HIDE DEF T2
<1>8. Reads(T3, a, w)
  BY <1>6, <1>7, HeldMember
<1> HIDE DEF T3
<1>9. Reads(T4, a, w)
  BY <1>6, <1>7, <1>8, HeldMember
<1> HIDE DEF T4
<1>10. Reads(T5, a, w)
  BY <1>6, <1>7, <1>9, HeldMember
<1> HIDE DEF T5
<1>11. Reads(T6, a, w)
  BY <1>6, <1>7, <1>10, HeldMember
<1> QED
  BY <1>3, <1>5, <1>7, <1>11

\* Of a datapoint likewise.
LEMMA DpRefused ==
  ASSUME NEW F, NEW ca, NEW k, BlockAt(F, DpSpec, ca, k, k),
         NEW a, NEW s, AtKey(a, F, s), Count(s, ca) = k - 1, Fresh(s, ca, k), NEW dp \in DocDps
  PROVE  \E w, t : /\ Reads(DpMembers(dp), a, w) /\ Held(w, t)
                   /\ Written(s, t, ca, k) /\ IdAlone(t, Append(ca, k), dp.id)
<1> DEFINE T1 == Key("id") \o Number(dp.id)
           T2 == T1 \o Comma1 \o Key("name") \o Str("d")
           T3 == T2 \o Comma1 \o Key("type") \o Code(dp.type)
           T4 == T3 \o Comma1 \o Key("value") \o ValueText(dp)
           T5 == T4 \o Comma1 \o Key("emitted") \o Word(dp.emitted)
<1>1. dp.emitted \in BOOLEAN
  BY DEF DocDps
<1>2. k <= k /\ k \in Nat /\ IsSeq(ca)
  BY DEF BlockAt
<1>3. DpMembers(dp) = T5
  BY DEF DpMembers
<1>4. PICK w1, t : /\ Past(T1, a, w1, F, t) /\ Wrote(s, t, ca, k, "id")
                   /\ StoredAt(t, Append(Append(ca, k), "id"), <<"int", dp.id>>)
  BY <1>2, DpKids, FirstMember
<1>5. Written(s, t, ca, k) /\ IdAlone(t, Append(ca, k), dp.id)
  BY <1>2, <1>4, IdWrites
<1>6. /\ IsSeq(Str("d")) /\ IsSeq(Code(dp.type)) /\ IsSeq(ValueText(dp))
      /\ IsSeq(Word(dp.emitted))
  BY <1>1, Texts1, Texts2
<1> HIDE DEF T1
<1>7. PICK w : Reads(T2, a, w) /\ Held(w, t)
  <2>1. Count(t, ca) = k
    BY <1>4 DEF Wrote
  <2> QED
    BY <1>4, <1>6, <2>1, Refused
<1> HIDE DEF T2
<1>8. Reads(T3, a, w)
  BY <1>6, <1>7, HeldMember
<1> HIDE DEF T3
<1>9. Reads(T4, a, w)
  BY <1>6, <1>7, <1>8, HeldMember
<1> HIDE DEF T4
<1>10. Reads(T5, a, w)
  BY <1>6, <1>7, <1>9, HeldMember
<1> QED
  BY <1>3, <1>5, <1>7, <1>10

-----------------------------------------------------------------------------
(* Slots *)

\* The two arrays of blocks, and what comes back of a block in a slot of one.
BlocksOf(A) == IF A = "fns" THEN DocFns ELSE DocDps
TextOf(A, block) == IF A = "fns" THEN FnText(block) ELSE DpText(block)
ZeroOf(A) == IF A = "fns" THEN ZeroFn ELSE ZeroDp
Back(A, block) == IF A = "fns" THEN block ELSE Reread(block)
SlotRead(A, s, k) == IF A = "fns" THEN FnRead(s, k) ELSE DpRead(s, k)

\* What a slot holds is what is stored at and below its address.
LEMMA SlotAddresses ==
  ASSUME NEW A, NEW k, NEW s
  PROVE  /\ \A key : <<A, k, key>> = Append(Append(<<A>>, k), key)
         /\ IsSeq(<<A>>) /\ IsSeq(Append(<<A>>, k))
<1>1. \A key : <<A, k, key>> = Append(Append(<<A>>, k), key)
  OBVIOUS
<1>2. <<A>> \in Seq({A}) /\ Append(<<A>>, k) \in Seq({A, k})
  OBVIOUS
<1> QED
  BY <1>1, <1>2 DEF IsSeq

\* The records of the two kinds of blocks.
FnOf(u, i, t, p, in, out) ==
  [used |-> u, id |-> i, type |-> t, phase |-> p, in |-> in, out |-> out]
DpOf(u, i, t, e, v) == [used |-> u, id |-> i, type |-> t, emitted |-> e, value |-> v]

\* Blocks with one field changed.
LEMMA With ==
  /\ \A u, i, t, p, in, out, x :
       [FnOf(u, i, t, p, in, out) EXCEPT !.id = x] = FnOf(u, x, t, p, in, out)
  /\ \A u, i, t, e, v, x : /\ [DpOf(u, i, t, e, v) EXCEPT !.id = x] = DpOf(u, x, t, e, v)
                           /\ [DpOf(u, i, t, e, v) EXCEPT !.value = x] = DpOf(u, i, t, e, x)
BY DEF FnOf, DpOf

\* A value that is stored, and one that is not.
ReadsBack(s, at, key, x) ==
  /\ \A v, zero : StoredAt(s, Append(at, key), v) => Stored(s, x, zero) = v
  /\ \A v, zero : StoredAt(s, Append(at, key), <<"int", v>>) => At(s, x, zero) = v
  /\ \A ids : ids \in Seq(Int) /\ IdsIn(s, Append(at, key), ids) => Ids(s, x) = ids
  /\ Fresh(s, at, key) => /\ \A zero : Stored(s, x, zero) = zero /\ At(s, x, zero) = zero
                          /\ Ids(s, x) = <<>>

\* What was stored at an address is read back from it, and zeros from where nothing was.
LEMMA ReadBack ==
  ASSUME NEW s, NEW at, NEW key, IsSeq(at), NEW x, x = Append(at, key)
  PROVE  ReadsBack(s, at, key, x)
<1>1. \A v, zero : StoredAt(s, x, v) => Stored(s, x, zero) = v
  BY DEF StoredAt, Stored
<1>2. \A v, zero : StoredAt(s, x, <<"int", v>>) => At(s, x, zero) = v
  BY DEF StoredAt, At
<1>3. ASSUME NEW ids \in Seq(Int), IdsIn(s, x, ids)
      PROVE  Ids(s, x) = ids
  <2>1. Ids(s, x) = [i \in 1..Len(ids) |-> At(s, Append(x, i), 0)]
    BY <1>3 DEF Ids, IdsIn
  <2>2. \A i \in 1..Len(ids) : At(s, Append(x, i), 0) = ids[i]
    BY <1>3 DEF IdsIn, StoredAt, At
  <2>3. ids = [i \in 1..Len(ids) |-> ids[i]]
    OBVIOUS
  <2> QED
    BY <2>1, <2>2, <2>3, Zenon
<1>4. ASSUME Fresh(s, at, key)
      PROVE  /\ \A zero : Stored(s, x, zero) = zero /\ At(s, x, zero) = zero
             /\ Ids(s, x) = <<>>
  <2>1. x \notin DOMAIN s
    BY <1>4, InnerFacts DEF Fresh
  <2>2. Count(s, x) = 0
    BY <2>1 DEF Count
  <2>3. Ids(s, x) = [i \in 1..0 |-> At(s, Append(x, i), 0)]
    BY <2>2 DEF Ids
  <2>4. Ids(s, x) = <<>>
    BY <2>3
  <2> QED
    BY <2>1, <2>4 DEF Stored, At
<1> QED
  BY <1>1, <1>2, <1>3, <1>4, Zenon DEF ReadsBack

\* The same for the members of a slot.
LEMMA SlotBack ==
  ASSUME NEW A, NEW k, NEW s
  PROVE  \A key : ReadsBack(s, Append(<<A>>, k), key, <<A, k, key>>)
<1> TAKE key
<1> DEFINE at == Append(<<A>>, k)
           x == <<A, k, key>>
<1>1. x = Append(at, key) /\ IsSeq(at)
  BY SlotAddresses
<1> HIDE DEF at, x
<1>2. ReadsBack(s, at, key, x)
  BY <1>1, ReadBack
<1> QED
  BY <1>2 DEF at, x

\* A function whose members are all stored.
LEMMA FnBack ==
  ASSUME NEW s, NEW k, NEW fn \in DocFns, FnIn(s, Append(<<"fns">>, k), fn)
  PROVE  FnRead(s, k) = fn
<1> DEFINE at == Append(<<"fns">>, k)
           name == Stored(s, <<"fns", k, "name">>, "")
           id == At(s, <<"fns", k, "id">>, ZeroFn.id)
           type == At(s, <<"fns", k, "type">>, ZeroFn.type)
           phase == At(s, <<"fns", k, "phase">>, ZeroFn.phase)
           in == Ids(s, <<"fns", k, "in_dp_ids">>)
           out == Ids(s, <<"fns", k, "out_dp_ids">>)
<1>1. /\ fn = [used |-> TRUE, id |-> fn.id, type |-> fn.type, phase |-> fn.phase,
               in |-> fn.in, out |-> fn.out]
      /\ fn.in \in Seq(Int) /\ fn.out \in Seq(Int)
  BY DEF DocFns, IdArrays
<1>2. \A key : <<"fns", k, key>> = Append(at, key) /\ IsSeq(at)
  BY SlotAddresses
<1>3. /\ StoredAt(s, Append(at, "id"), <<"int", fn.id>>)
      /\ StoredAt(s, Append(at, "name"), "f")
      /\ StoredAt(s, Append(at, "type"), <<"int", fn.type>>)
      /\ StoredAt(s, Append(at, "phase"), <<"int", fn.phase>>)
      /\ IdsIn(s, Append(at, "in_dp_ids"), fn.in)
      /\ IdsIn(s, Append(at, "out_dp_ids"), fn.out)
  BY DEF FnIn
<1> HIDE DEF at
<1>4. \A key, v, zero : /\ StoredAt(s, Append(at, key), v) => Stored(s, <<"fns", k, key>>, zero) = v
                        /\ StoredAt(s, Append(at, key), <<"int", v>>) => At(s, <<"fns", k, key>>, zero) = v
  <2> TAKE key, v, zero
  <2>1. ReadsBack(s, at, key, <<"fns", k, key>>)
    BY SlotBack DEF at
  <2> QED
    BY <2>1, Zenon DEF ReadsBack
<1>5. name = "f" /\ id = fn.id /\ type = fn.type /\ phase = fn.phase
  BY <1>3, <1>4, Zenon
<1>6. in = fn.in /\ out = fn.out
  <2>1. \A key, ids : ids \in Seq(Int) /\ IdsIn(s, Append(at, key), ids) => Ids(s, <<"fns", k, key>>) = ids
    BY SlotBack, Zenon DEF at, ReadsBack
  <2> QED
    BY <1>1, <1>3, <2>1, Zenon
<1>7. FnRead(s, k) = [used |-> name # "", id |-> id, type |-> type, phase |-> phase,
                      in |-> in, out |-> out]
  BY DEF FnRead
<1> HIDE DEF name, id, type, phase, in, out
<1>8. (name # "") = TRUE
  BY <1>5
<1> QED
  BY <1>1, <1>5, <1>6, <1>7, <1>8, Zenon

\* A datapoint whose members are all stored.
LEMMA DpBack ==
  ASSUME NEW s, NEW k, NEW dp \in DocDps, DpIn(s, Append(<<"dps">>, k), dp)
  PROVE  DpRead(s, k) = Reread(dp)
<1> DEFINE at == Append(<<"dps">>, k)
           name == Stored(s, <<"dps", k, "name">>, "")
           id == At(s, <<"dps", k, "id">>, ZeroDp.id)
           type == At(s, <<"dps", k, "type">>, ZeroDp.type)
           emitted == At(s, <<"dps", k, "emitted">>, 0)
           value == Stored(s, <<"dps", k, "value">>, ZeroDp.value)
           bit == IF dp.emitted THEN 1 ELSE 0
<1>1. /\ dp = [used |-> TRUE, id |-> dp.id, type |-> dp.type, emitted |-> dp.emitted,
               value |-> dp.value]
      /\ dp.emitted \in BOOLEAN
  BY DEF DocDps
<1>2. \A key : <<"dps", k, key>> = Append(at, key) /\ IsSeq(at)
  BY SlotAddresses
<1>3. /\ StoredAt(s, Append(at, "id"), <<"int", dp.id>>)
      /\ StoredAt(s, Append(at, "name"), "d")
      /\ StoredAt(s, Append(at, "type"), <<"int", dp.type>>)
      /\ StoredAt(s, Append(at, "emitted"), <<"int", bit>>)
      /\ IsLost(dp) => Fresh(s, at, "value")
      /\ ~IsLost(dp) => StoredAt(s, Append(at, "value"), Reread(dp).value)
  BY DEF DpIn
<1> HIDE DEF at, bit
<1>4. \A key, v, zero : /\ StoredAt(s, Append(at, key), v) => Stored(s, <<"dps", k, key>>, zero) = v
                        /\ StoredAt(s, Append(at, key), <<"int", v>>) => At(s, <<"dps", k, key>>, zero) = v
                        /\ Fresh(s, at, key) => Stored(s, <<"dps", k, key>>, zero) = zero
  <2> TAKE key, v, zero
  <2>1. ReadsBack(s, at, key, <<"dps", k, key>>)
    BY SlotBack DEF at
  <2> QED
    BY <2>1, Zenon DEF ReadsBack
<1>5. name = "d" /\ id = dp.id /\ type = dp.type /\ emitted = bit
  BY <1>3, <1>4, ZenonT(60)
<1>6. value = IF IsLost(dp) THEN ZeroDp.value ELSE Reread(dp).value
  <2>1. IsLost(dp) => value = ZeroDp.value
    BY <1>3, <1>4, Zenon
  <2>2. ~IsLost(dp) => value = Reread(dp).value
    BY <1>3, <1>4, Zenon
  <2> QED
    BY <2>1, <2>2, Zenon
<1>7. DpRead(s, k) = [used |-> name # "", id |-> id, type |-> type, emitted |-> emitted # 0,
                      value |-> value]
  BY DEF DpRead
<1>8. Reread(dp) = [used |-> TRUE, id |-> dp.id, type |-> dp.type, emitted |-> dp.emitted,
                    value |-> IF IsLost(dp) THEN ZeroDp.value ELSE Reread(dp).value]
  <2>1. \/ Reread(dp) = dp /\ ~IsLost(dp)
        \/ ~IsLost(dp) /\ \E v : Reread(dp) = [dp EXCEPT !.value = v]
        \/ IsLost(dp) /\ Reread(dp) = [dp EXCEPT !.value = ZeroDp.value]
    BY Zenon DEF Reread, IsLost
  <2>2. \A v : [dp EXCEPT !.value = v] = [used |-> TRUE, id |-> dp.id, type |-> dp.type,
                                          emitted |-> dp.emitted, value |-> v]
    <3> TAKE v
    <3>1. PICK u : u = TRUE
      OBVIOUS
    <3>2. PICK i, t, e, w : i = dp.id /\ t = dp.type /\ e = dp.emitted /\ w = dp.value
      OBVIOUS
    <3>3. dp = DpOf(u, i, t, e, w)
      BY <1>1, <3>1, <3>2, Zenon DEF DpOf
    <3>4. [DpOf(u, i, t, e, w) EXCEPT !.value = v] = DpOf(u, i, t, e, v)
      BY With
    <3>5. [dp EXCEPT !.value = v] = DpOf(u, i, t, e, v)
      BY <3>3, <3>4, Zenon
    <3> QED
      BY <3>1, <3>2, <3>5, Zenon DEF DpOf
  <2>3. CASE Reread(dp) = dp /\ ~IsLost(dp)
    BY <1>1, <2>3, Zenon
  <2>4. CASE ~IsLost(dp) /\ \E v : Reread(dp) = [dp EXCEPT !.value = v]
    BY <2>2, <2>4
  <2>5. CASE IsLost(dp) /\ Reread(dp) = [dp EXCEPT !.value = ZeroDp.value]
    BY <2>2, <2>5, Zenon
  <2> QED
    BY <2>1, <2>3, <2>4, <2>5
<1> HIDE DEF name, id, type, emitted, value
<1>9. (name # "") = TRUE /\ (emitted # 0) = dp.emitted
  <2>1. (name # "") = TRUE
    BY <1>5
  <2>2. emitted = IF dp.emitted THEN 1 ELSE 0
    BY <1>5 DEF bit
  <2>3. (emitted # 0) = dp.emitted
    BY <1>1, <2>2
  <2> QED
    BY <2>1, <2>3
<1> QED
  BY <1>5, <1>6, <1>7, <1>8, <1>9, Zenon

\* A slot of which only the id is stored, and one of which nothing is.
LEMMA IdBack ==
  ASSUME NEW A \in {"fns", "dps"}, NEW s, NEW k, NEW id, IdAlone(s, Append(<<A>>, k), id)
  PROVE  SlotRead(A, s, k) = [ZeroOf(A) EXCEPT !.id = id]
<1> DEFINE at == Append(<<A>>, k)
<1>1. \A key : <<A, k, key>> = Append(at, key) /\ IsSeq(at)
  BY SlotAddresses
<1>2. StoredAt(s, Append(at, "id"), <<"int", id>>) /\ \A key : key # "id" => Fresh(s, at, key)
  BY DEF IdAlone
<1> HIDE DEF at
<1>3. \A key, v, zero : /\ StoredAt(s, Append(at, key), <<"int", v>>) => At(s, <<A, k, key>>, zero) = v
                        /\ Fresh(s, at, key) => /\ Stored(s, <<A, k, key>>, zero) = zero
                                                /\ At(s, <<A, k, key>>, zero) = zero
                                                /\ Ids(s, <<A, k, key>>) = <<>>
  <2> TAKE key, v, zero
  <2>1. ReadsBack(s, at, key, <<A, k, key>>)
    BY SlotBack DEF at
  <2> QED
    BY <2>1, Zenon DEF ReadsBack
<1>4. \A zero : At(s, <<A, k, "id">>, zero) = id
  BY <1>2, <1>3
<1>5. \A key, zero : key # "id" => /\ Stored(s, <<A, k, key>>, zero) = zero
                                   /\ At(s, <<A, k, key>>, zero) = zero
                                   /\ Ids(s, <<A, k, key>>) = <<>>
  BY <1>2, <1>3
<1>6. CASE A = "fns"
  <2>1. SlotRead(A, s, k) = FnRead(s, k) /\ ZeroOf(A) = ZeroFn
    BY <1>6 DEF SlotRead, ZeroOf
  <2>2. FnRead(s, k) = [used |-> Stored(s, <<A, k, "name">>, "") # "",
                        id |-> At(s, <<A, k, "id">>, ZeroFn.id),
                        type |-> At(s, <<A, k, "type">>, ZeroFn.type),
                        phase |-> At(s, <<A, k, "phase">>, ZeroFn.phase),
                        in |-> Ids(s, <<A, k, "in_dp_ids">>),
                        out |-> Ids(s, <<A, k, "out_dp_ids">>)]
    BY <1>6 DEF FnRead
  <2>3. /\ Stored(s, <<A, k, "name">>, "") = "" /\ At(s, <<A, k, "id">>, ZeroFn.id) = id
        /\ At(s, <<A, k, "type">>, ZeroFn.type) = ZeroFn.type
        /\ At(s, <<A, k, "phase">>, ZeroFn.phase) = ZeroFn.phase
        /\ Ids(s, <<A, k, "in_dp_ids">>) = <<>> /\ Ids(s, <<A, k, "out_dp_ids">>) = <<>>
    BY <1>4, <1>5
  <2>4. FnRead(s, k) = [used |-> FALSE, id |-> id, type |-> ZeroFn.type, phase |-> ZeroFn.phase,
                        in |-> <<>>, out |-> <<>>]
    <3>1. (Stored(s, <<A, k, "name">>, "") # "") = FALSE
      BY <2>3
    <3> QED
      BY <2>2, <2>3, <3>1, Zenon
  <2>5. /\ ZeroFn.type = "none" /\ ZeroFn.phase = 0
        /\ [ZeroFn EXCEPT !.id = id] = [used |-> FALSE, id |-> id, type |-> "none", phase |-> 0,
                                        in |-> <<>>, out |-> <<>>]
    <3>1. PICK u : u = FALSE
      OBVIOUS
    <3>2. ZeroFn = FnOf(u, 0, "none", 0, <<>>, <<>>)
      BY <3>1, Zenon DEF ZeroFn, FnOf
    <3>3. [FnOf(u, 0, "none", 0, <<>>, <<>>) EXCEPT !.id = id] = FnOf(u, id, "none", 0, <<>>, <<>>)
      BY With
    <3>4. [ZeroFn EXCEPT !.id = id] = FnOf(u, id, "none", 0, <<>>, <<>>)
      BY <3>2, <3>3, Zenon
    <3>5. ZeroFn.type = "none" /\ ZeroFn.phase = 0
      BY DEF ZeroFn
    <3> QED
      BY <3>1, <3>4, <3>5, Zenon DEF FnOf
  <2> QED
    BY <2>1, <2>4, <2>5, Zenon
<1>7. CASE A = "dps"
  <2>1. SlotRead(A, s, k) = DpRead(s, k) /\ ZeroOf(A) = ZeroDp
    BY <1>7 DEF SlotRead, ZeroOf
  <2>2. DpRead(s, k) = [used |-> Stored(s, <<A, k, "name">>, "") # "",
                        id |-> At(s, <<A, k, "id">>, ZeroDp.id),
                        type |-> At(s, <<A, k, "type">>, ZeroDp.type),
                        emitted |-> At(s, <<A, k, "emitted">>, 0) # 0,
                        value |-> Stored(s, <<A, k, "value">>, ZeroDp.value)]
    BY <1>7 DEF DpRead
  <2>3. /\ Stored(s, <<A, k, "name">>, "") = "" /\ At(s, <<A, k, "id">>, ZeroDp.id) = id
        /\ At(s, <<A, k, "type">>, ZeroDp.type) = ZeroDp.type
        /\ At(s, <<A, k, "emitted">>, 0) = 0
        /\ Stored(s, <<A, k, "value">>, ZeroDp.value) = ZeroDp.value
    BY <1>4, <1>5
  <2>4. DpRead(s, k) = [used |-> FALSE, id |-> id, type |-> ZeroDp.type, emitted |-> FALSE,
                        value |-> ZeroDp.value]
    <3>1. (Stored(s, <<A, k, "name">>, "") # "") = FALSE /\ (At(s, <<A, k, "emitted">>, 0) # 0) = FALSE
      BY <2>3
    <3> QED
      BY <2>2, <2>3, <3>1, Zenon
  <2>5. /\ ZeroDp.type = "none" /\ ZeroDp.value = FALSE
        /\ [ZeroDp EXCEPT !.id = id] = [used |-> FALSE, id |-> id, type |-> "none",
                                        emitted |-> FALSE, value |-> FALSE]
    <3>1. PICK u : u = FALSE
      OBVIOUS
    <3>2. ZeroDp = DpOf(u, 0, "none", u, u)
      BY <3>1, Zenon DEF ZeroDp, DpOf
    <3>3. [DpOf(u, 0, "none", u, u) EXCEPT !.id = id] = DpOf(u, id, "none", u, u)
      BY With
    <3>4. [ZeroDp EXCEPT !.id = id] = DpOf(u, id, "none", u, u)
      BY <3>2, <3>3, Zenon
    <3>5. ZeroDp.type = "none" /\ ZeroDp.value = FALSE
      BY DEF ZeroDp
    <3> QED
      BY <3>1, <3>4, <3>5, Zenon DEF DpOf
  <2> QED
    BY <2>1, <2>4, <2>5, Zenon
<1> QED
  BY <1>6, <1>7

\* What is the same below a slot is read as the same, and what is fresh as zero.
LEMMA SameBack ==
  ASSUME NEW A \in {"fns", "dps"}, NEW s, NEW t, NEW k, SameIn(s, t, <<A>>, k)
  PROVE  SlotRead(A, s, k) = SlotRead(A, t, k)
<1> DEFINE at == Append(<<A>>, k)
<1>1. ASSUME NEW key
      PROVE  LET x == <<A, k, key>>
             IN  /\ \A zero : Stored(s, x, zero) = Stored(t, x, zero) /\ At(s, x, zero) = At(t, x, zero)
                 /\ Ids(s, x) = Ids(t, x)
  <2> DEFINE x == <<A, k, key>>
  <2>1. x = Append(at, key) /\ IsSeq(at) /\ IsSeq(<<A>>)
    BY SlotAddresses
  <2>2. Inner(x, <<A>>, k) /\ \A i : Inner(Append(x, i), <<A>>, k)
    <3>1. /\ Inner(Append(at, key), at, key)
          /\ \A i : Inner(Append(Append(at, key), i), at, key)
      BY <2>1, InnerFacts
    <3>2. \A y : Inner(y, at, key) => Inner(y, <<A>>, k)
      BY <2>1, InnerFacts
    <3> QED
      BY <2>1, <3>1, <3>2
  <2> HIDE DEF x
  <2>3. Same(s, t, x) /\ \A i : Same(s, t, Append(x, i))
    BY <2>2 DEF SameIn
  <2>4. Count(s, x) = Count(t, x)
    BY <2>3 DEF Count, Same
  <2>5. \A zero, y : Same(s, t, y) => Stored(s, y, zero) = Stored(t, y, zero) /\ At(s, y, zero) = At(t, y, zero)
    BY DEF Same, Stored, At
  <2>6. \A zero, i : At(s, Append(x, i), zero) = At(t, Append(x, i), zero)
    BY <2>3, <2>5
  <2>7. Ids(s, x) = Ids(t, x)
    BY <2>4, <2>6 DEF Ids
  <2> QED
    BY <2>3, <2>5, <2>7 DEF x
<1>2. CASE A = "fns"
  <2>1. FnRead(s, k) = FnRead(t, k)
    BY <1>1, <1>2 DEF FnRead
  <2> QED
    BY <1>2, <2>1 DEF SlotRead
<1>3. CASE A = "dps"
  <2>1. DpRead(s, k) = DpRead(t, k)
    BY <1>1, <1>3 DEF DpRead
  <2> QED
    BY <1>3, <2>1 DEF SlotRead
<1> QED
  BY <1>2, <1>3

\* A slot that nothing was stored in reads as the empty block.
LEMMA FreshBack ==
  ASSUME NEW A \in {"fns", "dps"}, NEW s, NEW k, Fresh(s, <<A>>, k)
  PROVE  SlotRead(A, s, k) = ZeroOf(A)
<1> DEFINE at == Append(<<A>>, k)
<1>1. \A key : Fresh(s, at, key)
  BY SlotAddresses, FreshMembers
<1> HIDE DEF at
<1>2. \A key, zero : /\ Stored(s, <<A, k, key>>, zero) = zero
                     /\ At(s, <<A, k, key>>, zero) = zero
                     /\ Ids(s, <<A, k, key>>) = <<>>
  <2> TAKE key, zero
  <2>1. ReadsBack(s, at, key, <<A, k, key>>)
    BY SlotBack DEF at
  <2> QED
    BY <1>1, <2>1, Zenon DEF ReadsBack
<1>3. CASE A = "fns"
  <2>1. FnRead(s, k) = [used |-> "" # "", id |-> ZeroFn.id, type |-> ZeroFn.type,
                        phase |-> ZeroFn.phase, in |-> <<>>, out |-> <<>>]
    BY <1>2, <1>3, Zenon DEF FnRead
  <2>2. ("" # "") = FALSE
    OBVIOUS
  <2>3. FnRead(s, k) = [used |-> FALSE, id |-> ZeroFn.id, type |-> ZeroFn.type,
                        phase |-> ZeroFn.phase, in |-> <<>>, out |-> <<>>]
    BY <2>1, <2>2, Zenon
  <2>4. ZeroFn.id = 0 /\ ZeroFn.type = "none" /\ ZeroFn.phase = 0
    BY DEF ZeroFn
  <2>5. FnRead(s, k) = ZeroFn
    BY <2>3, <2>4, Zenon DEF ZeroFn
  <2> QED
    BY <1>3, <2>5 DEF SlotRead, ZeroOf
<1>4. CASE A = "dps"
  <2>1. DpRead(s, k) = [used |-> "" # "", id |-> ZeroDp.id, type |-> ZeroDp.type,
                        emitted |-> 0 # 0, value |-> ZeroDp.value]
    BY <1>2, <1>4, Zenon DEF DpRead
  <2>2. ("" # "") = FALSE /\ (0 # 0) = FALSE
    OBVIOUS
  <2>3. DpRead(s, k) = [used |-> FALSE, id |-> ZeroDp.id, type |-> ZeroDp.type,
                        emitted |-> FALSE, value |-> ZeroDp.value]
    BY <2>1, <2>2, Zenon
  <2>4. ZeroDp.id = 0 /\ ZeroDp.type = "none" /\ ZeroDp.value = FALSE
    BY DEF ZeroDp
  <2>5. DpRead(s, k) = ZeroDp
    BY <2>3, <2>4, Zenon DEF ZeroDp
  <2> QED
    BY <1>4, <2>5 DEF SlotRead, ZeroOf
<1> QED
  BY <1>3, <1>4

-----------------------------------------------------------------------------
(* The text of a block *)

MembersOf(A, block) == IF A = "fns" THEN FnMembers(block) ELSE DpMembers(block)
IdOnly(A, block) == [ZeroOf(A) EXCEPT !.id = block.id]

\* What is between the braces of a block.
LEMMA MembersRead ==
  ASSUME NEW A \in {"fns", "dps"}, NEW F, NEW k, NEW max,
         BlockAt(F, BlockList(A).kids[1], <<A>>, k, max), k <= max,
         NEW a, NEW s, AtKey(a, F, s), Count(s, <<A>>) = k - 1, Fresh(s, <<A>>, k),
         NEW block \in BlocksOf(A)
  PROVE  \E w, t : /\ Reads(MembersOf(A, block), a, w) /\ Written(s, t, <<A>>, k)
                   /\ k < max => Ends(w, F, t) /\ SlotRead(A, t, k) = Back(A, block)
                   /\ k = max => Held(w, t) /\ SlotRead(A, t, k) = IdOnly(A, block)
<1>1. k \in Nat /\ max \in Nat
  BY DEF BlockAt
<1>2. A = "fns" => /\ BlockList(A).kids[1] = FnSpec /\ block \in DocFns
                   /\ MembersOf(A, block) = FnMembers(block) /\ Back(A, block) = block
                   /\ \A t : SlotRead(A, t, k) = FnRead(t, k)
  BY DEF BlockList, Array, BlocksOf, MembersOf, Back, SlotRead
<1>3. A = "dps" => /\ BlockList(A).kids[1] = DpSpec /\ block \in DocDps
                   /\ MembersOf(A, block) = DpMembers(block) /\ Back(A, block) = Reread(block)
                   /\ \A t : SlotRead(A, t, k) = DpRead(t, k)
  BY DEF BlockList, Array, BlocksOf, MembersOf, Back, SlotRead
<1>4. \A t : IdAlone(t, Append(<<A>>, k), block.id) => SlotRead(A, t, k) = IdOnly(A, block)
  BY IdBack DEF IdOnly
<1>5. CASE A = "fns" /\ k < max
  <2>1. PICK w, t : /\ Reads(FnMembers(block), a, w) /\ Ends(w, F, t)
                    /\ Written(s, t, <<A>>, k) /\ FnIn(t, Append(<<A>>, k), block)
    BY <1>2, <1>5, FnReads
  <2>2. FnRead(t, k) = block
    BY <1>2, <1>5, <2>1, FnBack
  <2>3. Reads(MembersOf(A, block), a, w) /\ SlotRead(A, t, k) = Back(A, block)
    BY <1>2, <1>5, <2>1, <2>2, Zenon
  <2> QED
    BY <1>1, <1>5, <2>1, <2>3
<1>6. CASE A = "fns" /\ k = max
  <2>1. PICK w, t : /\ Reads(FnMembers(block), a, w) /\ Held(w, t)
                    /\ Written(s, t, <<A>>, k) /\ IdAlone(t, Append(<<A>>, k), block.id)
    BY <1>2, <1>6, FnRefused
  <2>2. Reads(MembersOf(A, block), a, w) /\ SlotRead(A, t, k) = IdOnly(A, block)
    BY <1>2, <1>4, <1>6, <2>1, Zenon
  <2> QED
    BY <1>1, <1>6, <2>1, <2>2
<1>7. CASE A = "dps" /\ k < max
  <2>1. PICK w, t : /\ Reads(DpMembers(block), a, w) /\ Ends(w, F, t)
                    /\ Written(s, t, <<A>>, k) /\ DpIn(t, Append(<<A>>, k), block)
    BY <1>3, <1>7, DpReads
  <2>2. DpRead(t, k) = Reread(block)
    BY <1>3, <1>7, <2>1, DpBack
  <2>3. Reads(MembersOf(A, block), a, w) /\ SlotRead(A, t, k) = Back(A, block)
    BY <1>3, <1>7, <2>1, <2>2, Zenon
  <2> QED
    BY <1>1, <1>7, <2>1, <2>3
<1>8. CASE A = "dps" /\ k = max
  <2>1. PICK w, t : /\ Reads(DpMembers(block), a, w) /\ Held(w, t)
                    /\ Written(s, t, <<A>>, k) /\ IdAlone(t, Append(<<A>>, k), block.id)
    BY <1>3, <1>8, DpRefused
  <2>2. Reads(MembersOf(A, block), a, w) /\ SlotRead(A, t, k) = IdOnly(A, block)
    BY <1>3, <1>4, <1>8, <2>1, Zenon
  <2> QED
    BY <1>1, <1>8, <2>1, <2>2
<1>9. k < max \/ k = max
  BY <1>1
<1> QED
  BY <1>5, <1>6, <1>7, <1>8, <1>9

\* The object of a grid, and one of its two arrays of blocks.
GridAt(G) == /\ ObjectOpen(G) /\ Len(G.stack) + 3 < Depth
             /\ G.levels[Len(G.stack)].node = RootSpec
             /\ \A key : Place(G, key) = <<key>>
At1(G, A, i) == Listed(G, A, BlockList(A), i)
Room(A) == BlockList(A).maxitems

\* The specifications of the two arrays of blocks.
LEMMA BlockLists ==
  ASSUME NEW A \in {"fns", "dps"}
  PROVE  LET node == BlockList(A)
         IN  /\ node.vtype = "ARRAY" /\ node.kids[1].vtype = "OBJECT"
             /\ node.maxitems \in Nat \ {0} /\ A # NoKey
BY SizesAssumption DEF BlockList, Array, FnSpec, DpSpec, Object, NoKey

\* Before a block, i of which are read already, and behind it.
BeforeBlock(a, G, A, i, s) ==
  /\ i \in Nat /\ i < Room(A) /\ \E st \in {"AR", "VA"} : AtItem(a, At1(G, A, i), st, s)
  /\ Count(s, <<A>>) = i /\ Fresh(s, <<A>>, i + 1)
BehindBlock(w, G, A, i, s, t, block) ==
  /\ Written(s, t, <<A>>, i + 1)
  /\ i + 1 < Room(A) =>
       Settled(w, At1(G, A, i + 1), t) /\ SlotRead(A, t, i + 1) = Back(A, block)
  /\ i + 1 = Room(A) => Held(w, t) /\ SlotRead(A, t, i + 1) = IdOnly(A, block)

\* A block, with its braces.
LEMMA BlockReads ==
  ASSUME NEW G, GridAt(G), NEW A \in {"fns", "dps"}, NEW i, NEW a, NEW s,
         BeforeBlock(a, G, A, i, s), NEW block \in BlocksOf(A)
  PROVE  \E w, t : /\ Reads(TextOf(A, block), a, w)
                   /\ BehindBlock(w, G, A, i, s, t, block)
<1>0. PICK st \in {"AR", "VA"} :
         /\ i \in Nat /\ i < Room(A) /\ AtItem(a, At1(G, A, i), st, s)
         /\ Count(s, <<A>>) = i /\ Fresh(s, <<A>>, i + 1)
  BY DEF BeforeBlock
<1> SUFFICES
      \E w, t :
        /\ Reads(TextOf(A, block), a, w) /\ Written(s, t, <<A>>, i + 1)
        /\ i + 1 < Room(A) =>
             Settled(w, At1(G, A, i + 1), t) /\ SlotRead(A, t, i + 1) = Back(A, block)
        /\ i + 1 = Room(A) => Held(w, t) /\ SlotRead(A, t, i + 1) = IdOnly(A, block)
  BY DEF BehindBlock
<1> USE <1>0
<1> DEFINE node == BlockList(A)
           max == Room(A)
           k == i + 1
           F == Block(G, A, node, i)
           J == At1(G, A, k)
           item == Numbered("OBJECT", i)
           level == Lev(node.kids[1], Append(Place(G, A), i + 1))
           X == MembersOf(A, block)
           open == <<Mark("{")>>
           close == <<Mark("}")>>
<1>1. /\ ObjectOpen(G) /\ Context(G) /\ Len(G.stack) + 3 < Depth /\ Len(G.stack) \in Nat
      /\ Place(G, A) = <<A>>
  BY StackInside DEF GridAt, ObjectOpen
<1>2. /\ node.vtype = "ARRAY" /\ node.kids[1].vtype = "OBJECT" /\ node.maxitems \in Nat
      /\ max = node.maxitems /\ max \in Nat
  BY BlockLists DEF Room
<1>3. IsSeq(<<A>>)
  BY SlotAddresses
<1>4. BlockAt(F, node.kids[1], <<A>>, k, max)
  <2> HIDE DEF node
  <2>1. BlockAt(F, node.kids[1], Place(G, A), k, node.maxitems)
    BY <1>1, <1>2, <1>3, BlockFacts
  <2> QED
    BY <1>1, <1>2, <2>1
<1>5. TextOf(A, block) = open \o X \o close
  <2>1. FnText(block) = Braces(FnMembers(block)) /\ DpText(block) = Braces(DpMembers(block))
    BY DEF FnText, FnMembers, DpText, DpMembers
  <2> QED
    BY <2>1 DEF TextOf, MembersOf, Braces
<1>6. PICK b : Reads(open, a, b) /\ AtKey(b, F, s)
  <2>1. AtItem(a, Listed(G, A, node, i), st, s)
    BY DEF At1
  <2>2. Len(G.stack) + 2 < Depth
    BY <1>1, DepthAssumption
  <2> HIDE DEF node
  <2> QED
    BY <1>1, <1>2, <2>1, <2>2, BlockOpens
<1>7. PICK w, t : /\ Reads(X, b, w) /\ Written(s, t, <<A>>, k)
                  /\ k < max => Ends(w, F, t) /\ SlotRead(A, t, k) = Back(A, block)
                  /\ k = max => Held(w, t) /\ SlotRead(A, t, k) = IdOnly(A, block)
  <2>1. /\ BlockAt(F, BlockList(A).kids[1], <<A>>, k, max) /\ k <= max
        /\ AtKey(b, F, s) /\ Count(s, <<A>>) = k - 1 /\ Fresh(s, <<A>>, k)
    <3>1. k <= max /\ Count(s, <<A>>) = k - 1
      BY <1>2
    <3> HIDE DEF F, max
    <3> QED
      BY <1>4, <1>6, <3>1
  <2> HIDE DEF F, max, k, node
  <2>2. \E w, t : /\ Reads(MembersOf(A, block), b, w) /\ Written(s, t, <<A>>, k)
                  /\ k < max => Ends(w, F, t) /\ SlotRead(A, t, k) = Back(A, block)
                  /\ k = max => Held(w, t) /\ SlotRead(A, t, k) = IdOnly(A, block)
    BY <2>1, MembersRead
  <2> QED
    BY <2>2
<1>8. CASE k = max
  <2>1. IsSeq(close)
    <3>1. close \in Seq({Mark("}")})
      OBVIOUS
    <3> QED
      BY <3>1 DEF IsSeq
  <2>2. Reads(open \o X, a, w) /\ Held(w, t)
    BY <1>6, <1>7, <1>8, Then
  <2> HIDE DEF open, X, close
  <2>3. Reads(open \o X \o close, a, w)
    BY <2>1, <2>2, MoreHeld
  <2> HIDE DEF k, max
  <2>4. ~(k < max)
    BY <1>2, <1>8
  <2> QED
    BY <1>5, <1>7, <1>8, <2>2, <2>3, <2>4 DEF k, max
<1>9. CASE k # max
  <2>1. k < max
    BY <1>2, <1>9
  <2>2. Context(J)
    <3> HIDE DEF node, k
    <3> QED
      BY <1>1, ListedFacts DEF At1, node
  <2>3. F = Inside(J, "OBJECT", item, level) /\ item.type # "LEAF"
    BY DEF Block, At1, Numbered
  <2>4. ObjectOpen(F)
    BY <1>4 DEF BlockAt
  <2>5. Ends(w, F, t)
    BY <1>7, <2>1
  <2> HIDE DEF F, item, level, J, X
  <2>6. PICK c : Reads(close, w, c) /\ Settled(c, J, t)
    BY <2>2, <2>3, <2>4, <2>5, CloseRead
  <2>7. Reads(open \o X \o close, a, c)
    BY <1>6, <1>7, <2>6, Then
  <2> HIDE DEF open, close
  <2> QED
    BY <1>5, <1>7, <1>9, <2>1, <2>6, <2>7 DEF J
<1> QED
  BY <1>8, <1>9
=============================================================================
