---------------------------- MODULE SpfgDataflow ----------------------------
(***************************************************************************)
(* What a grid promises to a client that composes it, feeds its sources    *)
(* and runs cycles (README.md, "Abstraction Model"): no cursor, no index,  *)
(* no emitted flags.  A network of functions computes, between two feeds,  *)
(* one function at a time, each one only after all that it depends on,     *)
(* until every output agrees with its inputs.                              *)
(***************************************************************************)
EXTENDS Integers, Sequences, Functions

CONSTANT Datapoint

VARIABLES net,    \* the functions, records [in, out] of sequences of datapoints
          val,    \* the value of each datapoint
          stage   \* "compose", "feed" or "work"

dataflowVars == <<net, val, stage>>

Init == /\ net = {}
        /\ val = [d \in Datapoint |-> FALSE]
        /\ stage = "compose"

-----------------------------------------------------------------------------
Written == UNION {Range(n.out) : n \in net}
Feeds(n, m) == Range(n.out) \cap Range(m.in) # {}
Result(n) == \A d \in Range(n.in) : val[d]
Settled(n) == \A d \in Range(n.out) : val[d] = Result(n)

\* No set of functions, however small, feeds itself.
Acyclic(N) == \A S \in SUBSET N : S # {} => \E m \in S : \A n \in S : ~Feeds(n, m)

\* A function is added: nothing else writes its output, and it closes no cycle.
Compose(n) == /\ stage = "compose"
              /\ Range(n.out) \cap Written = {}
              /\ Acyclic(net \cup {n})
              /\ net' = net \cup {n}
              /\ UNCHANGED <<val, stage>>

Open == stage = "compose" /\ stage' = "feed" /\ UNCHANGED <<net, val>>

\* Only a datapoint that no function writes is fed.
Feed(d, v) == /\ stage = "feed"
              /\ d \notin Written
              /\ val' = [val EXCEPT ![d] = v]
              /\ UNCHANGED <<net, stage>>

Start == stage = "feed" /\ stage' = "work" /\ UNCHANGED <<net, val>>

\* No glitches: a function computes when everything it depends on is settled.
Work(n) == /\ stage = "work"
           /\ \A m \in net : Feeds(m, n) => Settled(m)
           /\ ~Settled(n)
           /\ val' = [d \in Datapoint |-> IF d \in Range(n.out) THEN Result(n)
                                         ELSE val[d]]
           /\ UNCHANGED <<net, stage>>

Settle == /\ stage = "work"
          /\ \A n \in net : Settled(n)
          /\ stage' = "feed"
          /\ UNCHANGED <<net, val>>

Next == \/ \E i \in Datapoint \X Datapoint, o \in Datapoint :
             Compose([in |-> i, out |-> <<o>>])
        \/ Open
        \/ \E d \in Datapoint, v \in BOOLEAN : Feed(d, v)
        \/ Start
        \/ \E n \in net : Work(n)
        \/ Settle

Spec == Init /\ [][Next]_dataflowVars
=============================================================================
