--------------------------- MODULE ClientTimeline ---------------------------
(***************************************************************************)
(* What the loads of the client risk history promise each other, without    *)
(* rows, windows, transactions or quarantine: a client's timeline is the    *)
(* set of versions recorded for it, by lsn (0 is the baseline), with the    *)
(* mark up to which its changes have been taken in, and each fact is pinned *)
(* to a version.                                                            *)
(*                                                                          *)
(* Each load may do one thing to it and no other: the streaming apply adds  *)
(* above the mark, the seed puts a baseline under clients without changes,  *)
(* the reload rewrites from a point on and may only gain versions, the fact *)
(* load pins.  A load is one step, for all clients it touches.              *)
(***************************************************************************)
EXTENDS Integers

CONSTANTS Clients, Facts, ClientOf


NoMark == -1

VARIABLES recorded, mark, pins

timeline == <<recorded, mark, pins>>

PinnedFacts == DOMAIN pins

Init ==
    /\ recorded = [c \in Clients |-> {}]
    /\ mark = [c \in Clients |-> NoMark]
    /\ pins = [x \in {} |-> 0]

Changes(c) == {l \in recorded[c] : l > 0}

Highest(S, l) == l \in S /\ \A m \in S : m <= l

\* The streaming apply: only changes above the mark are recorded, and the
\* mark moves to the highest of them.
AppendTo(c) ==
    LET new == recorded'[c] \ recorded[c] IN
    /\ recorded[c] \subseteq recorded'[c]
    /\ \A l \in new : l > 0 /\ l > mark[c]
    /\ IF new = {} THEN mark'[c] = mark[c] ELSE Highest(new, mark'[c])

Append ==
    /\ \A c \in Clients : AppendTo(c)
    /\ pins' = pins

\* The seed: a baseline for clients without changes, whose facts may move
\* from their stopgaps to it.
SeedBaselines ==
    /\ \A c \in Clients :
          \/ recorded'[c] = recorded[c]
          \/ Changes(c) = {} /\ recorded'[c] = recorded[c] \cup {0}
    /\ mark' = mark
    /\ DOMAIN pins' = PinnedFacts
    /\ \A x \in PinnedFacts :
          \/ pins'[x] = pins[x]
          \/ /\ pins[x] < 0 /\ pins'[x] = 0
             /\ Changes(ClientOf[x]) = {} /\ 0 \in recorded'[ClientOf[x]]

\* The fact load: facts are pinned to recorded versions, or to a stopgap
\* while their client has no version.
PinFacts ==
    /\ UNCHANGED <<recorded, mark>>
    /\ PinnedFacts \subseteq DOMAIN pins'
    /\ \A x \in DOMAIN pins' :
          \/ pins'[x] \in recorded[ClientOf[x]]
          \/ pins'[x] < 0

Untouched(c) ==
    /\ recorded'[c] = recorded[c] /\ mark'[c] = mark[c]
    /\ \A x \in PinnedFacts : ClientOf[x] = c => pins'[x] = pins[x]

\* The reload of one client from a change on: what lies before stays, also
\* the facts pinned to it; what was recorded from there on is recorded
\* again; and the mark is that of the last change.
RebuiltFrom(c, from) ==
    /\ recorded[c] \subseteq recorded'[c]
    /\ \A l \in recorded'[c] \ recorded[c] : from <= l
    /\ mark[c] <= mark'[c]
    /\ mark'[c] # mark[c] => Highest(recorded'[c], mark'[c])
    /\ \A x \in PinnedFacts : ClientOf[x] = c /\ pins'[x] # pins[x] =>
          /\ from <= pins[x]
          /\ pins'[x] \in recorded'[c] \/ pins'[x] < 0

Rebuild ==
    /\ DOMAIN pins' = PinnedFacts
    /\ \A c \in Clients :
          Untouched(c) \/ \E from \in recorded'[c] : from > 0 /\ RebuiltFrom(c, from)

Next == Append \/ SeedBaselines \/ PinFacts \/ Rebuild

Spec == Init /\ [][Next]_timeline
=============================================================================
