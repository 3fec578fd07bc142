---------------------------- MODULE MCHistorySync ----------------------------
(* Instances of HistorySync small enough for TLC. *)
EXTENDS HistorySync, TLC

CONSTANTS r1, r2, w1, w2, w3

(* Names are interchangeable: the first relay of the account is r1 and the *)
(* first wraps w1, w2.  One relay is explored with all wraps, and with one *)
(* while the app may go to the background; two with one wrap, one of their *)
(* passes running at a time and a shorter clock.  Something that goes wrong *)
(* is explored with all wraps and a shorter clock; once a read has left a  *)
(* wrap out, with one relay and one wrap.                                  *)
Involved == relays \union {r \in Relay : cursor[r].exists \/ On(r) # {}}
Ordered == \A pair \in {<<w1, w2>>, <<w2, w3>>} \intersect (Wrap \X Wrap) :
  date[pair[1]] = 0 => date[pair[2]] = 0
Bounded ==
  /\ r1 \in Involved /\ Ordered
  /\ date[w3] = 0 \/ events = 0 \/ now < 3
  /\ \/ \A r \in Relay : missed[r] = {}
     \/ events = 0
     \/ Involved = {r1} /\ date[w2] = 0
  /\ \/ Involved = {r1} /\ (active \/ date[w2] = 0)
     \/ /\ active /\ date[w2] = 0 /\ now < 3
        /\ Cardinality({r \in Relay : task[r].pc # "idle"}) <= 1
=============================================================================
