--------------------------- MODULE AtomicPublication --------------------------
(***************************************************************************)
(* What the publication store promises its readers, with no attempts,      *)
(* parts, leases or cleanup: the records of a Session change either by     *)
(* legacy writes, before the Session is a publication source, or by one    *)
(* atomic publication.  A publication is an explicit set of records and a  *)
(* set of Threads inherited from what readers saw the moment before; it is *)
(* made once, replaces exactly the head its receipt names as base, and is  *)
(* never made to a deleted Session.                                        *)
(***************************************************************************)
EXTENDS Naturals

CONSTANTS
  Sessions,
  Ids,
  Contents,  \* publishable contents: explicit records and inherited Threads
  Null

VARIABLES
  mode,      \* who may write the Session: "legacy" or "publication"
  closed,    \* deleted Sessions
  head,      \* the selected publication, Null before the first
  visible,   \* the records readers see
  receipts   \* what each publication published, Null before it happened

vars == <<mode, closed, head, visible, receipts>>

KeysIn(S) == {m.key : m \in S}

Init ==
  /\ mode = [s \in Sessions |-> "legacy"]
  /\ closed = {}
  /\ head = [s \in Sessions |-> Null]
  /\ visible = [s \in Sessions |-> {}]
  /\ receipts = [i \in Ids |-> Null]

\* A legacy write keeps every Thread and never goes back in revision.
LegacyWrite(s) ==
  /\ mode[s] = "legacy" /\ s \notin closed
  /\ \A m \in visible[s] : \E n \in visible'[s] :
       n.key = m.key /\ (n = m \/ n.rev > m.rev)
  /\ visible' = [visible EXCEPT ![s] = visible'[s]]
  /\ UNCHANGED <<mode, closed, head, receipts>>

EnterPublication(s) ==
  /\ mode[s] = "legacy" /\ s \notin closed
  /\ mode' = [mode EXCEPT ![s] = "publication"]
  /\ UNCHANGED <<closed, head, visible, receipts>>

Publish(s, i, c) ==
  /\ mode[s] = "publication" /\ s \notin closed
  /\ receipts[i] = Null
  /\ receipts' = [receipts EXCEPT ![i] = [session |-> s, base |-> head[s], content |-> c]]
  /\ head' = [head EXCEPT ![s] = i]
  /\ KeysIn(c.target) \cap c.retain = {}
  /\ c.retain \subseteq KeysIn(visible[s])
  /\ visible' = [visible EXCEPT ![s] = c.target \cup {m \in @ : m.key \in c.retain}]
  /\ UNCHANGED <<mode, closed>>

Delete(s) ==
  /\ closed' = closed \cup {s}
  /\ UNCHANGED <<mode, head, visible, receipts>>

Next ==
  \E s \in Sessions :
    \/ LegacyWrite(s)
    \/ EnterPublication(s)
    \/ Delete(s)
    \/ \E i \in Ids, c \in Contents : Publish(s, i, c)

Spec == Init /\ [][Next]_vars
=============================================================================
