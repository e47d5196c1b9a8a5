--------------------------- MODULE AttemptAuthority ---------------------------
(***************************************************************************)
(* What the Server's publication store promises to the writers of a        *)
(* Session: an attempt is reserved, begun under the head it replaces, and  *)
(* keeps write authority until another writer begins, its lease or its     *)
(* reservation runs out, or it is rejected.  Authority that is lost never  *)
(* returns, and only an attempt that still has it can be activated, over   *)
(* the head it began under.  PublicationStore implements this              *)
(* specification; PublicationDelivery runs the client against it.          *)
(***************************************************************************)
EXTENDS Naturals

CONSTANTS Sessions, Ids, Captures, Null

VARIABLES
  att,    \* what is known of each attempt identity
  lost,   \* begun attempts whose authority is gone
  head,   \* the attempt each Session's readers see
  closed  \* deleted Sessions: every call about them is refused

authorityVars == <<att, lost, head, closed>>

Writable == {"open", "sealed", "validated"}

Unissued == [state |-> "unissued", session |-> Null, capture |-> Null, base |-> Null, filled |-> FALSE]
Removed == [Unissued EXCEPT !.state = "removed"]

Admitted(i) == att[i].session # Null /\ att[i].session \notin closed
Authority(i) == Admitted(i) /\ att[i].state \in Writable /\ i \notin lost
Rivals(i) == {j \in Ids \ {i} : att[j].session = att[i].session /\ att[j].state \in Writable}

\* Losing authority also makes uploaded content irrelevant.
Losing(L) ==
  [j \in Ids |-> IF j \in L THEN [att[j] EXCEPT !.filled = FALSE] ELSE att[j]]

AuthorityInit ==
  /\ att = [i \in Ids |-> Unissued]
  /\ lost = {}
  /\ head = [s \in Sessions |-> Null]
  /\ closed = {}

Reserve(s, i) ==
  /\ s \notin closed
  /\ att[i].state = "unissued"
  /\ att' = [att EXCEPT ![i] = [Unissued EXCEPT !.state = "reserved", !.session = s]]
  /\ UNCHANGED <<lost, head, closed>>

\* Beginning takes the authority of every other writer of the Session away.
Begin(i, c, b) ==
  /\ Admitted(i) /\ att[i].state = "reserved"
  /\ b = head[att[i].session]
  /\ att' = [Losing(Rivals(i)) EXCEPT ![i] =
       [@ EXCEPT !.state = "open", !.capture = c, !.base = b]]
  /\ lost' = lost \cup Rivals(i)
  /\ UNCHANGED <<head, closed>>

Put(i) ==
  /\ Authority(i) /\ att[i].state = "open"
  /\ att' = [att EXCEPT ![i].filled = TRUE]
  /\ UNCHANGED <<lost, head, closed>>

Seal(i) ==
  /\ Authority(i) /\ att[i].state = "open" /\ att[i].filled
  /\ att' = [att EXCEPT ![i] = [@ EXCEPT !.state = "sealed", !.filled = FALSE]]
  /\ UNCHANGED <<lost, head, closed>>

Validate(i) ==
  /\ Authority(i) /\ att[i].state = "sealed"
  /\ att' = [att EXCEPT ![i].state = "validated"]
  /\ UNCHANGED <<lost, head, closed>>

Activate(i) ==
  /\ Authority(i) /\ att[i].state = "validated"
  /\ att[i].base = head[att[i].session]
  /\ att' = [att EXCEPT ![i].state = "activated"]
  /\ head' = [head EXCEPT ![att[i].session] = i]
  /\ UNCHANGED <<lost, closed>>

Reject(i) ==
  /\ Admitted(i)
  /\ att[i].state \in Writable \cup {"rejected"}
  /\ att' = [att EXCEPT ![i] = [@ EXCEPT !.state = "rejected", !.filled = FALSE]]
  /\ lost' = lost \ {i}
  /\ UNCHANGED <<head, closed>>

\* Leases and reservations run out by the Server's clock.
Lose(L) ==
  /\ L # {} /\ L \subseteq {i \in Ids : att[i].state \in Writable}
  /\ att' = Losing(L)
  /\ lost' = lost \cup L
  /\ UNCHANGED <<head, closed>>

\* Cleanup forgets expired identities that never published anything.
Forget(D) ==
  /\ D # {}
  /\ \A i \in D : att[i].state \in {"reserved", "rejected"} \/ i \in lost
  /\ att' = [i \in Ids |-> IF i \in D THEN Removed ELSE att[i]]
  /\ lost' = lost \ D
  /\ UNCHANGED <<head, closed>>

Close(s) ==
  /\ closed' = closed \cup {s}
  /\ UNCHANGED <<att, lost, head>>

AuthorityNext ==
  \/ \E s \in Sessions, i \in Ids : Reserve(s, i)
  \/ \E i \in Ids, c \in Captures, b \in Ids \cup {Null} : Begin(i, c, b)
  \/ \E i \in Ids : Put(i) \/ Seal(i) \/ Validate(i) \/ Activate(i) \/ Reject(i)
  \/ \E L \in SUBSET Ids : Lose(L) \/ Forget(L)
  \/ \E s \in Sessions : Close(s)

AuthoritySpec == AuthorityInit /\ [][AuthorityNext]_authorityVars
=============================================================================
