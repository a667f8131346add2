----------------------------- MODULE ReorderBuffer -----------------------------
(***************************************************************************)
(* sct-core's ReorderBuffer: packets are put in as they arrive, any number *)
(* of times and in any order, and taken out in the order of their          *)
(* sequence numbers.  The set of identifiers already seen is emptied when  *)
(* it is full.  make_data_packet gives a packet its index both as the      *)
(* identifier and as the sequence number.                                  *)
(***************************************************************************)
EXTENDS Integers, FiniteSets, Sequences

CONSTANTS
    LastSeq,    \* bound: the last sequence number that is sent
    MaxSeen     \* max_seen (65536)

ASSUME ReorderAssumption == LastSeq \in Nat /\ MaxSeen \in Nat \ {0}

VARIABLES
    received,   \* packets waiting for their turn
    next_seq,   \* the next one to be taken out
    ids,        \* the identifiers in the map seen
    ingested,   \* history: every packet put in
    released,   \* history: the packets taken out, in order
    cleared     \* history: whether seen was ever emptied

reorderVars == <<received, next_seq, ids, ingested, released, cleared>>

ReorderInit ==
    /\ received = {} /\ next_seq = 0 /\ ids = {}
    /\ ingested = {} /\ released = <<>> /\ cleared = FALSE

(* Ingest that empties the whole buffer when seen is full *)
IngestForgets(s) ==
    /\ s \notin ids
    /\ IF Cardinality(ids) >= MaxSeen
       THEN ids' = {s} /\ received' = {s} /\ cleared' = TRUE
       ELSE ids' = ids \cup {s} /\ received' = received \cup {s} /\ UNCHANGED cleared
    /\ ingested' = ingested \cup {s}
    /\ UNCHANGED <<next_seq, released>>

Ingest(s) ==
    /\ s \notin ids
    /\ IF Cardinality(ids) >= MaxSeen THEN ids' = {s} /\ cleared' = TRUE
                                      ELSE ids' = ids \cup {s} /\ UNCHANGED cleared
    /\ received' = received \cup {s} /\ ingested' = ingested \cup {s}
    /\ UNCHANGED <<next_seq, released>>

(* reassemble_ready takes packets out, one after the other, up to the      *)
(* first gap.                                                              *)
Reassemble ==
    \E n \in 1 .. LastSeq + 1 :
       LET ready == next_seq .. next_seq + n - 1 IN
       /\ ready \subseteq received /\ next_seq + n \notin received
       /\ received' = received \ ready
       /\ released' = released \o [i \in 1 .. n |-> next_seq + i - 1]
       /\ next_seq' = next_seq + n
       /\ UNCHANGED <<ids, ingested, cleared>>

ReorderNext == (\E s \in 0 .. LastSeq : Ingest(s)) \/ Reassemble

ReorderSpec == ReorderInit /\ [][ReorderNext]_reorderVars

-----------------------------------------------------------------------------
(* Although seen forgets, every packet put in comes out exactly once and   *)
(* in order, or is still waiting.  What the forgetting costs is room: a    *)
(* packet that was already taken out can lie in the buffer, but only once  *)
(* seen has been emptied.                                                  *)
ReorderExact ==
    /\ released = [i \in 1 .. next_seq |-> i - 1]
    /\ ingested = received \cup 0 .. next_seq - 1
    /\ received \cap 0 .. next_seq - 1 # {} => cleared
=============================================================================
