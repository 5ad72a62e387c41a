----------------------------- MODULE ChunkStore -----------------------------
(***************************************************************************)
(* What the chunk storage of a world promises to the server.               *)
(*                                                                         *)
(* A slot is one of the chunk positions of a region.  `store` is the last  *)
(* content handed to ChunkIO::saveChunk for each slot, `mem` the chunk the *)
(* World holds, and `changed` its changedFromDisk flag.  Reading a slot    *)
(* that was saved gives back exactly what was saved last; a slot that was  *)
(* never saved gives a blank chunk.  Nothing here knows of sectors, tables *)
(* or files: RegionFile is shown to implement this module.                 *)
(***************************************************************************)
CONSTANTS
  Slot,        \* chunk positions of one region file
  Payload,     \* contents a chunk can have
  Blank,       \* the content of a newly constructed Chunk
  Absent       \* "no chunk here", in memory or in the store

VARIABLES store, mem, changed

vars == <<store, mem, changed>>

Init ==
  /\ store = [s \in Slot |-> Absent]
  /\ mem = [s \in Slot |-> Absent]
  /\ changed = [s \in Slot |-> FALSE]

\* The world asks for a chunk it does not hold.
Fetch(s) ==
  /\ mem[s] = Absent
  /\ mem' = [mem EXCEPT ![s] = IF store[s] = Absent THEN Blank ELSE store[s]]
  /\ UNCHANGED <<store, changed>>

\* The content of a held chunk changes.
Modify(s, p) ==
  /\ mem[s] # Absent
  /\ mem' = [mem EXCEPT ![s] = p]
  /\ changed' = [changed EXCEPT ![s] = TRUE]
  /\ UNCHANGED store

\* The world lets go of a chunk; only a changed one is written back.
Evict(s) ==
  /\ mem[s] # Absent
  /\ store' = IF changed[s] THEN [store EXCEPT ![s] = mem[s]] ELSE store
  /\ mem' = [mem EXCEPT ![s] = Absent]
  /\ changed' = [changed EXCEPT ![s] = FALSE]

\* A chunk that no world holds is written (world generation).
Import(s, p) ==
  /\ mem[s] = Absent
  /\ store' = [store EXCEPT ![s] = p]
  /\ UNCHANGED <<mem, changed>>

Next ==
  \E s \in Slot :
    \/ Fetch(s)
    \/ Evict(s)
    \/ \E p \in Payload : Modify(s, p) \/ Import(s, p)

Spec == Init /\ [][Next]_vars
=============================================================================
