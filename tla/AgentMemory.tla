---------------------------- MODULE AgentMemory ----------------------------
(***************************************************************************)
(* What the store is to an agent that uses it alone: a table with a slot   *)
(* per entity and attribute, which holds nothing, a text or a set of       *)
(* marks.  An update does to its own slot what was asked, or nothing; one  *)
(* that is reported as done has been done.  A lookup that reports no error *)
(* reports exactly what the slots it covers hold.                          *)
(*                                                                         *)
(* The policy given with an update says what it does to the slot: under    *)
(* CRDT_ORSET it adds or removes a mark and its text goes nowhere, under   *)
(* any other it puts the text or deletes.  What the slot held before under *)
(* another policy is gone.                                                 *)
(***************************************************************************)

CONSTANTS Slots,    \* the slots, pairs of an entity and an attribute
          Updates,  \* the updates that may be asked for
          Scans,    \* the entities that are scanned for
          Family    \* Family[e]: the slots a scan for entity e covers

VARIABLES memory,  \* memory[s]: what slot s holds
          asked,   \* the last command
          said     \* what its caller was told

memoryVars == <<memory, asked, said>>

Nothing == [kind |-> "nothing"]
Text(c) == [kind |-> "text", text |-> c]
Marks(S) == [kind |-> "marks", marks |-> S]

MarksOf(v) == IF v.kind = "marks" THEN v.marks ELSE {}

\* A command succeeds for its caller or not, and its answer holds an error or
\* not: a failed lookup may come with a success.
Done == [ok |-> TRUE, error |-> FALSE, found |-> {}]
Failed == [ok |-> FALSE, error |-> TRUE, found |-> {}]
Unknown == [ok |-> TRUE, error |-> TRUE, found |-> {}]
Report(slots) ==
  [Done EXCEPT !.found =
     {f \in {<<s, memory[s]>> : s \in slots} : f[2] # Nothing}]

Idle == [idle |-> TRUE]
Get(s) == [get |-> s]
Scan(e) == [scan |-> e]

MemoryInit ==
  /\ memory = [s \in Slots |-> Nothing]
  /\ asked = Idle
  /\ said = Done

Effect(u, v) ==
  IF u.policy = "CRDT_ORSET"
  THEN Marks(IF u.op = "remove" THEN MarksOf(v) \ {u.elem} ELSE MarksOf(v) \cup {u.elem})
  ELSE IF u.tombstone THEN Nothing ELSE Text(u.data)

\* The report of an update may be lost, and so may the update.
Update ==
  /\ asked' \in Updates
  /\ \/ /\ memory' = [memory EXCEPT ![asked'.slot] = Effect(asked', @)]
        /\ said' \in {Done, Failed}
     \/ /\ said' = Failed
        /\ UNCHANGED memory

Lookup(c, slots) ==
  /\ asked' = c
  /\ said' \in {Report(slots), Failed, Unknown}
  /\ UNCHANGED memory

MemoryNext ==
  \/ Update
  \/ \E s \in Slots : Lookup(Get(s), {s})
  \/ \E e \in Scans : Lookup(Scan(e), Family[e])

MemorySpec == MemoryInit /\ [][MemoryNext]_memoryVars

=============================================================================
