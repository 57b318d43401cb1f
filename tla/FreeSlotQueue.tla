---------------------------- MODULE FreeSlotQueue ----------------------------
(***************************************************************************)
(* What the address-register-file free pool promises: the free slots form  *)
(* a FIFO queue.  spalloc hands out the slot that has been free longest,   *)
(* spfree appends a slot, and in one clock cycle both may happen.  A slot  *)
(* handed back while the queue cannot take it is lost to the pool: the     *)
(* hardware has no way to say no to a spfree.                              *)
(***************************************************************************)
EXTENDS Naturals, Sequences

CONSTANT Slots          \* the managed slots, in the order reset seeds them

VARIABLES queue,        \* the free slots, oldest first
          held,         \* slots the dynarec owns
          gone          \* slots given back and dropped

Init == /\ queue = Slots
        /\ held = {}
        /\ gone = {}

\* spalloc on its own: the oldest free slot changes hands.
Alloc == /\ queue # <<>>
         /\ queue' = Tail(queue)
         /\ held' = held \cup {Head(queue)}
         /\ UNCHANGED gone

\* spfree on its own: the slot becomes the youngest free one.
Free(s) == /\ queue' = Append(queue, s)
           /\ held' = held \ {s}
           /\ UNCHANGED gone

\* Both in one cycle, the slot allocated being another one than the slot freed.
AllocFree(s) == /\ queue # <<>>
                /\ queue' = Append(Tail(queue), s)
                /\ held' = (held \cup {Head(queue)}) \ {s}
                /\ UNCHANGED gone

\* Both in one cycle with a single free slot left: the freed slot is dropped.
AllocLose(s) == /\ Len(queue) = 1
                /\ queue' = <<>>
                /\ held' = (held \cup {Head(queue)}) \ {s}
                /\ gone' = gone \cup {s}

Next == \/ Alloc
        \/ \E s \in held : Free(s) \/ AllocFree(s) \/ AllocLose(s)

Spec == Init /\ [][Next]_<<queue, held, gone>>
=============================================================================
