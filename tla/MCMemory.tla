------------------------------ MODULE MCMemory ------------------------------
(* Small machines for Spawn: one page range per region, and few frames.     *)
EXTENDS Spawn

(* The regions of a process's address space as the loader lays them out:    *)
(* code 10.., TLS 20.., heap 30.., stack below 50 and the stub above it.    *)
MCPath(n) ==
    CASE n \in 10 .. 19 -> <<0, 0, 4, n - 10>>
      [] n \in 20 .. 29 -> <<0, 0, 384, n - 20>>
      [] n \in 30 .. 39 -> <<0, 1, 0, n - 30>>
      [] n \in 40 .. 59 -> <<255, 511, 511, n - 40>>

MCMemoryMap == <<[start |-> 1, len |-> 30, type |-> "Usable"],
                 [start |-> 31, len |-> 1, type |-> "Reserved"],
                 [start |-> 32, len |-> 1, type |-> "Framebuffer"],
                 [start |-> 33, len |-> 50, type |-> "Usable"]>>

(* Long runs of memory calls, of process calls, and some of both.           *)
MCBudgets == {[memory |-> 3, process |-> 0], [memory |-> 1, process |-> 2],
              [memory |-> 0, process |-> 4]}

(* Enough to start a process, end it and reap it.                           *)
MCFewCalls == {[memory |-> 0, process |-> 3]}

=============================================================================
