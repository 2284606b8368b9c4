------------------------------ MODULE KernelView ------------------------------
(***************************************************************************)
(* What the panel may believe of the kernel. It only takes a kernel for    *)
(* ready when one has answered it: in the start it then publishes, or in   *)
(* the one probe of a panel that starts. It may be late, since the kernel  *)
(* ends without saying so, and it forgets everything when it ends itself.  *)
(* KernelLifecycle keeps this; Generation and IdleStop assume it, and no   *)
(* more, of the kernel they work with.                                     *)
(***************************************************************************)

VARIABLES
  up,       \* the panel runs
  ready,    \* Kernel.state is "ready"
  serving,  \* some kernel answers through the tunnel
  seen      \* a start was answered and has yet to publish it

viewVars == <<up, ready, serving, seen>>

ViewInit == up \in BOOLEAN /\ ~ready /\ ~serving /\ ~seen

Boots == ~serving /\ serving' = TRUE /\ UNCHANGED <<up, ready, seen>>

Ends == serving /\ serving' = FALSE /\ UNCHANGED <<up, ready, seen>>

\* A poll of start is answered.
Answered ==
  /\ up /\ serving /\ seen' = TRUE
  /\ UNCHANGED <<up, ready, serving>>

\* EnsureReady publishes it; the kernel may have ended in between, and another
\* start may have been answered as well.
Found ==
  /\ up /\ (seen \/ serving)
  /\ ready' = TRUE /\ seen' \in {FALSE, seen}
  /\ UNCHANGED <<up, serving>>

\* A probe fails, or the kernel is asked to end.
Gone == ready /\ ready' = FALSE /\ UNCHANGED <<up, serving, seen>>

\* The panel ends, with all it believed.
Leave ==
  /\ up /\ up' = FALSE /\ ready' = FALSE /\ seen' = FALSE
  /\ UNCHANGED serving

\* The panel starts again, and adopts the kernel that answers, or none.
Return ==
  /\ ~up /\ up' = TRUE /\ ready' \in {FALSE, serving}
  /\ UNCHANGED <<serving, seen>>

ViewNext == Boots \/ Ends \/ Answered \/ Found \/ Gone \/ Leave \/ Return

ViewSpec == ViewInit /\ [][ViewNext]_viewVars

=============================================================================
