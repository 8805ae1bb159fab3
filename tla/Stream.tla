------------------------------- MODULE Stream -------------------------------
(***************************************************************************)
(* What a connection promises its two ends (docs/socket-subsystem.md):     *)
(* every byte written is read once and in order, and a read reports end of *)
(* file only after the last byte of a writer that has finished.  A side    *)
(* whose receiving direction was cut off may see end of file at any time.  *)
(***************************************************************************)
EXTENDS Sequences, SequencesExt

CONSTANT Ends
VARIABLES sent, got, finished, eof, cut

Other(x) == CHOOSE y \in Ends : y # x

Init ==
    /\ sent = [x \in Ends |-> <<>>]
    /\ got = [x \in Ends |-> <<>>]
    /\ finished = [x \in Ends |-> FALSE]
    /\ eof = [x \in Ends |-> FALSE]
    /\ cut = [x \in Ends |-> FALSE]

(* A finished writer writes no more.                                       *)
Write(x) ==
    /\ sent'[x] # sent[x]
    /\ ~finished[x]
    /\ IsPrefix(sent[x], sent'[x])

(* What is read is what was written, from where the last read stopped.     *)
Read(x) ==
    /\ got'[x] # got[x]
    /\ IsPrefix(got[x], got'[x])
    /\ IsPrefix(got'[x], sent[Other(x)])

EndOfFile(x) ==
    /\ eof'[x] # eof[x]
    /\ cut[x] \/ (finished[Other(x)] /\ got[x] = sent[Other(x)])

Step ==
    \A x \in Ends :
        /\ sent'[x] = sent[x] \/ Write(x)
        /\ got'[x] = got[x] \/ Read(x)
        /\ eof'[x] = eof[x] \/ EndOfFile(x)
        /\ finished[x] => finished'[x]
        /\ cut[x] => cut'[x]

Spec == Init /\ [][Step]_<<sent, got, finished, eof, cut>>
=============================================================================
