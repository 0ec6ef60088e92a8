------------------------------- MODULE Recording -------------------------------
(***************************************************************************)
(* What recording the output promises: each file is an unbroken run of the  *)
(* mixed frames, known by their numbers, in order; no frame is in two       *)
(* files, and later files have later frames.  How the stream to a sink and  *)
(* the program that reads it achieve that is module SinkStream.             *)
(***************************************************************************)
EXTENDS Naturals, Sequences

CONSTANT Frame         \* the numbers of frames

VARIABLES files,      \* the files created so far, each a sequence of frames
          file        \* whether the last of them is open

Init == files = <<>> /\ file = FALSE

Create == files' = Append(files, <<>>) /\ file' = TRUE

Close == file' = FALSE /\ UNCHANGED files

Later(n) == \A i \in DOMAIN files : \A j \in DOMAIN files[i] : files[i][j] < n

Follows(n) == LET last == files[Len(files)] IN last # <<>> => n = last[Len(last)] + 1

Write(n) == /\ file
            /\ Later(n) /\ Follows(n)
            /\ files' = [files EXCEPT ![Len(files)] = Append(@, n)]
            /\ UNCHANGED file

Next == Create \/ Close \/ \E n \in Frame : Write(n)

Spec == Init /\ [][Next]_<<files, file>>
================================================================================
