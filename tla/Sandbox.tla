------------------------------ MODULE Sandbox ------------------------------
(***************************************************************************)
(* One run of Python code in a container (sandbox/docker.go RunPython,     *)
(* copyFileFromContainer; tools/python_tool.go RunPythonCode): create,     *)
(* start, wait, logs, then each file that the output names is copied to    *)
(* the host.  Once create has answered, its removal is deferred and comes  *)
(* last on every path.  Any call may fail, with or without its effect, and *)
(* the 60 seconds may be over at any of them.                              *)
(***************************************************************************)
EXTENDS Naturals, Sequences, SequencesExt

CONSTANTS SbNames,  \* file names the code may name
          SbMaxLines, \* bound on the lines that name one
          SbMaxLeaks  \* bound on the containers that are lost track of

VARIABLES
  sbPhase,
  sbContainer, \* "none", "created", "running", "exited" or "removed"
  sbLines,     \* the names in the output, still to be looked at
  sbFound,     \* foundFiles
  sbDisk,      \* the host's files: whole, or cut off in the middle
  sbFiles,     \* generatedFiles, in order
  sbResult,    \* what RunPythonCode returns
  sbLeaks      \* history: removals that failed, creations without an answer

sbCopy == <<sbLines, sbFound, sbDisk, sbFiles>>
sbVars == <<sbPhase, sbContainer, sbCopy, sbResult, sbLeaks>>

SbInit ==
  /\ sbPhase = "create" /\ sbContainer = "none"
  /\ sbLines = <<>> /\ sbFound = {} /\ sbDisk = {} /\ sbFiles = <<>>
  /\ sbResult = "none" /\ sbLeaks = 0

Leak == sbLeaks < SbMaxLeaks /\ sbLeaks' = sbLeaks + 1

\* A return once the removal is deferred: the error is the text, without files.
Return(text) == sbResult' = text /\ sbPhase' = "remove"

\* An error returns before the removal is deferred.  When the daemon did create
\* the container (its answer was lost, or came too late), nobody removes it.
ContainerCreate(o) ==
  /\ sbPhase = "create"
  /\ sbContainer' = IF o = "failed" THEN "none" ELSE "created"
  /\ IF o = "ok" THEN sbPhase' = "start" /\ UNCHANGED sbResult
     ELSE sbPhase' = "returned" /\ sbResult' = "error"
  /\ IF o = "lost" THEN Leak ELSE UNCHANGED sbLeaks
  /\ UNCHANGED sbCopy

ContainerStart(ok) ==
  /\ sbPhase = "start"
  /\ sbContainer' = IF ok THEN "running" ELSE sbContainer
  /\ IF ok THEN sbPhase' = "wait" /\ UNCHANGED sbResult ELSE Return("error")
  /\ UNCHANGED <<sbCopy, sbLeaks>>

\* Mutation: a run that timed out leaves its container to Docker.
TimeoutLeaves(ended) ==
  /\ sbPhase = "wait"
  /\ sbContainer' = IF ended = "status" THEN "exited" ELSE sbContainer
  /\ IF ended = "status" THEN sbPhase' = "logs" /\ UNCHANGED sbResult
     ELSE sbResult' = "error" /\ sbPhase' = "returned"
  /\ UNCHANGED <<sbCopy, sbLeaks>>

\* The three-way select: the code ended, the wait failed, or the time is over
\* and the code still runs.
ContainerWait(ended) ==
  /\ sbPhase = "wait"
  /\ sbContainer' = IF ended = "status" THEN "exited" ELSE sbContainer
  /\ IF ended = "status" THEN sbPhase' = "logs" /\ UNCHANGED sbResult ELSE Return("error")
  /\ UNCHANGED <<sbCopy, sbLeaks>>

\* The output names files: by the code's own lines and by the monitor's, in
\* any order and with repetitions.
ReadLogs(ok) ==
  /\ sbPhase = "logs" /\ UNCHANGED sbContainer
  /\ IF ok
     THEN /\ \E n \in 0 .. SbMaxLines : sbLines' \in [1 .. n -> SbNames]
          /\ sbPhase' = "copy" /\ UNCHANGED sbResult
     ELSE Return("error") /\ UNCHANGED sbLines
  /\ UNCHANGED <<sbFound, sbDisk, sbFiles, sbLeaks>>

\* The next name, unless it was found before; a failed copy may leave a part.
CopyFile(copied) ==
  /\ sbPhase = "copy" /\ sbLines # <<>>
  /\ LET name == Head(sbLines) IN
       IF name \in sbFound THEN UNCHANGED <<sbFound, sbDisk, sbFiles>>
       ELSE /\ sbFound' = sbFound \cup {name}
            /\ sbDisk' = IF copied = "no" THEN sbDisk
                         ELSE sbDisk \cup {[name |-> name, whole |-> copied = "yes"]}
            /\ sbFiles' = IF copied = "yes" THEN Append(sbFiles, name) ELSE sbFiles
  /\ sbLines' = Tail(sbLines)
  /\ UNCHANGED <<sbPhase, sbContainer, sbResult, sbLeaks>>

CopyEnds ==
  /\ sbPhase = "copy" /\ sbLines = <<>>
  /\ Return("output")
  /\ UNCHANGED <<sbContainer, sbCopy, sbLeaks>>

\* The deferred removal, forced and on a context of its own; its error is
\* dropped.
ContainerRemove(ok) ==
  /\ sbPhase = "remove"
  /\ sbPhase' = "returned"
  /\ IF ok THEN sbContainer' = "removed" /\ UNCHANGED sbLeaks
     ELSE Leak /\ UNCHANGED sbContainer
  /\ UNCHANGED <<sbCopy, sbResult>>

SbNext ==
  \/ \E o \in {"ok", "failed", "lost"} : ContainerCreate(o)
  \/ \E ok \in BOOLEAN : ContainerStart(ok) \/ ReadLogs(ok) \/ ContainerRemove(ok)
  \/ \E ended \in {"status", "error", "timeout"} : ContainerWait(ended)
  \/ \E copied \in {"yes", "no", "part"} : CopyFile(copied)
  \/ CopyEnds

SbSpec == SbInit /\ [][SbNext]_sbVars

-----------------------------------------------------------------------------
\* Properties

\* Whatever call failed or ran out of time, no container is left when the tool
\* returns, unless its removal failed or its creation was not answered; every
\* file it returns is on the host, whole and once; and an error comes without
\* files.
SandboxClean ==
  /\ sbPhase = "returned" =>
       sbContainer \in {"none", "removed"} \/ sbLeaks > 0
  /\ IsInjective(sbFiles)
  /\ \A f \in ToSet(sbFiles) : [name |-> f, whole |-> TRUE] \in sbDisk
  /\ sbResult = "error" => sbFiles = <<>>
=============================================================================
