----------------------------- MODULE ReportFile -----------------------------
(***************************************************************************)
(* The Markdown report on disk (cli.py): _write_text_atomically as used by *)
(* the _IncrementalReportWriter after every category and by run() for the  *)
(* final render, followed by the PDF conversion that reads the file back.  *)
(*                                                                         *)
(* Runs are processes that share a reports directory.  A run's path is its *)
(* client's slug and the second at which it chose it.  The text of a report*)
(* is kept as which run rendered it and how many category results it has;  *)
(* a file may also hold a torn text, which is none of the Documents.       *)
(***************************************************************************)
EXTENDS Naturals, FiniteSets

CONSTANTS
    Runs,       \* the processes
    Slugs,      \* what the clients' names slugify to
    Categories, \* how many category results a run produces
    MaxSecond,  \* the clock is bounded
    Absent,     \* no such file
    Torn,       \* the text of a file while it is being written
    NoPath

Paths == Slugs \X (0..MaxSecond)
Documents == [run : Runs, size : 1..Categories]

VARIABLES
    second,     \* the clock path names are made from
    path,       \* [Runs -> Paths or NoPath]: md_path
    step,       \* [Runs -> where the run is]
    size,       \* [Runs -> how many results the text being written has]
    temp,       \* [Runs -> the run's temporary file: Absent, Torn or a document]
    disk,       \* [Paths -> the report there]
    pdf         \* [Paths -> the document the PDF was made from]

vars == <<second, path, step, size, temp, disk, pdf>>

Init ==
    /\ second = 0
    /\ path = [r \in Runs |-> NoPath]
    /\ step = [r \in Runs |-> "start"]
    /\ size = [r \in Runs |-> 0]
    /\ temp = [r \in Runs |-> Absent]
    /\ disk = [p \in Paths |-> Absent]
    /\ pdf = [p \in Paths |-> Absent]

Tick == second < MaxSecond /\ second' = second + 1 /\ UNCHANGED <<path, step, size, temp, disk, pdf>>

\* The path is made from the clock's second; nothing looks whether it is taken.
ChoosePath(r) ==
    /\ step[r] = "start"
    /\ \E s \in Slugs : path' = [path EXCEPT ![r] = <<s, second>>]
    /\ step' = [step EXCEPT ![r] = "auditing"]
    /\ UNCHANGED <<second, size, temp, disk, pdf>>

\* category_completed renders one result more; the final render has them all.
BeginWrite(r) ==
    /\ step[r] = "auditing"
    /\ size' = [size EXCEPT ![r] = IF @ < Categories THEN @ + 1 ELSE @]
    /\ temp' = [temp EXCEPT ![r] = Torn]
    /\ step' = [step EXCEPT ![r] = IF size[r] < Categories THEN "writing" ELSE "final"]
    /\ UNCHANGED <<second, path, disk, pdf>>

Writing(r) == step[r] \in {"writing", "final"}

\* Mutation: the text goes straight to the report's path first.
FinishTextInPlace(r) ==
    /\ Writing(r) /\ temp[r] = Torn
    /\ temp' = [temp EXCEPT ![r] = [run |-> r, size |-> size[r]]]
    /\ disk' = [disk EXCEPT ![path[r]] = Torn]
    /\ UNCHANGED <<second, path, step, size, pdf>>

FinishText(r) ==
    /\ Writing(r) /\ temp[r] = Torn
    /\ temp' = [temp EXCEPT ![r] = [run |-> r, size |-> size[r]]]
    /\ UNCHANGED <<second, path, step, size, disk, pdf>>

\* tmp_path.replace(path)
ReplaceFile(r) ==
    /\ Writing(r) /\ temp[r] \notin {Absent, Torn}
    /\ disk' = [disk EXCEPT ![path[r]] = temp[r]]
    /\ temp' = [temp EXCEPT ![r] = Absent]
    /\ step' = [step EXCEPT ![r] = IF @ = "writing" THEN "auditing" ELSE "written"]
    /\ UNCHANGED <<second, path, size, pdf>>

\* Mutation: the handler removes the report instead of the temporary file.
WriteRaisesUnlinksReport(r) ==
    /\ Writing(r)
    /\ temp' = [temp EXCEPT ![r] = Absent]
    /\ disk' = [disk EXCEPT ![path[r]] = Absent]
    /\ step' = [step EXCEPT ![r] = "failed"]
    /\ UNCHANGED <<second, path, size, pdf>>

\* A full disk, Ctrl-C: the temporary file is removed and the run fails.
WriteRaises(r) ==
    /\ Writing(r)
    /\ temp' = [temp EXCEPT ![r] = Absent]
    /\ step' = [step EXCEPT ![r] = "failed"]
    /\ UNCHANGED <<second, path, size, disk, pdf>>

\* The audit fails between two writes (see AuditRunner).
AuditRaises(r) ==
    /\ step[r] = "auditing"
    /\ step' = [step EXCEPT ![r] = "failed"]
    /\ UNCHANGED <<second, path, size, temp, disk, pdf>>

\* The process is killed: no handler runs.
Crash(r) ==
    /\ step[r] \in {"auditing", "writing", "final", "written"}
    /\ step' = [step EXCEPT ![r] = "crashed"]
    /\ UNCHANGED <<second, path, size, temp, disk, pdf>>

\* convert_markdown_to_pdf reads the file at md_path; a conversion error is
\* reported and ignored.
ConvertToPdf(r) ==
    /\ step[r] = "written"
    /\ \/ pdf' = [pdf EXCEPT ![path[r]] = disk[path[r]]]
       \/ UNCHANGED pdf
    /\ step' = [step EXCEPT ![r] = "finished"]
    /\ UNCHANGED <<second, path, size, temp, disk>>

RunStep(r) ==
    \/ ChoosePath(r) \/ BeginWrite(r) \/ FinishText(r) \/ ReplaceFile(r)
    \/ WriteRaises(r) \/ AuditRaises(r) \/ Crash(r) \/ ConvertToPdf(r)

AllOver == \A r \in Runs : step[r] \in {"finished", "failed", "crashed"}

Next == Tick \/ (\E r \in Runs : RunStep(r)) \/ (AllOver /\ UNCHANGED vars)

Spec == Init /\ [][Next]_vars

-----------------------------------------------------------------------------
\* Every variable has its type.
TypeOK ==
    /\ second \in 0..MaxSecond
    /\ path \in [Runs -> Paths \cup {NoPath}]
    /\ step \in [Runs -> {"start", "auditing", "writing", "final", "written",
                          "finished", "failed", "crashed"}]
    /\ size \in [Runs -> 0..Categories]
    /\ temp \in [Runs -> Documents \cup {Absent, Torn}]
    /\ disk \in [Paths -> Documents \cup {Absent, Torn}]
    /\ pdf \in [Paths -> Documents \cup {Absent, Torn}]

Colliding(r) == \E q \in Runs \ {r} : path[q] = path[r]

\* How many category results the report at p shows.
Reported(p) == IF disk[p] \in Documents THEN disk[p].size ELSE 0

\* The report of a run that shares its path with no other is never behind the
\* categories whose write came back, whatever failed or was killed afterwards;
\* what lies next to it has its reason: only a killed process leaves a temporary
\* file, and a PDF is made from a complete report only, even when the
\* directory's other runs are killed halfway.
ReportsAreKept ==
    /\ \A r \in Runs : path[r] # NoPath /\ ~Colliding(r) =>
          /\ Reported(path[r]) <= size[r] /\ size[r] <= Reported(path[r]) + 1
          /\ step[r] \in {"auditing", "final", "written", "finished"} => Reported(path[r]) = size[r]
    /\ \A r \in Runs : temp[r] # Absent => step[r] \in {"writing", "final", "crashed"}
    /\ \A p \in Paths : pdf[p] # Absent =>
          /\ pdf[p] \in Documents
          /\ (\A r, q \in Runs : path[r] = p /\ path[q] = p => r = q) => pdf[p].size = Categories

File == INSTANCE AtomicFile WITH shelf <- disk

\* The report directory is a shelf of complete documents (AtomicFile).
IsAtomic == File!Spec

-----------------------------------------------------------------------------
(* What the docs say and the code does not do: this does not hold.         *)

\* README.md:120: "re-running for the same client never overwrites a prior
\* report": what one run has written is not replaced by another run.
NeverOverwritesAnother ==
    [][\A p \in Paths : disk[p] # Absent => disk'[p].run = disk[p].run]_vars
=============================================================================
