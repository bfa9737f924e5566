------------------------------- MODULE Transpile -------------------------------
(* transpile() (ghdl.py): the SystemVerilog of a VHDL entity, in a directory that is named after a   *)
(* digest of its sources. GHDL is external: it analyzes the files as they are then, and writes the   *)
(* netlist of what was analyzed last in the work directory.                                          *)
CONSTANTS Processes, Versions, None

VARIABLES
    source,             \* the contents of the VHDL files
    work,               \* of each digest: what is analyzed in the work directory
    temporary,          \* <entity>.sv.tmp
    systemVerilog,      \* <entity>.sv
    crowded,            \* history: the digests whose SystemVerilog two processes have written at once
    task                \* of each process: what it does next, and its variables

NewTask == [at |-> "idle", digest |-> None, netlist |-> None, renamed |-> FALSE]

TranspileInit ==
    /\ work = [d \in Versions |-> None]
    /\ temporary = [d \in Versions |-> None]
    /\ systemVerilog = [d \in Versions |-> None]
    /\ crowded = {}
    /\ task = [p \in Processes |-> NewTask]

Digest(p) == task[p].digest
Moves(p, from, new) == task[p].at = from /\ task' = [task EXCEPT ![p] = new]
GoOn(p, point) == [task[p] EXCEPT !.at = point]

(* _digest(): the files are read. *)
TakeDigest(p) ==
    /\ Moves(p, "idle", [NewTask EXCEPT !.at = "look", !.digest = source])
    /\ UNCHANGED <<source, work, temporary, systemVerilog, crowded>>

LookUp(p) ==
    /\ Moves(p, "look", GoOn(p, IF systemVerilog[Digest(p)] # None THEN "found" ELSE "analyze"))
    /\ UNCHANGED <<source, work, temporary, systemVerilog, crowded>>

Analyze(p) ==
    /\ Moves(p, "analyze", GoOn(p, "synthesize"))
    /\ work' = [work EXCEPT ![Digest(p)] = source]
    /\ UNCHANGED <<source, temporary, systemVerilog, crowded>>

Synthesize(p) ==
    /\ Moves(p, "synthesize", [GoOn(p, "open") EXCEPT !.netlist = work[Digest(p)]])
    /\ UNCHANGED <<source, work, temporary, systemVerilog, crowded>>

(* The file is written under another name first. Opening it empties it, the file that another        *)
(* process writes as well.                                                                          *)
OpensDirectly(p) ==
    /\ systemVerilog' = [systemVerilog EXCEPT ![Digest(p)] = "empty"]
    /\ temporary' = [temporary EXCEPT ![Digest(p)] = "empty"]
OpensTemporary(p) ==
    /\ temporary' = [temporary EXCEPT ![Digest(p)] = "empty"]
    /\ UNCHANGED systemVerilog

AlsoWritten(p) == \E q \in Processes \ {p} : task[q].at \in {"write", "replace"} /\ Digest(q) = Digest(p)

OpenTemporary(p) ==
    /\ Moves(p, "open", [GoOn(p, "write") EXCEPT !.renamed = FALSE])
    /\ OpensTemporary(p)
    /\ crowded' = IF AlsoWritten(p) THEN crowded \cup {Digest(p)} ELSE crowded
    /\ UNCHANGED <<source, work>>

(* A file that has been renamed meanwhile is written under its new name. *)
WriteTemporary(p) ==
    /\ Moves(p, "write", GoOn(p, "replace"))
    /\ IF task[p].renamed
       THEN /\ systemVerilog' = [systemVerilog EXCEPT ![Digest(p)] = task[p].netlist]
            /\ UNCHANGED temporary
       ELSE /\ temporary' = [temporary EXCEPT ![Digest(p)] = task[p].netlist]
            /\ UNCHANGED systemVerilog
    /\ UNCHANGED <<source, work, crowded>>

Replace(p) ==
    /\ task[p].at = "replace" /\ temporary[Digest(p)] # None
    /\ task' = [q \in Processes |->
                  IF q = p THEN GoOn(p, "found")
                  ELSE IF task[q].at = "write" /\ Digest(q) = Digest(p) THEN [task[q] EXCEPT !.renamed = TRUE]
                  ELSE task[q]]
    /\ systemVerilog' = [systemVerilog EXCEPT ![Digest(p)] = temporary[Digest(p)]]
    /\ temporary' = [temporary EXCEPT ![Digest(p)] = None]
    /\ UNCHANGED <<source, work, crowded>>

(* FileNotFoundError: another process has renamed the file. *)
IsReplaced(p) == task[p].at = "replace" /\ temporary[Digest(p)] = None

Transpiles(p) ==
    \/ TakeDigest(p) \/ LookUp(p) \/ Analyze(p) \/ Synthesize(p)
    \/ OpenTemporary(p) \/ WriteTemporary(p) \/ Replace(p)
=============================================================================
