---------------------------- MODULE BuilderProofs ----------------------------
(* Proofs about the cache directory of the builder, for any number of processes, versions and files: *)
(* what a call returns is current, the module that a process has loaded is the one that is built     *)
(* unless that was built again, the SystemVerilog of an entity is complete when it is there, and a    *)
(* call that nothing disturbs fails only for what other processes have left that nothing repairs.    *)
EXTENDS Builder, TLAPS

-----------------------------------------------------------------------------
(* Types. *)

FileContents == {Template[t] : t \in Tools} \cup {None, "empty"}
VhdlContents == Versions \cup {None, "empty"}
Stamps == FileContents \X Tools
Modules == [described : Versions, contents : Versions, generated : SUBSET FileContents,
            library : Nat, tools : Tools \cup {None}]
Directories == [files : [1..HashFile -> FileContents], stamp : Stamps \cup {None},
                configured : Tools \cup {None}, touched : BOOLEAN, module : Modules \cup {None},
                time : Nat, shared : BOOLEAN]
Entries == [time : Nat, module : Modules \cup {None}]

Generating == {"generate", "open", "write"}
Building == {"stamp", "configure", "build", "built", "find", "import", "link"}
Parsing == {"dependencies", "ask", "answer", "parse", "digest"}
Reading == Parsing \cup {"transpile", "describe", "key"}
Points == {"off", "ready"} \cup Reading \cup Generating \cup Building
CallRecords == [at : Points,
                kind : Kinds \cup {None}, described : Versions \cup {None}, key : Keys \cup {None},
                next : 1..HashFile, stamp : Stamps \cup {None}, time : Nat \cup {None},
                module : Modules \cup {None}, outcome : {None, "failed", "rebuilt", "returned"},
                versions : SUBSET Versions, tools : Tools \cup {None}, library : Nat \cup {None},
                disturbed : BOOLEAN]

TaskPoints == {"idle", "look", "found", "analyze", "synthesize", "open", "write", "replace"}
TaskRecords == [at : TaskPoints, digest : Versions \cup {None}, netlist : Versions \cup {None},
                renamed : BOOLEAN]

CacheTypes ==
    /\ library \in Nat
    /\ tools \in Tools
    /\ directory \in [Keys -> Directories]
    /\ call \in [Processes -> CallRecords]
    /\ toolchain \in [Processes -> Tools \cup {None}]
    /\ parsed \in [Processes -> [described : Versions, digest : Versions] \cup {None}]
    /\ loaded \in [Processes -> [Keys -> Entries \cup {None}]]

TranspileTypes ==
    /\ source \in Versions
    /\ task \in [Processes -> TaskRecords]
    /\ work \in [Versions -> Versions \cup {None}]
    /\ temporary \in [Versions -> VhdlContents]
    /\ systemVerilog \in [Versions -> VhdlContents]
    /\ crowded \subseteq Versions

-----------------------------------------------------------------------------
(* The SystemVerilog of an entity: who writes it alone has the temporary file for itself. *)

Writing(p) == task[p].at \in {"write", "replace"}

TaskInv(p) ==
    /\ task[p].at # "idle" => task[p].digest \in Versions
    /\ task[p].at = "synthesize" => work[task[p].digest] # None
    /\ task[p].at \in {"open", "write", "replace"} => task[p].netlist # None
    /\ task[p].at = "found" => systemVerilog[task[p].digest] # None
    /\ task[p].at = "write" /\ task[p].digest \notin crowded => ~task[p].renamed
    /\ task[p].at = "replace" /\ task[p].digest \notin crowded => temporary[task[p].digest] # "empty"

Alone ==
    \A p, q \in Processes :
        Writing(p) /\ Writing(q) /\ task[p].digest = task[q].digest /\ p # q => task[p].digest \in crowded

TranspileInv == TranspileTypes /\ (\A p \in Processes : TaskInv(p)) /\ Alone /\ CompleteIfPresent

-----------------------------------------------------------------------------
(* The cache. *)

(* A file that is written is of a version of the templates that is not newer than the tools. A hash  *)
(* of some version means that no file is of an older one.                                           *)
IsFrom(contents, oldest) == \E t \in Tools : oldest <= t /\ t <= tools /\ Template[t] = contents
FilesInv(k) ==
    LET files == directory[k].files
    IN /\ \A n \in 1..HashFile : IsWritten(files[n]) => IsFrom(files[n], 0)
       /\ IsWritten(files[HashFile]) =>
             \E u \in Tools : /\ u <= tools /\ Template[u] = files[HashFile]
                              /\ \A n \in 1..FileCount : files[n] = "empty" \/ IsFrom(files[n], u)

(* A directory that has a stamp was configured by tools that are not older. *)
StampInv(k) ==
    /\ directory[k].configured # None => directory[k].configured <= tools
    /\ \A c \in FileContents, t \in Tools :
          directory[k].stamp # None /\ directory[k].stamp = <<c, t>> =>
              directory[k].configured # None /\ t <= directory[k].configured

DirectoryInv == \A k \in Keys : FilesInv(k) /\ StampInv(k)

IsRendered(p, n) == Dir(p).files[n] \in {Rendered(p), "empty"}

(* The module is what CodeIsCurrent asks for. *)
IsCode(p, module) ==
    /\ call[p].kind # "vhdl" => module.contents \in call[p].versions
    /\ module.library >= call[p].library
    /\ module.tools \in Tools /\ module.tools >= call[p].tools
    /\ module.generated = {Template[toolchain[p]]}

UnderWay(p) == call[p].at \in Reading \cup Generating \cup Building
HasKey(p) == call[p].at \in Generating \cup Building

(* A process has one toolchain, which is that of all processes, and a call has seen the source as it *)
(* is now.                                                                                          *)
ToolsInv(p) ==
    /\ ~At(p, "off") => toolchain[p] = tools
    /\ UnderWay(p) => /\ call[p].kind \in Kinds
                      /\ source \in call[p].versions
                      /\ call[p].library \in Nat /\ call[p].library <= library
                      /\ call[p].tools = tools

(* What the key is made of. *)
KeyInv(p) ==
    /\ call[p].at \in Parsing => call[p].kind = "cpp"
    /\ At(p, "transpile") => call[p].kind = "vhdl"
    /\ At(p, "key") \/ At(p, "digest") => call[p].described \in Versions
    /\ (At(p, "describe") \/ At(p, "key") \/ HasKey(p)) /\ call[p].kind = "vhdl" => task[p].at = "found"
    /\ HasKey(p) => call[p].key \in Keys /\ call[p].key.kind = call[p].kind

(* The files that the process has been through. *)
WrittenInv(p) ==
    /\ call[p].at \in {"open", "write"} => \A n \in 1..FileCount : n < call[p].next => IsRendered(p, n)
    /\ call[p].at \in Building => \A n \in 1..FileCount : IsRendered(p, n)

ConfiguredInv(p) ==
    /\ call[p].at \in {"configure", "build", "built"} =>
          \E c \in FileContents : call[p].stamp = <<c, toolchain[p]>>
    /\ call[p].at \in {"build", "built", "find", "import", "link"} =>
          Dir(p).configured # None /\ tools <= Dir(p).configured

(* Until the import, the module is what is built; from then on, it is what the process has read.    *)
ModuleInv(p) ==
    /\ call[p].at \in {"built", "find", "import"} => IsCode(p, Dir(p).module)
    /\ At(p, "import") \/ At(p, "link") => call[p].time \in Nat /\ call[p].time <= Dir(p).time
    /\ At(p, "link") => /\ IsCode(p, call[p].module)
                        /\ call[p].time = Dir(p).time => call[p].module = Dir(p).module
    /\ Returned(p) => IsCode(p, call[p].module)

CallInv(p) == ToolsInv(p) /\ KeyInv(p) /\ WrittenInv(p) /\ ConfiguredInv(p) /\ ModuleInv(p)

LoadedInv(p, k) ==
    loaded[p][k] # None =>
        /\ loaded[p][k].time <= directory[k].time
        /\ loaded[p][k].time = directory[k].time => loaded[p][k].module = directory[k].module

CacheInv ==
    /\ CacheTypes /\ DirectoryInv
    /\ \A p \in Processes : CallInv(p)
    /\ \A p \in Processes, k \in Keys : LoadedInv(p, k)

BuilderInv == TranspileInv /\ CacheInv

-----------------------------------------------------------------------------
(* Transpiling. *)

LEMMA TranspileInit == Init => TranspileInv
<1> SUFFICES ASSUME Init PROVE TranspileInv
  OBVIOUS
<1> USE BuilderAssumption, BuildCacheAssumption DEF Init, Vhdl!TranspileInit, Vhdl!NewTask
<1>1. TranspileTypes
  BY DEF TranspileTypes, TaskRecords, TaskPoints, VhdlContents
<1>2. (\A p \in Processes : TaskInv(p)) /\ Alone /\ CompleteIfPresent
  BY DEF TaskInv, Alone, Writing, CompleteIfPresent
<1> QED
  BY <1>1, <1>2 DEF TranspileInv

LEMMA TaskRecordsClosed ==
  ASSUME NEW t \in TaskRecords
  PROVE  /\ \A x \in TaskPoints : [t EXCEPT !.at = x] \in TaskRecords
         /\ \A v \in Versions \cup {None} : [t EXCEPT !.netlist = v] \in TaskRecords
         /\ \A b \in BOOLEAN : [t EXCEPT !.renamed = b] \in TaskRecords
BY DEF TaskRecords

(* A step of transpile(), which changes nothing else. *)
LEMMA TranspileKeepsInv ==
  ASSUME TranspileInv, NEW p \in Processes, Vhdl!Transpiles(p)
  PROVE  TranspileInv'
<1> USE BuilderAssumption, BuildCacheAssumption
<1> USE DEF TranspileInv, TranspileTypes, VhdlContents, Vhdl!Moves, Vhdl!GoOn, Vhdl!Digest, Vhdl!NewTask
<1>1. CASE Vhdl!TakeDigest(p)
  <2>1. TranspileTypes'
    BY <1>1 DEF Vhdl!TakeDigest, TaskRecords, TaskPoints
  <2>2. (\A q \in Processes : TaskInv(q))' /\ Alone' /\ CompleteIfPresent'
    BY <1>1 DEF Vhdl!TakeDigest, TaskInv, Alone, Writing, CompleteIfPresent
  <2> QED
    BY <2>1, <2>2
<1>2. CASE Vhdl!LookUp(p)
  <2>1. TranspileTypes'
    BY <1>2, TaskRecordsClosed DEF Vhdl!LookUp, TaskPoints
  <2>2. (\A q \in Processes : TaskInv(q))' /\ Alone' /\ CompleteIfPresent'
    BY <1>2 DEF Vhdl!LookUp, TaskInv, Alone, Writing, CompleteIfPresent
  <2> QED
    BY <2>1, <2>2
<1>3. CASE Vhdl!Analyze(p)
  <2>1. TranspileTypes'
    BY <1>3, TaskRecordsClosed DEF Vhdl!Analyze, TaskInv, TaskPoints
  <2>2. (\A q \in Processes : TaskInv(q))' /\ Alone' /\ CompleteIfPresent'
    BY <1>3 DEF Vhdl!Analyze, TaskInv, Alone, Writing, CompleteIfPresent
  <2> QED
    BY <2>1, <2>2
<1>4. CASE Vhdl!Synthesize(p)
  <2>1. TranspileTypes'
    <3>1. task[p].digest \in Versions
      BY <1>4 DEF Vhdl!Synthesize, TaskInv
    <3> DEFINE t == [task[p] EXCEPT !.at = "open"]
    <3>2. t \in TaskRecords /\ [t EXCEPT !.netlist = work[task[p].digest]] \in TaskRecords
      BY <3>1, TaskRecordsClosed DEF TaskPoints
    <3>3. task' = [task EXCEPT ![p] = [t EXCEPT !.netlist = work[task[p].digest]]]
      BY <1>4 DEF Vhdl!Synthesize
    <3> QED
      BY <1>4, <3>2, <3>3 DEF Vhdl!Synthesize
  <2>2. (\A q \in Processes : TaskInv(q))' /\ Alone' /\ CompleteIfPresent'
    BY <1>4 DEF Vhdl!Synthesize, TaskInv, Alone, Writing, CompleteIfPresent
  <2> QED
    BY <2>1, <2>2
<1>5. CASE Vhdl!OpenTemporary(p)
  <2> USE <1>5 DEF Vhdl!OpenTemporary, Vhdl!OpensTemporary, Vhdl!AlsoWritten
  <2>1. TranspileTypes'
    <3>1. task[p].digest \in Versions
      BY DEF TaskInv
    <3> DEFINE t == [task[p] EXCEPT !.at = "write"]
    <3>2. t \in TaskRecords /\ [t EXCEPT !.renamed = FALSE] \in TaskRecords
      BY TaskRecordsClosed DEF TaskPoints
    <3>3. task' = [task EXCEPT ![p] = [t EXCEPT !.renamed = FALSE]]
      OBVIOUS
    <3> QED
      BY <3>1, <3>2, <3>3
  <2>2. \A q \in Processes : TaskInv(q)'
    BY DEF TaskInv
  <2>3. Alone'
    BY DEF TaskInv, Alone, Writing
  <2>4. CompleteIfPresent'
    BY DEF CompleteIfPresent
  <2> QED
    BY <2>1, <2>2, <2>3, <2>4
<1>6. CASE Vhdl!WriteTemporary(p)
  <2> USE <1>6 DEF Vhdl!WriteTemporary
  <2>1. TranspileTypes'
    <3>1. task[p].digest \in Versions /\ task[p].netlist \in Versions
      BY DEF TaskInv, TaskRecords
    <3>2. task' \in [Processes -> TaskRecords]
      BY TaskRecordsClosed DEF TaskPoints
    <3> QED
      BY <3>1, <3>2
  <2>2. \A q \in Processes : TaskInv(q)'
    BY DEF TaskInv, Alone, Writing, TaskRecords
  <2>3. Alone'
    BY DEF TaskInv, Alone, Writing
  <2>4. CompleteIfPresent'
    BY DEF TaskInv, CompleteIfPresent
  <2> QED
    BY <2>1, <2>2, <2>3, <2>4
<1>7. CASE Vhdl!Replace(p)
  <2> USE <1>7 DEF Vhdl!Replace
  <2>1. TranspileTypes'
    <3>1. task[p].digest \in Versions
      BY DEF TaskInv
    <3>2. task' \in [Processes -> TaskRecords]
      BY TaskRecordsClosed DEF TaskPoints
    <3> QED
      BY <3>1, <3>2
  <2>2. \A q \in Processes : TaskInv(q)'
    BY DEF TaskInv, Alone, Writing
  <2>3. Alone'
    BY DEF TaskInv, Alone, Writing
  <2>4. CompleteIfPresent'
    BY DEF TaskInv, CompleteIfPresent
  <2> QED
    BY <2>1, <2>2, <2>3, <2>4
<1> QED
  BY <1>1, <1>2, <1>3, <1>4, <1>5, <1>6, <1>7 DEF Vhdl!Transpiles

(* The end of a call forgets the variables of its transpile(). *)
LEMMA ForgettingKeepsInv ==
  ASSUME TranspileInv, source' \in Versions, UNCHANGED <<work, temporary, systemVerilog, crowded>>,
         task' = task \/ \E p \in Processes : task' = [task EXCEPT ![p] = Vhdl!NewTask]
  PROVE  TranspileInv'
<1>1. CASE task' = task
  BY <1>1 DEF TranspileInv, TranspileTypes, TaskInv, Alone, Writing, CompleteIfPresent
<1>2. ASSUME NEW p \in Processes, task' = [task EXCEPT ![p] = Vhdl!NewTask]
      PROVE  TranspileInv'
  <2>1. TranspileTypes'
    BY <1>2, BuilderAssumption DEF TranspileInv, TranspileTypes, TaskRecords, TaskPoints, Vhdl!NewTask
  <2>2. (\A q \in Processes : TaskInv(q))' /\ Alone' /\ CompleteIfPresent'
    BY <1>2 DEF TranspileInv, TranspileTypes, TaskInv, Alone, Writing, CompleteIfPresent, Vhdl!NewTask
  <2> QED
    BY <2>1, <2>2 DEF TranspileInv
<1> QED
  BY <1>1, <1>2

-----------------------------------------------------------------------------
(* Calls and directories. *)

LEMMA CallRecordsClosed ==
  ASSUME NEW c \in CallRecords
  PROVE  /\ \A x \in Points : [c EXCEPT !.at = x] \in CallRecords
         /\ \A x \in Versions \cup {None} : [c EXCEPT !.described = x] \in CallRecords
         /\ \A x \in Keys \cup {None} : [c EXCEPT !.key = x] \in CallRecords
         /\ \A x \in 1..HashFile : [c EXCEPT !.next = x] \in CallRecords
         /\ \A x \in Stamps \cup {None} : [c EXCEPT !.stamp = x] \in CallRecords
         /\ \A x \in Nat \cup {None} : [c EXCEPT !.time = x] \in CallRecords
         /\ \A x \in Modules \cup {None} : [c EXCEPT !.module = x] \in CallRecords
         /\ \A x \in {"failed", "rebuilt", "returned"} : [c EXCEPT !.outcome = x] \in CallRecords
         /\ \A x \in SUBSET Versions : [c EXCEPT !.versions = x] \in CallRecords
         /\ [c EXCEPT !.disturbed = TRUE] \in CallRecords
<1>1. \A x \in Points : [c EXCEPT !.at = x] \in CallRecords
  BY DEF CallRecords
<1>2. \A x \in Versions \cup {None} : [c EXCEPT !.described = x] \in CallRecords
  BY DEF CallRecords
<1>3. \A x \in Keys \cup {None} : [c EXCEPT !.key = x] \in CallRecords
  BY DEF CallRecords
<1>4. \A x \in 1..HashFile : [c EXCEPT !.next = x] \in CallRecords
  BY DEF CallRecords
<1>5. \A x \in Stamps \cup {None} : [c EXCEPT !.stamp = x] \in CallRecords
  BY DEF CallRecords
<1>6. \A x \in Nat \cup {None} : [c EXCEPT !.time = x] \in CallRecords
  BY DEF CallRecords
<1>7. \A x \in Modules \cup {None} : [c EXCEPT !.module = x] \in CallRecords
  BY DEF CallRecords
<1>8. \A x \in {"failed", "rebuilt", "returned"} : [c EXCEPT !.outcome = x] \in CallRecords
  BY DEF CallRecords
<1>9. \A x \in SUBSET Versions : [c EXCEPT !.versions = x] \in CallRecords
  BY DEF CallRecords
<1>10. [c EXCEPT !.disturbed = TRUE] \in CallRecords
  BY DEF CallRecords
<1> QED
  BY <1>1, <1>2, <1>3, <1>4, <1>5, <1>6, <1>7, <1>8, <1>9, <1>10

LEMMA DirectoriesClosed ==
  ASSUME NEW d \in Directories
  PROVE  /\ \A n \in 1..HashFile, x \in FileContents : [d EXCEPT !.files[n] = x] \in Directories
         /\ \A x \in Stamps : [d EXCEPT !.stamp = x] \in Directories
         /\ \A x \in Tools : [d EXCEPT !.configured = x] \in Directories
         /\ \A x \in BOOLEAN : [d EXCEPT !.touched = x] \in Directories
         /\ \A x \in BOOLEAN : [d EXCEPT !.shared = x] \in Directories
         /\ \A x \in Modules : [d EXCEPT !.module = x] \in Directories
         /\ \A x \in Nat : [d EXCEPT !.time = x] \in Directories
BY DEF Directories

(* What a step of another process may do to a call, and to the directory of its key. *)
SameCall(q) == call'[q] = call[q] \/ call'[q] = [call[q] EXCEPT !.disturbed = TRUE]

Steady(q) ==
    LET old == directory[call[q].key]
        new == directory'[call[q].key]
    IN /\ \A n \in 1..FileCount : new.files[n] = old.files[n] \/ new.files[n] \in {Rendered(q), "empty"}
       /\ new.configured = old.configured \/ new.configured = tools
       /\ new.module = old.module \/ IsCode(q, new.module)
       /\ new.time \in Nat /\ new.time >= old.time
       /\ new.time = old.time => new.module = old.module

LEMMA SameFields ==
  ASSUME CacheTypes, NEW q \in Processes, SameCall(q)
  PROVE  /\ call'[q].at = call[q].at /\ call'[q].kind = call[q].kind
         /\ call'[q].described = call[q].described /\ call'[q].key = call[q].key
         /\ call'[q].next = call[q].next /\ call'[q].stamp = call[q].stamp
         /\ call'[q].time = call[q].time /\ call'[q].module = call[q].module
         /\ call'[q].outcome = call[q].outcome /\ call'[q].versions = call[q].versions
         /\ call'[q].tools = call[q].tools /\ call'[q].library = call[q].library
BY DEF CacheTypes, CallRecords, SameCall

LEMMA BystanderKeepsInv ==
  ASSUME CacheTypes, NEW q \in Processes, CallInv(q), SameCall(q),
         UNCHANGED <<library, tools, source>>, toolchain'[q] = toolchain[q], task'[q].at = task[q].at,
         HasKey(q) => Steady(q)
  PROVE  CallInv(q)'
<1> USE BuildCacheAssumption DEF At
<1>1. /\ call'[q].at = call[q].at /\ call'[q].kind = call[q].kind
      /\ call'[q].described = call[q].described /\ call'[q].key = call[q].key
      /\ call'[q].next = call[q].next /\ call'[q].stamp = call[q].stamp
      /\ call'[q].time = call[q].time /\ call'[q].module = call[q].module
      /\ call'[q].outcome = call[q].outcome /\ call'[q].versions = call[q].versions
      /\ call'[q].tools = call[q].tools /\ call'[q].library = call[q].library
  BY SameFields
<1>2. ToolsInv(q)'
  BY <1>1 DEF CallInv, ToolsInv, UnderWay
<1>3. KeyInv(q)'
  BY <1>1 DEF CallInv, KeyInv, HasKey
<1>4. Rendered(q)' = Rendered(q) /\ \A m : IsCode(q, m)' = IsCode(q, m)
  BY <1>1 DEF Rendered, IsCode
<1>5. WrittenInv(q)'
  BY <1>1, <1>4 DEF CallInv, WrittenInv, IsRendered, Dir, Steady, HasKey, Generating
<1>6. ConfiguredInv(q)'
  BY <1>1 DEF CallInv, ConfiguredInv, Dir, Steady, HasKey, Building, CacheTypes
<1>7. ModuleInv(q)'
  BY <1>1, <1>4 DEF CallInv, ModuleInv, KeyInv, Returned, Dir, Steady, HasKey, Building, CacheTypes, Directories
<1> QED
  BY <1>2, <1>3, <1>5, <1>6, <1>7 DEF CallInv

LEMMA CacheInitially == Init => CacheInv
<1> SUFFICES ASSUME Init PROVE CacheInv
  OBVIOUS
<1> USE BuildCacheAssumption, BuilderAssumption DEF Init, CacheInit
<1>1. NewCall \in CallRecords /\ Off \in CallRecords
  <2>1. NewCall \in CallRecords
    BY DEF NewCall, CallRecords, Points, HashFile
  <2> QED
    BY <2>1, CallRecordsClosed DEF Off, Points
<1>2. CacheTypes
  <2>1. NewDirectory \in Directories
    BY DEF Directories, FileContents, NewDirectory
  <2> QED
    BY <1>1, <2>1 DEF CacheTypes
<1>3. DirectoryInv
  <2>1. HashFile \in 1..HashFile /\ 1..FileCount \subseteq 1..HashFile
    BY DEF HashFile
  <2>2. \A k \in Keys : directory[k].stamp = None /\ directory[k].configured = None
                         /\ \A n \in 1..HashFile : directory[k].files[n] = None
    BY DEF NewDirectory
  <2> QED
    BY <2>1, <2>2 DEF DirectoryInv, FilesInv, StampInv, IsWritten
<1>4. \A p \in Processes : CallInv(p)
  <2>1. \A p \in Processes : call[p].at = "off"
    BY DEF Off, NewCall
  <2> QED
    BY <2>1 DEF CallInv, ToolsInv, KeyInv, WrittenInv, ConfiguredInv, ModuleInv, UnderWay, HasKey, Returned, At,
                Reading, Parsing, Generating, Building
<1>5. \A p \in Processes, k \in Keys : LoadedInv(p, k)
  BY DEF LoadedInv
<1> QED
  BY <1>2, <1>3, <1>4, <1>5 DEF CacheInv

-----------------------------------------------------------------------------
(* Steps that leave the directories alone. *)

QuietStep(p) ==
    /\ UNCHANGED <<library, tools, directory, toolchain, loaded, source>>
    /\ call' \in [Processes -> CallRecords]
    /\ parsed' \in [Processes -> [described : Versions, digest : Versions] \cup {None}]
    /\ \A q \in Processes \ {p} : SameCall(q) /\ task'[q].at = task[q].at

LEMMA QuietKeepsInv ==
  ASSUME CacheInv, NEW p \in Processes, QuietStep(p), CallInv(p)'
  PROVE  CacheInv'
<1>1. CacheTypes'
  BY DEF CacheInv, CacheTypes, QuietStep
<1>2. DirectoryInv'
  BY DEF CacheInv, DirectoryInv, FilesInv, StampInv, IsFrom, QuietStep
<1>3. \A q \in Processes : CallInv(q)'
  <2> TAKE q \in Processes
  <2>1. CASE q = p
    BY <2>1
  <2>2. CASE q # p
    <3>1. HasKey(q) => Steady(q)
      BY DEF HasKey, Steady, QuietStep, CacheInv, CacheTypes, Directories, CallInv, KeyInv
    <3> QED
      BY <2>2, <3>1, BystanderKeepsInv DEF CacheInv, QuietStep
  <2> QED
    BY <2>1, <2>2
<1>4. \A q \in Processes, k \in Keys : LoadedInv(q, k)'
  BY DEF CacheInv, LoadedInv, QuietStep
<1> QED
  BY <1>1, <1>2, <1>3, <1>4 DEF CacheInv

(* While a call reads the sources, and when it fails, only what it knows of them matters. *)
LEMMA ReadingKeepsInv ==
  ASSUME CacheInv, NEW p \in Processes, QuietStep(p), UnderWay(p),
         call'[p].at \in Reading \/ (call'[p].at = "ready" /\ call'[p].outcome # "returned"),
         call'[p].kind = call[p].kind, call'[p].versions = call[p].versions,
         call'[p].tools = call[p].tools, call'[p].library = call[p].library,
         KeyInv(p)'
  PROVE  CacheInv'
<1>1. ToolsInv(p)'
  BY DEF CacheInv, CallInv, ToolsInv, UnderWay, QuietStep, At, Reading, Parsing, Generating, Building
<1>2. WrittenInv(p)' /\ ConfiguredInv(p)' /\ ModuleInv(p)'
  BY DEF WrittenInv, ConfiguredInv, ModuleInv, Returned, At, Reading, Parsing, Generating, Building
<1> QED
  BY <1>1, <1>2, QuietKeepsInv DEF CallInv

LEMMA QuietlyIsQuiet ==
  ASSUME CacheInv, NEW p \in Processes, NEW c \in CallRecords, Quietly(p, c) \/ Visibly(p, c)
  PROVE  /\ call' \in [Processes -> CallRecords]
         /\ call'[p] = c
         /\ \A q \in Processes \ {p} : SameCall(q)
<1>1. CASE Quietly(p, c)
  BY <1>1 DEF CacheInv, CacheTypes, Quietly, SameCall
<1>2. CASE Visibly(p, c)
  <2>1. \A q \in Processes : [call[q] EXCEPT !.disturbed = TRUE] \in CallRecords
    BY CallRecordsClosed DEF CacheInv, CacheTypes
  <2> QED
    BY <1>2, <2>1 DEF CacheInv, CacheTypes, Visibly, SameCall
<1> QED
  BY <1>1, <1>2

LEMMA EndedFields ==
  ASSUME CacheTypes, NEW p \in Processes,
         NEW o \in {"failed", "rebuilt", "returned"}, NEW m \in Modules \cup {None}
  PROVE  LET c == Ended(p, o, m)
         IN /\ c \in CallRecords
            /\ c.at = "ready" /\ c.outcome = o /\ c.module = m
            /\ c.kind = call[p].kind /\ c.versions = call[p].versions /\ c.key = call[p].key
            /\ c.tools = call[p].tools /\ c.library = call[p].library /\ c.disturbed = call[p].disturbed
<1> DEFINE c1 == [call[p] EXCEPT !.at = "ready"]
           c2 == [c1 EXCEPT !.outcome = o]
           c3 == [c2 EXCEPT !.next = 1]
           c4 == [c3 EXCEPT !.stamp = None]
           c5 == [c4 EXCEPT !.time = None]
           c6 == [c5 EXCEPT !.module = m]
<1> HIDE DEF CallRecords
<1>1. call[p] \in CallRecords /\ 1 \in 1..HashFile
  BY BuildCacheAssumption DEF CacheTypes, HashFile
<1>2. c1 \in CallRecords
  BY <1>1, CallRecordsClosed DEF Points
<1>3. c2 \in CallRecords
  BY <1>2, CallRecordsClosed
<1>4. c3 \in CallRecords
  BY <1>1, <1>3, CallRecordsClosed
<1>5. c4 \in CallRecords
  BY <1>4, CallRecordsClosed
<1>6. c5 \in CallRecords
  BY <1>5, CallRecordsClosed
<1>7. c6 \in CallRecords
  BY <1>6, CallRecordsClosed
<1>8. Ended(p, o, m) = c6
  BY DEF Ended
<1>9. /\ c6.at = "ready" /\ c6.outcome = o /\ c6.module = m
      /\ c6.kind = call[p].kind /\ c6.versions = call[p].versions /\ c6.key = call[p].key
      /\ c6.tools = call[p].tools /\ c6.library = call[p].library /\ c6.disturbed = call[p].disturbed
  BY <1>1 DEF CallRecords
<1> QED
  BY <1>7, <1>8, <1>9

LEMMA GoToFields ==
  ASSUME CacheTypes, NEW p \in Processes, NEW x \in Points
  PROVE  LET c == GoTo(p, x)
         IN /\ c \in CallRecords
            /\ c.at = x
            /\ c.kind = call[p].kind /\ c.described = call[p].described /\ c.key = call[p].key
            /\ c.next = call[p].next /\ c.stamp = call[p].stamp /\ c.time = call[p].time
            /\ c.module = call[p].module /\ c.versions = call[p].versions
            /\ c.tools = call[p].tools /\ c.library = call[p].library /\ c.disturbed = call[p].disturbed
<1>1. call[p] \in CallRecords
  BY DEF CacheTypes
<1>2. GoTo(p, x) \in CallRecords
  BY <1>1, CallRecordsClosed DEF GoTo
<1> QED
  BY <1>1, <1>2 DEF GoTo, CallRecords

(* A call fails, with nothing else changed. *)
LEMMA FailingKeepsInv ==
  ASSUME CacheInv, NEW p \in Processes, UnderWay(p), Quietly(p, Ended(p, "failed", None)) ,
         UNCHANGED <<library, tools, directory, toolchain, loaded, source, parsed>>,
         \A q \in Processes \ {p} : task'[q].at = task[q].at
  PROVE  CacheInv'
<1> DEFINE c == Ended(p, "failed", None)
<1>1. /\ c \in CallRecords /\ c.at = "ready" /\ c.outcome = "failed"
      /\ c.kind = call[p].kind /\ c.versions = call[p].versions
      /\ c.tools = call[p].tools /\ c.library = call[p].library
  BY EndedFields DEF CacheInv
<1> HIDE DEF c
<1>2. call' \in [Processes -> CallRecords] /\ call'[p] = c /\ \A q \in Processes \ {p} : SameCall(q)
  BY <1>1, QuietlyIsQuiet DEF c
<1>3. QuietStep(p)
  BY <1>2 DEF QuietStep, CacheInv, CacheTypes
<1>4. KeyInv(p)'
  BY <1>1, <1>2 DEF KeyInv, At, HasKey, Parsing, Generating, Building
<1> QED
  BY <1>1, <1>2, <1>3, <1>4, ReadingKeepsInv

(* A call goes on to another point of reading. *)
LEMMA GoingOnKeepsInv ==
  ASSUME CacheInv, NEW p \in Processes, call[p].at \in Parsing, NEW x \in Parsing \ {"digest"},
         Quietly(p, GoTo(p, x)) \/ Visibly(p, GoTo(p, x)),
         UNCHANGED <<library, tools, directory, toolchain, loaded, source, parsed>>,
         \A q \in Processes \ {p} : task'[q].at = task[q].at
  PROVE  CacheInv'
<1> DEFINE c == GoTo(p, x)
<1>1. /\ c \in CallRecords /\ c.at = x
      /\ c.kind = call[p].kind /\ c.versions = call[p].versions
      /\ c.tools = call[p].tools /\ c.library = call[p].library
  BY GoToFields DEF CacheInv, Points, Reading, Parsing
<1> HIDE DEF c
<1>2. call' \in [Processes -> CallRecords] /\ call'[p] = c /\ \A q \in Processes \ {p} : SameCall(q)
  BY <1>1, QuietlyIsQuiet DEF c
<1>3. QuietStep(p)
  BY <1>2 DEF QuietStep, CacheInv, CacheTypes
<1>4. KeyInv(p)'
  BY <1>1, <1>2 DEF KeyInv, CacheInv, CallInv, At, HasKey, Generating, Building, Parsing
<1> QED
  BY <1>1, <1>2, <1>3, <1>4, ReadingKeepsInv DEF UnderWay, Reading, Parsing

Reads(p) ==
    \/ ReadArguments(p) \/ WriteArguments(p) \/ Parse(p) \/ DigestHeader(p)
    \/ TranspileStep(p) \/ TranspileFails(p) \/ Describe(p) \/ MakeKey(p)

(* What is read is a version of the source, unless it is incomplete. *)
LEMMA ContentsAre ==
  ASSUME TranspileInv, NEW p \in Processes, call[p].kind = "vhdl" => task[p].at = "found"
  PROVE  Contents(p) \in Versions \cup {"empty"}
BY DEF TranspileInv, TranspileTypes, VhdlContents, TaskInv, Contents, Vhdl!Digest

LEMMA ReadsKeepsInv ==
  ASSUME BuilderInv, NEW p \in Processes, Reads(p)
  PROVE  CacheInv'
<1> USE DEF KeepRest, KeepCache, KeepFiles, frontVars, vhdlVars, bounds
<1>0. CacheInv /\ CacheTypes /\ TranspileInv /\ CallInv(p)
  BY DEF BuilderInv, CacheInv
<1>1. CASE ReadArguments(p)
  <2>1. call[p].at \in Parsing /\ UnderWay(p)
    BY <1>1 DEF ReadArguments, At, UnderWay, Reading, Parsing
  <2>2. \/ Quietly(p, GoTo(p, "ask")) \/ Quietly(p, GoTo(p, "parse"))
        \/ Quietly(p, Ended(p, "failed", None))
    <3>1. CASE arguments[toolchain[p]] = None
      BY <1>1, <3>1 DEF ReadArguments
    <3>2. CASE arguments[toolchain[p]] # None /\ arguments[toolchain[p]] = "empty"
      BY <1>1, <3>2 DEF ReadArguments
    <3>3. CASE arguments[toolchain[p]] # None /\ arguments[toolchain[p]] # "empty"
      BY <1>1, <3>3 DEF ReadArguments
    <3> QED
      BY <3>1, <3>2, <3>3
  <2>3. UNCHANGED <<library, tools, directory, toolchain, loaded, source, parsed, task>>
    BY <1>1 DEF ReadArguments
  <2> QED
    BY <1>0, <2>1, <2>2, <2>3, FailingKeepsInv, GoingOnKeepsInv DEF Parsing
<1>2. CASE WriteArguments(p)
  <2>1. call[p].at \in Parsing
    BY <1>2 DEF WriteArguments, At, Parsing
  <2>2. Visibly(p, GoTo(p, "answer")) \/ Visibly(p, GoTo(p, "parse"))
    BY <1>2 DEF WriteArguments
  <2>3. UNCHANGED <<library, tools, directory, toolchain, loaded, source, parsed, task>>
    BY <1>2 DEF WriteArguments
  <2> QED
    BY <1>0, <2>1, <2>2, <2>3, GoingOnKeepsInv DEF Parsing
<1>3. CASE Parse(p)
  <2> DEFINE c1 == [GoTo(p, "key") EXCEPT !.described = parsed[p].described]
             c2 == [GoTo(p, "digest") EXCEPT !.described = source]
             c == IF IsCurrent(p) THEN c1 ELSE c2
  <2>1. UnderWay(p) /\ At(p, "parse")
    BY <1>3 DEF Parse, At, UnderWay, Reading, Parsing
  <2>2. GoTo(p, "key") \in CallRecords /\ GoTo(p, "digest") \in CallRecords
    BY <1>0, GoToFields DEF Points, Reading, Parsing
  <2>3. /\ c1.at = "key" /\ c1.kind = call[p].kind /\ c1.versions = call[p].versions
        /\ c1.tools = call[p].tools /\ c1.library = call[p].library
        /\ c2.at = "digest" /\ c2.kind = call[p].kind /\ c2.versions = call[p].versions
        /\ c2.tools = call[p].tools /\ c2.library = call[p].library
        /\ c1.described = parsed[p].described /\ c2.described = source
    BY <1>0, <2>2, GoToFields DEF Points, Reading, Parsing, CallRecords
  <2>4. IsCurrent(p) => parsed[p].described \in Versions
    BY <1>0 DEF IsCurrent, CacheTypes
  <2>5. c \in CallRecords /\ c.described \in Versions
    BY <1>0, <2>2, <2>3, <2>4, CallRecordsClosed DEF TranspileInv, TranspileTypes
  <2>6. Quietly(p, c) /\ UNCHANGED <<library, tools, directory, toolchain, loaded, source, parsed, task>>
    BY <1>3 DEF Parse
  <2> HIDE DEF c1, c2
  <2>7. call' \in [Processes -> CallRecords] /\ call'[p] = c /\ \A q \in Processes \ {p} : SameCall(q)
    BY <1>0, <2>5, <2>6, QuietlyIsQuiet
  <2>8. QuietStep(p)
    BY <1>0, <2>6, <2>7 DEF QuietStep, CacheTypes
  <2>9. call[p].kind = "cpp"
    BY <1>0, <2>1 DEF CallInv, KeyInv, At, Parsing
  <2>10. KeyInv(p)'
    BY <2>3, <2>5, <2>7, <2>9 DEF KeyInv, At, HasKey, Generating, Building, Parsing
  <2> QED
    BY <1>0, <2>1, <2>3, <2>7, <2>8, <2>10, ReadingKeepsInv DEF Reading, Parsing
<1>4. CASE DigestHeader(p)
  <2> DEFINE c == GoTo(p, "key")
  <2>1. UnderWay(p) /\ At(p, "digest") /\ call[p].kind # "vhdl" /\ call[p].described \in Versions
    BY <1>0, <1>4 DEF DigestHeader, At, UnderWay, Reading, Parsing, CallInv, KeyInv
  <2>2. /\ c \in CallRecords /\ c.at = "key" /\ c.kind = call[p].kind /\ c.versions = call[p].versions
        /\ c.tools = call[p].tools /\ c.library = call[p].library /\ c.described = call[p].described
    BY <1>0, GoToFields DEF Points, Reading, Parsing
  <2>3. Quietly(p, c) /\ UNCHANGED <<library, tools, directory, toolchain, loaded, source, task>>
    BY <1>4 DEF DigestHeader
  <2>4. parsed' \in [Processes -> [described : Versions, digest : Versions] \cup {None}]
    BY <1>0, <1>4, <2>1 DEF DigestHeader, CacheTypes, TranspileInv, TranspileTypes
  <2> HIDE DEF c
  <2>5. call' \in [Processes -> CallRecords] /\ call'[p] = c /\ \A q \in Processes \ {p} : SameCall(q)
    BY <1>0, <2>2, <2>3, QuietlyIsQuiet
  <2>6. QuietStep(p)
    BY <2>3, <2>4, <2>5 DEF QuietStep
  <2>7. KeyInv(p)'
    BY <2>1, <2>2, <2>5 DEF KeyInv, At, HasKey, Generating, Building, Parsing
  <2> QED
    BY <1>0, <2>1, <2>2, <2>5, <2>6, <2>7, ReadingKeepsInv DEF Reading, Parsing
<1>5. CASE TranspileStep(p)
  <2> DEFINE c == IF task'[p].at = "found" THEN GoTo(p, "describe") ELSE call[p]
  <2>1. UnderWay(p) /\ At(p, "transpile") /\ call[p].kind = "vhdl"
    BY <1>0, <1>5 DEF TranspileStep, At, UnderWay, Reading, Parsing, CallInv, KeyInv
  <2>2. /\ c \in CallRecords /\ c.at = (IF task'[p].at = "found" THEN "describe" ELSE "transpile")
        /\ c.kind = call[p].kind /\ c.versions = call[p].versions
        /\ c.tools = call[p].tools /\ c.library = call[p].library
    BY <1>0, <2>1, GoToFields DEF Points, Reading, Parsing, At, CacheTypes
  <2>3. Visibly(p, c) /\ UNCHANGED <<library, tools, directory, toolchain, loaded, source, parsed>>
    BY <1>5 DEF TranspileStep, Vhdl!Transpiles, Vhdl!TakeDigest, Vhdl!LookUp, Vhdl!Analyze, Vhdl!Synthesize,
                Vhdl!OpenTemporary, Vhdl!WriteTemporary, Vhdl!Replace
  <2>4. \A q \in Processes \ {p} : task'[q].at = task[q].at
    <3>1. \A q \in Processes : task[q] \in TaskRecords
      BY <1>0 DEF TranspileInv, TranspileTypes
    <3> QED
      BY <1>0, <1>5, <3>1 DEF TranspileInv, TranspileTypes, TaskRecords,
                TranspileStep, Vhdl!Transpiles, Vhdl!TakeDigest, Vhdl!LookUp, Vhdl!Analyze, Vhdl!Synthesize,
                Vhdl!OpenTemporary, Vhdl!WriteTemporary, Vhdl!Replace, Vhdl!Moves
  <2> HIDE DEF c
  <2>5. call' \in [Processes -> CallRecords] /\ call'[p] = c /\ \A q \in Processes \ {p} : SameCall(q)
    BY <1>0, <2>2, <2>3, QuietlyIsQuiet
  <2>6. QuietStep(p)
    BY <1>0, <2>3, <2>4, <2>5 DEF QuietStep, CacheTypes
  <2>7. KeyInv(p)'
    BY <2>1, <2>2, <2>5 DEF KeyInv, At, HasKey, Generating, Building, Parsing
  <2> QED
    BY <1>0, <2>1, <2>2, <2>5, <2>6, <2>7, ReadingKeepsInv DEF Reading, Parsing
<1>6. CASE TranspileFails(p)
  <2>1. UnderWay(p) /\ Quietly(p, Ended(p, "failed", None))
    BY <1>6 DEF TranspileFails, At, UnderWay, Reading, Parsing
  <2>2. UNCHANGED <<library, tools, directory, toolchain, loaded, source, parsed>>
    BY <1>6 DEF TranspileFails
  <2>3. \A q \in Processes \ {p} : task'[q].at = task[q].at
    BY <1>0, <1>6 DEF TranspileFails, TranspileInv, TranspileTypes
  <2> QED
    BY <1>0, <2>1, <2>2, <2>3, FailingKeepsInv
<1>7. CASE Describe(p)
  <2>1. UnderWay(p) /\ At(p, "describe") /\ Contents(p) \in Versions \cup {"empty"}
    BY <1>0, <1>7, ContentsAre DEF Describe, At, UnderWay, Reading, Parsing, CallInv, KeyInv
  <2>2. UNCHANGED <<library, tools, directory, toolchain, loaded, source, parsed>>
    BY <1>7 DEF Describe, KeepTask
  <2>3. \A q \in Processes \ {p} : task'[q].at = task[q].at
    BY <1>0, <1>7 DEF Describe, KeepTask, TranspileInv, TranspileTypes
  <2>4. CASE Contents(p) = "empty"
    BY <1>0, <1>7, <2>1, <2>2, <2>3, <2>4, FailingKeepsInv DEF Describe
  <2>5. CASE Contents(p) # "empty"
    <3> DEFINE c == [GoTo(p, "key") EXCEPT !.described = Contents(p)]
    <3>1. GoTo(p, "key") \in CallRecords
      BY <1>0, GoToFields DEF Points, Reading, Parsing
    <3>2. c \in CallRecords
      BY <2>1, <2>5, <3>1, CallRecordsClosed
    <3>3. /\ c.at = "key" /\ c.kind = call[p].kind /\ c.versions = call[p].versions
          /\ c.tools = call[p].tools /\ c.library = call[p].library /\ c.described = Contents(p)
      BY <1>0, <3>1, GoToFields DEF Points, Reading, Parsing, CallRecords
    <3>4. Quietly(p, c)
      BY <1>7, <2>5 DEF Describe
    <3> HIDE DEF c
    <3>5. call' \in [Processes -> CallRecords] /\ call'[p] = c /\ \A q \in Processes \ {p} : SameCall(q)
      BY <1>0, <3>2, <3>4, QuietlyIsQuiet
    <3>6. QuietStep(p)
      BY <1>0, <2>2, <2>3, <3>5 DEF QuietStep, CacheTypes
    <3>7. call[p].kind = "vhdl" => task'[p].at = "found"
      BY <1>0, <1>7, <2>1, <3>3, <3>5 DEF Describe, KeepTask, Finishes, CallInv, KeyInv, At
    <3>8. KeyInv(p)'
      BY <2>1, <2>5, <3>3, <3>5, <3>7 DEF KeyInv, At, HasKey, Generating, Building, Parsing
    <3> QED
      BY <1>0, <2>1, <3>3, <3>5, <3>6, <3>8, ReadingKeepsInv DEF Reading, Parsing
  <2> QED
    BY <2>4, <2>5
<1>8. CASE MakeKey(p)
  <2>1. UnderWay(p) /\ At(p, "key") /\ Contents(p) \in Versions \cup {"empty"}
    BY <1>0, <1>8, ContentsAre DEF MakeKey, At, UnderWay, Reading, Parsing, CallInv, KeyInv
  <2>2. UNCHANGED <<library, tools, directory, toolchain, loaded, source, parsed>>
    BY <1>8 DEF MakeKey, KeepTask
  <2>3. \A q \in Processes \ {p} : task'[q].at = task[q].at
    BY <1>0, <1>8 DEF MakeKey, KeepTask, TranspileInv, TranspileTypes
  <2>4. CASE Contents(p) = "empty"
    BY <1>0, <1>8, <2>1, <2>2, <2>3, <2>4, FailingKeepsInv DEF MakeKey
  <2>5. CASE Contents(p) # "empty"
    <3> DEFINE key == [kind |-> call[p].kind, described |-> call[p].described, contents |-> Contents(p)]
               c == [GoTo(p, "generate") EXCEPT !.key = key]
    <3>1. GoTo(p, "generate") \in CallRecords
      BY <1>0, GoToFields DEF Points, Generating
    <3>2. key \in Keys /\ key.kind = call[p].kind
      BY <1>0, <2>1, <2>5 DEF Keys, CallInv, KeyInv, ToolsInv
    <3> HIDE DEF key
    <3>3. c \in CallRecords
      BY <3>1, <3>2, CallRecordsClosed
    <3>4. /\ c.at = "generate" /\ c.kind = call[p].kind /\ c.versions = call[p].versions
          /\ c.tools = call[p].tools /\ c.library = call[p].library /\ c.key = key
      BY <1>0, <3>1, GoToFields DEF Points, Generating, CallRecords
    <3>5. Quietly(p, c)
      BY <1>8, <2>5 DEF MakeKey, key
    <3> HIDE DEF c
    <3>6. call' \in [Processes -> CallRecords] /\ call'[p] = c /\ \A q \in Processes \ {p} : SameCall(q)
      BY <1>0, <3>3, <3>5, QuietlyIsQuiet
    <3>7. QuietStep(p)
      BY <1>0, <2>2, <2>3, <3>6 DEF QuietStep, CacheTypes
    <3>8. ToolsInv(p)'
      BY <1>0, <2>1, <3>4, <3>6, <3>7 DEF CallInv, ToolsInv, UnderWay, QuietStep, At, Reading, Parsing
    <3>9. KeyInv(p)'
      <4>1. call[p].kind = "vhdl" => task'[p].at = "found"
        BY <1>0, <1>8, <2>1, <3>4, <3>6 DEF MakeKey, KeepTask, Finishes, CallInv, KeyInv
      <4> QED
        BY <3>2, <3>4, <3>6, <4>1 DEF KeyInv, At, Parsing
    <3>10. WrittenInv(p)' /\ ConfiguredInv(p)' /\ ModuleInv(p)'
      BY <3>4, <3>6 DEF WrittenInv, ConfiguredInv, ModuleInv, Returned, At, Building
    <3> QED
      BY <1>0, <3>7, <3>8, <3>9, <3>10, QuietKeepsInv DEF CallInv
  <2> QED
    BY <2>4, <2>5
<1> QED
  BY <1>1, <1>2, <1>3, <1>4, <1>5, <1>6, <1>7, <1>8 DEF Reads

-----------------------------------------------------------------------------
(* Steps in the directory of the build. *)

LEMMA UnderWayFacts ==
  ASSUME CacheInv, NEW p \in Processes, UnderWay(p)
  PROVE  /\ toolchain[p] = tools /\ tools \in Tools /\ tools \in Nat /\ Rendered(p) = Template[tools]
         /\ Rendered(p) \in FileContents /\ IsWritten(Rendered(p))
         /\ HasKey(p) => call[p].key \in Keys /\ Dir(p) \in Directories
BY BuildCacheAssumption DEF CacheInv, CacheTypes, CallInv, ToolsInv, KeyInv, Dir, Rendered, UnderWay, At,
   FileContents, IsWritten, Reading, Parsing, Generating, Building

LEMMA KeyIsUnderWay ==
  ASSUME NEW p \in Processes, HasKey(p)
  PROVE  UnderWay(p)
BY DEF HasKey, UnderWay

(* Only the directory of the key of p changes, and it becomes d. *)
DirectoryStep(p, d) ==
    /\ UNCHANGED <<library, tools, toolchain, loaded, source, parsed>>
    /\ call' \in [Processes -> CallRecords]
    /\ d \in Directories
    /\ directory' = [directory EXCEPT ![call[p].key] = d]
    /\ \A q \in Processes \ {p} : SameCall(q) /\ task'[q].at = task[q].at

LEMMA DirectoryKeepsInv ==
  ASSUME CacheInv, NEW p \in Processes, HasKey(p), NEW d, DirectoryStep(p, d),
         CallInv(p)', \A k \in Keys : k = call[p].key => FilesInv(k)' /\ StampInv(k)',
         d.time >= Dir(p).time, d.time = Dir(p).time => d.module = Dir(p).module,
         \A q \in Processes \ {p} : HasKey(q) /\ call[q].key = call[p].key => Steady(q)
  PROVE  CacheInv'
<1>0. call[p].key \in Keys /\ directory \in [Keys -> Directories]
  BY DEF CacheInv, CacheTypes, CallInv, KeyInv
<1>a. directory'[call[p].key] = d /\ \A k \in Keys : k # call[p].key => directory'[k] = directory[k]
  BY <1>0 DEF DirectoryStep
<1>1. CacheTypes'
  BY <1>0 DEF CacheInv, CacheTypes, DirectoryStep
<1>2. DirectoryInv'
  <2> SUFFICES ASSUME NEW k \in Keys PROVE FilesInv(k)' /\ StampInv(k)'
    BY DEF DirectoryInv
  <2>1. CASE k # call[p].key
    BY <1>a, <2>1 DEF CacheInv, DirectoryInv, FilesInv, StampInv, IsFrom, DirectoryStep
  <2>2. CASE k = call[p].key
    BY <2>2
  <2> QED
    BY <2>1, <2>2
<1>3. \A q \in Processes : CallInv(q)'
  <2> TAKE q \in Processes
  <2>1. CASE q = p
    BY <2>1
  <2>2. CASE q # p
    <3>1. HasKey(q) => Steady(q)
      <4>1. HasKey(q) => call[q].key \in Keys
        BY DEF CacheInv, CallInv, KeyInv
      <4>2. CASE call[q].key = call[p].key
        BY <2>2, <4>2
      <4>3. CASE call[q].key # call[p].key
        BY <1>a, <1>0, <4>1, <4>3 DEF Steady, Directories
      <4> QED
        BY <4>2, <4>3
    <3> QED
      BY <2>2, <3>1, BystanderKeepsInv DEF CacheInv, DirectoryStep
  <2> QED
    BY <2>1, <2>2
<1>4. \A q \in Processes, k \in Keys : LoadedInv(q, k)'
  <2> TAKE q \in Processes, k \in Keys
  <2>1. CASE k # call[p].key
    BY <1>a, <2>1 DEF CacheInv, LoadedInv, DirectoryStep
  <2>2. CASE k = call[p].key
    BY <1>0, <1>a, <2>2 DEF CacheInv, CacheTypes, LoadedInv, DirectoryStep, Dir, Directories, Entries
  <2> QED
    BY <2>1, <2>2
<1> QED
  BY <1>1, <1>2, <1>3, <1>4 DEF CacheInv

(* The hash: no hash of other templates, nor of older ones, passes for it. *)
LEMMA CompareHashKeepsInv ==
  ASSUME BuilderInv, NEW p \in Processes, CompareHash(p), KeepTask(p)
  PROVE  CacheInv'
<1>0. /\ CacheInv /\ CacheTypes /\ CallInv(p) /\ HasKey(p) /\ UnderWay(p) /\ At(p, "generate")
      /\ call[p] \in CallRecords
  BY DEF BuilderInv, CacheInv, CacheTypes, CompareHash, At, HasKey, UnderWay, Generating
<1>1. /\ toolchain[p] = tools /\ tools \in Tools /\ tools \in Nat /\ Rendered(p) = Template[tools]
      /\ call[p].key \in Keys /\ Dir(p) \in Directories /\ IsWritten(Rendered(p))
  BY <1>0, UnderWayFacts
<1>2. UNCHANGED <<library, tools, toolchain, loaded, source, parsed>>
  BY DEF CompareHash, KeepTask, frontVars
<1>3. CASE Dir(p).files[HashFile] = Rendered(p)
  <2> DEFINE c == GoTo(p, "stamp")
  <2>1. c \in CallRecords /\ c.at = "stamp" /\ c.kind = call[p].kind /\ c.versions = call[p].versions
        /\ c.key = call[p].key /\ c.tools = call[p].tools /\ c.library = call[p].library
    BY <1>0, GoToFields DEF Points, Building
  <2>2. Quietly(p, c) /\ directory' = directory
    BY <1>3 DEF CompareHash
  <2> HIDE DEF c
  <2>3. call' \in [Processes -> CallRecords] /\ call'[p] = c /\ \A q \in Processes \ {p} : SameCall(q)
    BY <1>0, <2>1, <2>2, QuietlyIsQuiet
  <2>4. task' = task
    BY <2>1, <2>3 DEF KeepTask, Finishes
  <2>5. QuietStep(p)
    BY <1>0, <1>2, <2>2, <2>3, <2>4 DEF QuietStep, CacheTypes
  <2>6. \A n \in 1..FileCount : IsRendered(p, n)
    <3>1. PICK u \in Tools : /\ u <= tools /\ Template[u] = Template[tools]
                             /\ \A n \in 1..FileCount : Dir(p).files[n] = "empty" \/ IsFrom(Dir(p).files[n], u)
      BY <1>0, <1>1, <1>3 DEF CacheInv, DirectoryInv, FilesInv, Dir
    <3> QED
      BY <1>1, <3>1, BuildCacheAssumption DEF IsFrom, IsRendered
  <2>7. WrittenInv(p)'
    BY <1>2, <2>1, <2>2, <2>3, <2>6 DEF WrittenInv, IsRendered, Dir, Rendered
  <2>8. ToolsInv(p)' /\ KeyInv(p)' /\ ConfiguredInv(p)' /\ ModuleInv(p)'
    BY <1>0, <1>2, <2>1, <2>2, <2>3, <2>4 DEF CallInv, ToolsInv, KeyInv, ConfiguredInv, ModuleInv, Returned, At,
       UnderWay, HasKey, Generating, Building, Reading, Parsing
  <2> QED
    BY <1>0, <2>5, <2>7, <2>8, QuietKeepsInv DEF CallInv
<1>4. CASE Dir(p).files[HashFile] # Rendered(p)
  <2> DEFINE c0 == GoTo(p, "open")
             c == [c0 EXCEPT !.next = 1]
             d == [Dir(p) EXCEPT !.shared = @ \/ AlsoGenerated(p)]
  <2>1. c \in CallRecords /\ c.at = "open" /\ c.kind = call[p].kind /\ c.versions = call[p].versions
        /\ c.key = call[p].key /\ c.tools = call[p].tools /\ c.library = call[p].library /\ c.next = 1
    <3>1. c0 \in CallRecords /\ c0.at = "open" /\ c0.kind = call[p].kind /\ c0.versions = call[p].versions
          /\ c0.key = call[p].key /\ c0.tools = call[p].tools /\ c0.library = call[p].library
      BY <1>0, GoToFields DEF Points, Generating
    <3> HIDE DEF c0
    <3>2. c \in CallRecords
      <4>1. 1 \in 1..HashFile
        BY BuildCacheAssumption DEF HashFile
      <4> QED
        BY <3>1, <4>1, CallRecordsClosed
    <3> QED
      BY <3>1, <3>2 DEF CallRecords
  <2>2. Quietly(p, c) /\ directory' = [directory EXCEPT ![call[p].key] = d]
    BY <1>4 DEF CompareHash, Dir
  <2>3. d \in Directories /\ d.files = Dir(p).files /\ d.configured = Dir(p).configured /\ d.stamp = Dir(p).stamp
        /\ d.module = Dir(p).module /\ d.time = Dir(p).time /\ d.time \in Nat
    <3>1. (Dir(p).shared \/ AlsoGenerated(p)) \in BOOLEAN
      BY <1>1 DEF Directories, AlsoGenerated
    <3>2. d \in Directories
      BY <1>1, <3>1, DirectoriesClosed
    <3> QED
      BY <1>1, <3>2 DEF Directories
  <2> HIDE DEF c, d
  <2>4. call' \in [Processes -> CallRecords] /\ call'[p] = c /\ \A q \in Processes \ {p} : SameCall(q)
    BY <1>0, <2>1, <2>2, QuietlyIsQuiet
  <2>5. task' = task
    BY <2>1, <2>4 DEF KeepTask, Finishes
  <2>6. DirectoryStep(p, d)
    BY <1>2, <2>2, <2>3, <2>4, <2>5 DEF DirectoryStep
  <2>7. directory'[call[p].key] = d
    BY <1>0, <1>1, <2>2 DEF CacheTypes
  <2>8. \A k \in Keys : k = call[p].key => FilesInv(k)' /\ StampInv(k)'
    <3>1. FilesInv(call[p].key) /\ StampInv(call[p].key)
      BY <1>0, <1>1 DEF CacheInv, DirectoryInv
    <3>2. \A k \in Keys : k = call[p].key => FilesInv(k)'
      BY <1>2, <2>3, <2>7, <3>1 DEF FilesInv, IsFrom, Dir
    <3>3. \A k \in Keys : k = call[p].key => StampInv(k)'
      BY <1>2, <2>3, <2>7, <3>1 DEF StampInv, Dir
    <3> QED
      BY <3>2, <3>3
  <2>9. \A q \in Processes \ {p} : HasKey(q) /\ call[q].key = call[p].key => Steady(q)
    BY <2>3, <2>7 DEF Steady, Dir
  <2>10. CallInv(p)'
    BY <1>0, <1>2, <2>1, <2>4, <2>5 DEF CallInv, ToolsInv, KeyInv, WrittenInv, ConfiguredInv, ModuleInv, Returned,
       At, UnderWay, HasKey, Generating, Building, Reading, Parsing
  <2> QED
    BY <1>0, <2>3, <2>6, <2>8, <2>9, <2>10, DirectoryKeepsInv
<1> QED
  BY <1>3, <1>4

(* The facts that every step in a directory starts from. *)
LEMMA StepFacts ==
  ASSUME BuilderInv, NEW p \in Processes, HasKey(p)
  PROVE  /\ CacheInv /\ CacheTypes /\ CallInv(p) /\ UnderWay(p) /\ call[p] \in CallRecords
         /\ toolchain[p] = tools /\ tools \in Tools /\ tools \in Nat
         /\ Rendered(p) = Template[tools] /\ Rendered(p) \in FileContents /\ IsWritten(Rendered(p))
         /\ call[p].key \in Keys /\ Dir(p) \in Directories
         /\ \A q \in Processes : HasKey(q) => Rendered(q) = Rendered(p)
<1>1. CacheInv /\ CacheTypes /\ CallInv(p) /\ UnderWay(p) /\ call[p] \in CallRecords
  BY KeyIsUnderWay DEF BuilderInv, CacheInv, CacheTypes
<1>2. \A q \in Processes : HasKey(q) => Rendered(q) = Template[tools]
  BY <1>1, KeyIsUnderWay, UnderWayFacts
<1> QED
  BY <1>1, <1>2, UnderWayFacts

LEMMA OpenFileKeepsInv ==
  ASSUME BuilderInv, NEW p \in Processes, OpenFile(p), KeepTask(p)
  PROVE  CacheInv'
<1>a. HasKey(p) /\ At(p, "open")
  BY DEF OpenFile, At, HasKey, Generating
<1>0. /\ CacheInv /\ CacheTypes /\ CallInv(p) /\ UnderWay(p) /\ call[p] \in CallRecords
      /\ toolchain[p] = tools /\ tools \in Tools /\ tools \in Nat
      /\ call[p].key \in Keys /\ Dir(p) \in Directories
  BY <1>a, StepFacts
<1>1. UNCHANGED <<library, tools, toolchain, loaded, source, parsed>>
  BY DEF OpenFile, WriteTo, KeepTask, frontVars
<1> DEFINE c == GoTo(p, "write")
           d0 == [Dir(p) EXCEPT !.files[call[p].next] = "empty"]
           d == [d0 EXCEPT !.touched = TRUE]
<1>2. /\ c \in CallRecords /\ c.at = "write" /\ c.kind = call[p].kind /\ c.versions = call[p].versions
      /\ c.key = call[p].key /\ c.tools = call[p].tools /\ c.library = call[p].library /\ c.next = call[p].next
  BY <1>0, GoToFields DEF Points, Generating
<1>3. Visibly(p, c) /\ directory' = [directory EXCEPT ![call[p].key] = d]
  BY DEF OpenFile, WriteTo, FileAt, Dir
<1>4. call[p].next \in 1..HashFile
  BY <1>0 DEF CallRecords
<1>5. /\ d \in Directories /\ d.configured = Dir(p).configured /\ d.stamp = Dir(p).stamp
      /\ d.module = Dir(p).module /\ d.time = Dir(p).time /\ d.time \in Nat
      /\ d.files = [Dir(p).files EXCEPT ![call[p].next] = "empty"]
      /\ Dir(p).files \in [1..HashFile -> FileContents]
  <2>1. d0 \in Directories /\ d \in Directories
    <3>1. d0 \in Directories
      BY <1>0, <1>4, DirectoriesClosed DEF FileContents
    <3> HIDE DEF d0
    <3> QED
      BY <3>1, DirectoriesClosed
  <2> QED
    BY <1>0, <2>1 DEF Directories
<1> HIDE DEF c, d
<1>6. call' \in [Processes -> CallRecords] /\ call'[p] = c /\ \A q \in Processes \ {p} : SameCall(q)
  BY <1>0, <1>2, <1>3, QuietlyIsQuiet
<1>7. task' = task
  BY <1>2, <1>6 DEF KeepTask, Finishes
<1>8. DirectoryStep(p, d)
  BY <1>1, <1>3, <1>5, <1>6, <1>7 DEF DirectoryStep
<1>9. directory'[call[p].key] = d
  BY <1>0, <1>3 DEF CacheTypes
<1>10. \A n \in 1..HashFile : d.files[n] = IF n = call[p].next THEN "empty" ELSE Dir(p).files[n]
  BY <1>5
<1>11. 1..FileCount \subseteq 1..HashFile /\ HashFile \in 1..HashFile /\ call[p].next \in Int
  BY <1>4, BuildCacheAssumption DEF HashFile
<1>12. \A k \in Keys : k = call[p].key => FilesInv(k)' /\ StampInv(k)'
  <2>1. FilesInv(call[p].key) /\ StampInv(call[p].key)
    BY <1>0 DEF CacheInv, DirectoryInv
  <2>2. \A k \in Keys : k = call[p].key => StampInv(k)'
    BY <1>1, <1>5, <1>9, <2>1 DEF StampInv, Dir
  <2>3. \A k \in Keys : k = call[p].key => FilesInv(k)'
    BY <1>1, <1>9, <1>10, <1>11, <2>1 DEF FilesInv, IsFrom, Dir, IsWritten
  <2> QED
    BY <2>2, <2>3
<1>13. \A q \in Processes \ {p} : HasKey(q) /\ call[q].key = call[p].key => Steady(q)
  BY <1>5, <1>9, <1>10, <1>11 DEF Steady, Dir
<1>14. WrittenInv(p)'
  BY <1>0, <1>a, <1>1, <1>2, <1>6, <1>9, <1>10, <1>11
     DEF CallInv, WrittenInv, IsRendered, Dir, Rendered, At, Building
<1>15. ToolsInv(p)' /\ KeyInv(p)' /\ ConfiguredInv(p)' /\ ModuleInv(p)'
  BY <1>0, <1>a, <1>1, <1>2, <1>6, <1>7 DEF CallInv, ToolsInv, KeyInv, ConfiguredInv, ModuleInv, Returned,
     At, UnderWay, HasKey, Generating, Building, Reading, Parsing
<1> QED
  BY <1>0, <1>a, <1>5, <1>8, <1>12, <1>13, <1>14, <1>15, DirectoryKeepsInv DEF CallInv

LEMMA WriteFileKeepsInv ==
  ASSUME BuilderInv, NEW p \in Processes, WriteFile(p), KeepTask(p)
  PROVE  CacheInv'
<1>a. HasKey(p) /\ At(p, "write")
  BY DEF WriteFile, At, HasKey, Generating
<1>0. /\ CacheInv /\ CacheTypes /\ CallInv(p) /\ UnderWay(p) /\ call[p] \in CallRecords
      /\ toolchain[p] = tools /\ tools \in Tools /\ tools \in Nat
      /\ Rendered(p) = Template[tools] /\ Rendered(p) \in FileContents
      /\ call[p].key \in Keys /\ Dir(p) \in Directories
      /\ \A q \in Processes : HasKey(q) => Rendered(q) = Rendered(p)
  BY <1>a, StepFacts
<1>1. UNCHANGED <<library, tools, toolchain, loaded, source, parsed>>
  BY DEF WriteFile, WriteTo, KeepTask, frontVars
<1>4. call[p].next \in 1..HashFile /\ HashFile = FileCount + 1 /\ FileCount \in Nat
  BY <1>0, BuildCacheAssumption DEF CallRecords, HashFile
<1> DEFINE g == GoTo(p, "open")
           c == IF call[p].next = HashFile THEN GoTo(p, "stamp") ELSE [g EXCEPT !.next = @ + 1]
           d0 == [Dir(p) EXCEPT !.files[call[p].next] = Rendered(p)]
           d == [d0 EXCEPT !.touched = TRUE]
<1>2. /\ c \in CallRecords /\ c.kind = call[p].kind /\ c.versions = call[p].versions
      /\ c.key = call[p].key /\ c.tools = call[p].tools /\ c.library = call[p].library
      /\ IF call[p].next = HashFile THEN c.at = "stamp" ELSE c.at = "open" /\ c.next = call[p].next + 1
  <2>1. CASE call[p].next = HashFile
    BY <1>0, <2>1, GoToFields DEF Points, Building
  <2>2. CASE call[p].next # HashFile
    <3>1. /\ g \in CallRecords /\ g.kind = call[p].kind /\ g.versions = call[p].versions /\ g.next = call[p].next
          /\ g.key = call[p].key /\ g.tools = call[p].tools /\ g.library = call[p].library /\ g.at = "open"
      BY <1>0, GoToFields DEF Points, Generating
    <3> HIDE DEF g
    <3>2. call[p].next + 1 \in 1..HashFile
      BY <1>4, <2>2
    <3>3. c = [g EXCEPT !.next = call[p].next + 1]
      BY <2>2, <3>1
    <3>4. c \in CallRecords
      BY <3>1, <3>2, <3>3, CallRecordsClosed
    <3> QED
      BY <2>2, <3>1, <3>3, <3>4 DEF CallRecords
  <2> QED
    BY <2>1, <2>2
<1>3. Visibly(p, c) /\ directory' = [directory EXCEPT ![call[p].key] = d]
  BY DEF WriteFile, WriteTo, FileAt, Dir
<1>5. /\ d \in Directories /\ d.configured = Dir(p).configured /\ d.stamp = Dir(p).stamp
      /\ d.module = Dir(p).module /\ d.time = Dir(p).time /\ d.time \in Nat
      /\ d.files = [Dir(p).files EXCEPT ![call[p].next] = Rendered(p)]
      /\ Dir(p).files \in [1..HashFile -> FileContents]
  <2>1. d0 \in Directories /\ d \in Directories
    <3>1. d0 \in Directories
      BY <1>0, <1>4, DirectoriesClosed
    <3> HIDE DEF d0
    <3> QED
      BY <3>1, DirectoriesClosed
  <2> QED
    BY <1>0, <2>1 DEF Directories
<1> HIDE DEF c, d
<1>6. call' \in [Processes -> CallRecords] /\ call'[p] = c /\ \A q \in Processes \ {p} : SameCall(q)
  BY <1>0, <1>2, <1>3, QuietlyIsQuiet
<1>7. task' = task
  BY <1>2, <1>6 DEF KeepTask, Finishes
<1>8. DirectoryStep(p, d)
  BY <1>1, <1>3, <1>5, <1>6, <1>7 DEF DirectoryStep
<1>9. directory'[call[p].key] = d
  BY <1>0, <1>3 DEF CacheTypes
<1>10. \A n \in 1..HashFile : d.files[n] = IF n = call[p].next THEN Rendered(p) ELSE Dir(p).files[n]
  BY <1>5
<1>11. 1..FileCount \subseteq 1..HashFile /\ HashFile \in 1..HashFile /\ HashFile \notin 1..FileCount
  BY <1>4
<1>b. \A n \in 1..FileCount : n < call[p].next => IsRendered(p, n)
  BY <1>0, <1>a DEF CallInv, WrittenInv, At
<1>12. \A k \in Keys : k = call[p].key => FilesInv(k)' /\ StampInv(k)'
  <2>1. FilesInv(call[p].key) /\ StampInv(call[p].key)
    BY <1>0 DEF CacheInv, DirectoryInv
  <2>2. \A k \in Keys : k = call[p].key => StampInv(k)'
    BY <1>1, <1>5, <1>9, <2>1 DEF StampInv, Dir
  <2> SUFFICES ASSUME NEW k \in Keys, k = call[p].key PROVE FilesInv(k)'
    BY <2>2
  <2>3. \A u \in Tools : u <= tools => IsFrom(Rendered(p), u)
    BY <1>0, <1>1 DEF IsFrom
  <2>4. IsFrom(Rendered(p), 0)
    BY <2>3, <1>0, BuildCacheAssumption
  <2>5. \A n \in 1..HashFile : IsWritten(d.files[n]) => IsFrom(d.files[n], 0)
    BY <1>1, <1>10, <2>1, <2>4 DEF FilesInv, IsFrom, Dir
  <2>6. IsWritten(d.files[HashFile]) =>
          \E u \in Tools : /\ u <= tools /\ Template[u] = d.files[HashFile]
                           /\ \A n \in 1..FileCount : d.files[n] = "empty" \/ IsFrom(d.files[n], u)
    <3>1. CASE call[p].next = HashFile
      <4>1. \A n \in 1..FileCount : d.files[n] \in {Rendered(p), "empty"}
        BY <1>b, <1>4, <1>10, <1>11, <3>1 DEF IsRendered
      <4>2. Template[tools] = d.files[HashFile] /\ IsFrom(Rendered(p), tools)
        BY <1>0, <1>10, <1>11, <2>3, <3>1
      <4> QED
        BY <1>0, <4>1, <4>2
    <3>2. CASE call[p].next # HashFile
      <4>1. d.files[HashFile] = Dir(p).files[HashFile]
        BY <1>10, <1>11, <3>2
      <4>2. ASSUME IsWritten(d.files[HashFile])
            PROVE  \E u \in Tools : /\ u <= tools /\ Template[u] = d.files[HashFile]
                                    /\ \A n \in 1..FileCount : d.files[n] = "empty" \/ IsFrom(d.files[n], u)
        <5>1. PICK u \in Tools : /\ u <= tools /\ Template[u] = d.files[HashFile]
                                 /\ \A n \in 1..FileCount : Dir(p).files[n] = "empty" \/ IsFrom(Dir(p).files[n], u)
          BY <2>1, <4>1, <4>2 DEF FilesInv, Dir
        <5>2. \A n \in 1..FileCount : d.files[n] = "empty" \/ IsFrom(d.files[n], u)
          BY <1>1, <1>10, <1>11, <2>3, <5>1 DEF IsFrom
        <5> QED
          BY <5>1, <5>2
      <4> QED
        BY <4>2
    <3> QED
      BY <3>1, <3>2
  <2> QED
    BY <1>1, <1>9, <2>5, <2>6 DEF FilesInv, IsFrom
<1>13. \A q \in Processes \ {p} : HasKey(q) /\ call[q].key = call[p].key => Steady(q)
  BY <1>0, <1>5, <1>9, <1>10, <1>11 DEF Steady, Dir
<1>14. WrittenInv(p)'
  <2>1. \A n \in 1..FileCount : n <= call[p].next => d.files[n] \in {Rendered(p), "empty"}
    BY <1>b, <1>4, <1>10, <1>11 DEF IsRendered
  <2>2. Rendered(p)' = Rendered(p) /\ Dir(p)' = d
    BY <1>1, <1>2, <1>6, <1>9 DEF Rendered, Dir
  <2>3. CASE call[p].next = HashFile
    BY <1>2, <1>4, <1>6, <2>1, <2>2, <2>3 DEF WrittenInv, IsRendered
  <2>4. CASE call[p].next # HashFile
    BY <1>2, <1>4, <1>6, <2>1, <2>2, <2>4 DEF WrittenInv, IsRendered, Building
  <2> QED
    BY <2>3, <2>4
<1>15. ToolsInv(p)' /\ KeyInv(p)' /\ ConfiguredInv(p)' /\ ModuleInv(p)'
  <2>1. c.at \in {"stamp", "open"}
    BY <1>2
  <2> QED
    BY <1>0, <1>a, <1>1, <1>2, <2>1, <1>6, <1>7 DEF CallInv, ToolsInv, KeyInv, ConfiguredInv, ModuleInv, Returned,
       At, UnderWay, HasKey, Generating, Building, Reading, Parsing
<1> QED
  BY <1>0, <1>a, <1>5, <1>8, <1>12, <1>13, <1>14, <1>15, DirectoryKeepsInv DEF CallInv

(* A directory that passes for configured was configured by the tools of the process. *)
LEMMA CompareStampKeepsInv ==
  ASSUME BuilderInv, NEW p \in Processes, CompareStamp(p), KeepTask(p)
  PROVE  CacheInv'
<1>a. HasKey(p) /\ At(p, "stamp")
  BY DEF CompareStamp, At, HasKey, Building
<1>0. /\ CacheInv /\ CacheTypes /\ CallInv(p) /\ UnderWay(p) /\ call[p] \in CallRecords
      /\ toolchain[p] = tools /\ tools \in Tools /\ call[p].key \in Keys /\ Dir(p) \in Directories
  BY <1>a, StepFacts
<1>1. UNCHANGED <<library, tools, toolchain, loaded, source, parsed, directory>>
  BY DEF CompareStamp, KeepFiles, KeepTask, frontVars
<1> DEFINE g == GoTo(p, IF IsConfigured(p) THEN "build" ELSE "configure")
           c == [g EXCEPT !.stamp = Stamp(p)]
<1>2. /\ c \in CallRecords /\ c.kind = call[p].kind /\ c.versions = call[p].versions
      /\ c.key = call[p].key /\ c.tools = call[p].tools /\ c.library = call[p].library
      /\ c.at = (IF IsConfigured(p) THEN "build" ELSE "configure") /\ c.stamp = Stamp(p)
  <2>1. /\ g \in CallRecords /\ g.kind = call[p].kind /\ g.versions = call[p].versions
        /\ g.key = call[p].key /\ g.tools = call[p].tools /\ g.library = call[p].library
        /\ g.at = (IF IsConfigured(p) THEN "build" ELSE "configure")
    BY <1>0, GoToFields DEF Points, Building
  <2> HIDE DEF g
  <2>2. Stamp(p) \in Stamps
    BY <1>0, BuildCacheAssumption DEF Stamp, Stamps, Directories, HashFile
  <2>3. c \in CallRecords
    BY <2>1, <2>2, CallRecordsClosed
  <2> QED
    BY <2>1, <2>3 DEF CallRecords
<1>3. Quietly(p, c)
  BY DEF CompareStamp
<1> HIDE DEF c
<1>4. call' \in [Processes -> CallRecords] /\ call'[p] = c /\ \A q \in Processes \ {p} : SameCall(q)
  BY <1>0, <1>2, <1>3, QuietlyIsQuiet
<1>5. task' = task
  BY <1>2, <1>4 DEF KeepTask, Finishes
<1>6. QuietStep(p)
  BY <1>0, <1>1, <1>4, <1>5 DEF QuietStep, CacheTypes
<1>7. \E x \in FileContents : Stamp(p) = <<x, toolchain[p]>>
  BY <1>0, BuildCacheAssumption DEF Stamp, Directories, HashFile
<1>8. IsConfigured(p) => Dir(p).configured # None /\ tools <= Dir(p).configured
  BY <1>0, <1>7 DEF IsConfigured, CacheInv, DirectoryInv, StampInv, Dir
<1>9. ConfiguredInv(p)'
  BY <1>1, <1>2, <1>4, <1>7, <1>8 DEF ConfiguredInv, Dir
<1>10. ToolsInv(p)' /\ KeyInv(p)' /\ WrittenInv(p)' /\ ModuleInv(p)'
  BY <1>0, <1>a, <1>1, <1>2, <1>4, <1>5 DEF CallInv, ToolsInv, KeyInv, WrittenInv, IsRendered, Dir, Rendered,
     ModuleInv, Returned, At, UnderWay, HasKey, Generating, Building, Reading, Parsing
<1> QED
  BY <1>0, <1>6, <1>9, <1>10, QuietKeepsInv DEF CallInv

LEMMA ConfigureKeepsInv ==
  ASSUME BuilderInv, NEW p \in Processes, Configure(p), KeepTask(p)
  PROVE  CacheInv'
<1>a. HasKey(p) /\ At(p, "configure")
  BY DEF Configure, At, HasKey, Building
<1>0. /\ CacheInv /\ CacheTypes /\ CallInv(p) /\ UnderWay(p) /\ call[p] \in CallRecords
      /\ toolchain[p] = tools /\ tools \in Tools /\ tools \in Nat
      /\ call[p].key \in Keys /\ Dir(p) \in Directories
  BY <1>a, StepFacts
<1>1. UNCHANGED <<library, tools, toolchain, loaded, source, parsed>>
  BY DEF Configure, KeepTask, frontVars
<1> DEFINE c == GoTo(p, "build")
           d == [Dir(p) EXCEPT !.configured = tools]
<1>2. /\ c \in CallRecords /\ c.at = "build" /\ c.kind = call[p].kind /\ c.versions = call[p].versions
      /\ c.key = call[p].key /\ c.tools = call[p].tools /\ c.library = call[p].library /\ c.stamp = call[p].stamp
  BY <1>0, GoToFields DEF Points, Building
<1>3. Visibly(p, c) /\ directory' = [directory EXCEPT ![call[p].key] = d]
  BY DEF Configure, Dir
<1>4. /\ d \in Directories /\ d.configured = tools /\ d.stamp = Dir(p).stamp /\ d.files = Dir(p).files
      /\ d.module = Dir(p).module /\ d.time = Dir(p).time /\ d.time \in Nat
  <2>1. d \in Directories
    BY <1>0, DirectoriesClosed
  <2> QED
    BY <1>0, <2>1 DEF Directories
<1> HIDE DEF c, d
<1>5. call' \in [Processes -> CallRecords] /\ call'[p] = c /\ \A q \in Processes \ {p} : SameCall(q)
  BY <1>0, <1>2, <1>3, QuietlyIsQuiet
<1>6. task' = task
  BY <1>2, <1>5 DEF KeepTask, Finishes
<1>7. DirectoryStep(p, d)
  BY <1>1, <1>3, <1>4, <1>5, <1>6 DEF DirectoryStep
<1>8. directory'[call[p].key] = d
  BY <1>0, <1>3 DEF CacheTypes
<1>9. \A k \in Keys : k = call[p].key => FilesInv(k)' /\ StampInv(k)'
  <2>1. FilesInv(call[p].key) /\ StampInv(call[p].key)
    BY <1>0 DEF CacheInv, DirectoryInv
  <2>2. \A k \in Keys : k = call[p].key => FilesInv(k)'
    BY <1>1, <1>4, <1>8, <2>1 DEF FilesInv, IsFrom, Dir
  <2>3. \A k \in Keys : k = call[p].key => StampInv(k)'
    <3>1. \A x \in FileContents, t \in Tools : d.stamp # None /\ d.stamp = <<x, t>> => t <= tools
      <4>1. ASSUME NEW x \in FileContents, NEW t \in Tools, d.stamp # None /\ d.stamp = <<x, t>> PROVE t <= tools
        <5>1. Dir(p).configured # None /\ t <= Dir(p).configured /\ Dir(p).configured <= tools
          BY <1>4, <2>1, <4>1 DEF StampInv, Dir
        <5>2. t \in Nat /\ Dir(p).configured \in Nat
          BY <1>0, <5>1, BuildCacheAssumption DEF Directories
        <5> QED
          BY <1>0, <5>1, <5>2
      <4> QED
        BY <4>1
    <3>2. tools # None
      BY <1>0, BuildCacheAssumption
    <3> SUFFICES ASSUME NEW k \in Keys, k = call[p].key PROVE StampInv(k)'
      OBVIOUS
    <3>3. directory'[k] = d /\ tools' = tools
      BY <1>1, <1>8
    <3>4. tools <= tools
      BY <1>0
    <3> QED
      BY <1>4, <3>1, <3>2, <3>3, <3>4 DEF StampInv
  <2> QED
    BY <2>2, <2>3
<1>10. \A q \in Processes \ {p} : HasKey(q) /\ call[q].key = call[p].key => Steady(q)
  BY <1>4, <1>8 DEF Steady, Dir
<1>11. ConfiguredInv(p)'
  BY <1>0, <1>a, <1>1, <1>2, <1>4, <1>5, <1>8, BuildCacheAssumption DEF CallInv, ConfiguredInv, Dir, At
<1>12. ToolsInv(p)' /\ KeyInv(p)' /\ WrittenInv(p)' /\ ModuleInv(p)'
  BY <1>0, <1>a, <1>1, <1>2, <1>4, <1>5, <1>6, <1>8 DEF CallInv, ToolsInv, KeyInv, WrittenInv, IsRendered, Dir,
     Rendered, ModuleInv, Returned, At, UnderWay, HasKey, Generating, Building, Reading, Parsing
<1> QED
  BY <1>0, <1>a, <1>4, <1>7, <1>9, <1>10, <1>11, <1>12, DirectoryKeepsInv DEF CallInv

LEMMA WriteStampKeepsInv ==
  ASSUME BuilderInv, NEW p \in Processes, WriteStamp(p), KeepTask(p)
  PROVE  CacheInv'
<1>a. HasKey(p) /\ At(p, "built")
  BY DEF WriteStamp, At, HasKey, Building
<1>0. /\ CacheInv /\ CacheTypes /\ CallInv(p) /\ UnderWay(p) /\ call[p] \in CallRecords
      /\ toolchain[p] = tools /\ tools \in Tools /\ tools \in Nat
      /\ call[p].key \in Keys /\ Dir(p) \in Directories
  BY <1>a, StepFacts
<1>1. UNCHANGED <<library, tools, toolchain, loaded, source, parsed>>
  BY DEF WriteStamp, KeepTask, frontVars
<1>b. PICK x \in FileContents : call[p].stamp = <<x, tools>>
  BY <1>0, <1>a DEF CallInv, ConfiguredInv, At
<1> DEFINE c == GoTo(p, "find")
           d == [Dir(p) EXCEPT !.stamp = call[p].stamp]
<1>2. /\ c \in CallRecords /\ c.at = "find" /\ c.kind = call[p].kind /\ c.versions = call[p].versions
      /\ c.key = call[p].key /\ c.tools = call[p].tools /\ c.library = call[p].library
  BY <1>0, GoToFields DEF Points, Building
<1>3. Visibly(p, c) /\ directory' = [directory EXCEPT ![call[p].key] = d]
  BY DEF WriteStamp, Dir
<1>4. /\ d \in Directories /\ d.configured = Dir(p).configured /\ d.stamp = call[p].stamp /\ d.files = Dir(p).files
      /\ d.module = Dir(p).module /\ d.time = Dir(p).time /\ d.time \in Nat
  <2>1. call[p].stamp \in Stamps
    BY <1>0, <1>b DEF Stamps
  <2>2. d \in Directories
    BY <1>0, <2>1, DirectoriesClosed
  <2> QED
    BY <1>0, <2>2 DEF Directories
<1> HIDE DEF c, d
<1>5. call' \in [Processes -> CallRecords] /\ call'[p] = c /\ \A q \in Processes \ {p} : SameCall(q)
  BY <1>0, <1>2, <1>3, QuietlyIsQuiet
<1>6. task' = task
  BY <1>2, <1>5 DEF KeepTask, Finishes
<1>7. DirectoryStep(p, d)
  BY <1>1, <1>3, <1>4, <1>5, <1>6 DEF DirectoryStep
<1>8. directory'[call[p].key] = d
  BY <1>0, <1>3 DEF CacheTypes
<1>9. \A k \in Keys : k = call[p].key => FilesInv(k)' /\ StampInv(k)'
  <2>1. FilesInv(call[p].key) /\ StampInv(call[p].key)
    BY <1>0 DEF CacheInv, DirectoryInv
  <2>2. \A k \in Keys : k = call[p].key => FilesInv(k)'
    BY <1>1, <1>4, <1>8, <2>1 DEF FilesInv, IsFrom, Dir
  <2>3. Dir(p).configured # None /\ tools <= Dir(p).configured
    BY <1>0, <1>a DEF CallInv, ConfiguredInv, At
  <2>4. \A k \in Keys : k = call[p].key => StampInv(k)'
    BY <1>1, <1>4, <1>8, <1>b, <2>1, <2>3 DEF StampInv, Dir
  <2> QED
    BY <2>2, <2>4
<1>10. \A q \in Processes \ {p} : HasKey(q) /\ call[q].key = call[p].key => Steady(q)
  BY <1>4, <1>8 DEF Steady, Dir
<1>11. IsCode(p, Dir(p).module)' /\ Dir(p)' = d
  BY <1>0, <1>a, <1>1, <1>2, <1>4, <1>5, <1>8 DEF CallInv, ModuleInv, IsCode, Dir, At
<1>12. ToolsInv(p)' /\ KeyInv(p)' /\ WrittenInv(p)' /\ ConfiguredInv(p)' /\ ModuleInv(p)'
  BY <1>0, <1>a, <1>1, <1>2, <1>4, <1>5, <1>6, <1>8, <1>11 DEF CallInv, ToolsInv, KeyInv, WrittenInv, IsRendered,
     Dir, Rendered, ConfiguredInv, ModuleInv, Returned, At, UnderWay, HasKey, Generating, Building, Reading, Parsing
<1> QED
  BY <1>0, <1>a, <1>4, <1>7, <1>9, <1>10, <1>12, DirectoryKeepsInv DEF CallInv

(* What is built is current, for every call that has the same key. *)
LEMMA BuildKeepsInv ==
  ASSUME BuilderInv, NEW p \in Processes, Build(p, Contents(p)), KeepTask(p)
  PROVE  CacheInv'
<1>a. HasKey(p) /\ At(p, "build") /\ IsComplete(p) /\ IsWritten(Contents(p))
  BY DEF Build, At, HasKey, Building
<1>0. /\ CacheInv /\ CacheTypes /\ CallInv(p) /\ UnderWay(p) /\ call[p] \in CallRecords
      /\ toolchain[p] = tools /\ tools \in Tools /\ tools \in Nat /\ library \in Nat
      /\ Rendered(p) \in FileContents /\ Rendered(p) = Template[tools]
      /\ call[p].key \in Keys /\ Dir(p) \in Directories
  BY <1>a, StepFacts DEF CacheTypes
<1>1. UNCHANGED <<library, tools, toolchain, loaded, source, parsed>>
  BY DEF Build, KeepTask, frontVars
<1>b. Contents(p) \in Versions
  <2>1. Contents(p) \in Versions \cup {"empty"}
    BY <1>0, <1>a, ContentsAre DEF BuilderInv, CallInv, KeyInv
  <2> QED
    BY <1>a, <2>1 DEF IsWritten
<1> DEFINE code == Code(p, Contents(p))
           files == {Dir(p).files[n] : n \in 1..FileCount}
<1>2. /\ code.contents = Contents(p) /\ code.library = library /\ code.tools = Dir(p).configured
      /\ code.generated = files /\ code \in Modules
  <2>1. files \subseteq FileContents
    BY <1>0, BuildCacheAssumption DEF Directories, HashFile
  <2>2. call[p].key.described \in Versions /\ Dir(p).configured \in Tools \cup {None}
    BY <1>0 DEF Keys, Directories
  <2> HIDE DEF files
  <2>3. code = [described |-> call[p].key.described, contents |-> Contents(p), generated |-> files,
                library |-> library, tools |-> Dir(p).configured]
    BY DEF Code, files
  <2> HIDE DEF code
  <2> QED
    BY <1>0, <1>b, <2>1, <2>2, <2>3 DEF Modules
<1>c. files = {Template[tools]}
  <2>1. \A n \in 1..FileCount : Dir(p).files[n] = Template[tools]
    BY <1>0, <1>a DEF CallInv, WrittenInv, IsRendered, IsComplete, IsWritten, At, Building
  <2>2. 1 \in 1..FileCount
    BY BuildCacheAssumption
  <2> QED
    BY <2>1, <2>2
<1>d. Dir(p).configured \in Tools /\ Dir(p).configured >= tools
  BY <1>0, <1>a DEF CallInv, ConfiguredInv, At, Directories
<1> HIDE DEF code, files
<1>f. \A q \in Processes : UnderWay(q) /\ call[q].kind = call[p].kind => IsCode(q, code)
  <2> SUFFICES ASSUME NEW q \in Processes, UnderWay(q), call[q].kind = call[p].kind PROVE IsCode(q, code)
    OBVIOUS
  <2>1. toolchain[q] = tools
    BY <1>0, UnderWayFacts
  <2>2. source \in call[q].versions /\ library >= call[q].library /\ call[q].tools = tools
    BY <1>0 DEF CacheInv, CallInv, ToolsInv
  <2>3. call[q].kind # "vhdl" => code.contents \in call[q].versions
    BY <1>2, <2>2 DEF Contents
  <2> QED
    BY <1>2, <1>c, <1>d, <2>1, <2>2, <2>3 DEF IsCode
<1> DEFINE c == GoTo(p, "built")
           d1 == [Dir(p) EXCEPT !.module = code]
           d2 == [d1 EXCEPT !.time = Dir(p).time + 1]
           d3 == [d2 EXCEPT !.touched = FALSE]
           d == IF code = Dir(p).module /\ ~Dir(p).touched THEN Dir(p) ELSE d3
<1>3. /\ c \in CallRecords /\ c.at = "built" /\ c.kind = call[p].kind /\ c.versions = call[p].versions
      /\ c.key = call[p].key /\ c.tools = call[p].tools /\ c.library = call[p].library /\ c.stamp = call[p].stamp
  BY <1>0, GoToFields DEF Points, Building
<1>4. Dir(p).time \in Nat
  BY <1>0 DEF Directories
<1>5. d3 \in Directories
  <2>1. d1 \in Directories
    BY <1>0, <1>2, DirectoriesClosed
  <2> HIDE DEF d1
  <2>2. d2 \in Directories
    BY <1>4, <2>1, DirectoriesClosed
  <2> HIDE DEF d2
  <2> QED
    BY <2>2, DirectoriesClosed
<1>6. /\ d3.configured = Dir(p).configured /\ d3.stamp = Dir(p).stamp /\ d3.files = Dir(p).files
      /\ d3.module = code /\ d3.time = Dir(p).time + 1
  BY <1>0 DEF Directories
<1>7. Visibly(p, c) /\ directory' = [directory EXCEPT ![call[p].key] = d]
  <2>1. CASE code = Dir(p).module /\ ~Dir(p).touched
    BY <1>0, <2>1 DEF Build, Dir, code, CacheTypes
  <2>2. CASE ~(code = Dir(p).module /\ ~Dir(p).touched)
    BY <1>0, <2>2 DEF Build, Dir, code, CacheTypes
  <2> QED
    BY <2>1, <2>2
<1> HIDE DEF c, d3
<1>8. /\ d \in Directories /\ d.configured = Dir(p).configured /\ d.stamp = Dir(p).stamp /\ d.files = Dir(p).files
      /\ d.module = code /\ d.time \in Nat /\ d.time >= Dir(p).time
      /\ d.time = Dir(p).time => d.module = Dir(p).module
  BY <1>0, <1>4, <1>5, <1>6
<1> HIDE DEF d
<1>9. call' \in [Processes -> CallRecords] /\ call'[p] = c /\ \A q \in Processes \ {p} : SameCall(q)
  BY <1>0, <1>3, <1>7, QuietlyIsQuiet
<1>10. task' = task
  BY <1>3, <1>9 DEF KeepTask, Finishes
<1>11. DirectoryStep(p, d)
  BY <1>1, <1>7, <1>8, <1>9, <1>10 DEF DirectoryStep
<1>12. directory'[call[p].key] = d
  BY <1>0, <1>7 DEF CacheTypes
<1>13. \A k \in Keys : k = call[p].key => FilesInv(k)' /\ StampInv(k)'
  <2>1. FilesInv(call[p].key) /\ StampInv(call[p].key)
    BY <1>0 DEF CacheInv, DirectoryInv
  <2>2. \A k \in Keys : k = call[p].key => FilesInv(k)'
    BY <1>1, <1>8, <1>12, <2>1 DEF FilesInv, IsFrom, Dir
  <2>3. \A k \in Keys : k = call[p].key => StampInv(k)'
    BY <1>1, <1>8, <1>12, <2>1 DEF StampInv, Dir
  <2> QED
    BY <2>2, <2>3
<1>14. \A q \in Processes \ {p} : HasKey(q) /\ call[q].key = call[p].key => Steady(q)
  <2> SUFFICES ASSUME NEW q \in Processes \ {p}, HasKey(q), call[q].key = call[p].key PROVE Steady(q)
    OBVIOUS
  <2>1. UnderWay(q) /\ call[q].kind = call[p].kind
    BY <1>0, <1>a, KeyIsUnderWay DEF CacheInv, CallInv, KeyInv
  <2>2. IsCode(q, code)
    BY <1>f, <2>1
  <2> QED
    BY <1>8, <1>12, <2>2 DEF Steady, Dir
<1>15. ModuleInv(p)'
  <2>1. IsCode(p, code)
    BY <1>0, <1>f
  <2>2. \A m : IsCode(p, m)' = IsCode(p, m)
    BY <1>1, <1>3, <1>9 DEF IsCode
  <2>3. Dir(p)' = d
    BY <1>3, <1>9, <1>12 DEF Dir
  <2> QED
    BY <1>3, <1>8, <1>9, <2>1, <2>2, <2>3 DEF ModuleInv, Returned, At
<1>16. ToolsInv(p)' /\ KeyInv(p)' /\ WrittenInv(p)' /\ ConfiguredInv(p)'
  BY <1>0, <1>a, <1>1, <1>3, <1>8, <1>9, <1>10, <1>12 DEF CallInv, ToolsInv, KeyInv, WrittenInv, IsRendered,
     Dir, Rendered, ConfiguredInv, At, UnderWay, HasKey, Generating, Building, Reading, Parsing
<1> QED
  BY <1>0, <1>a, <1>8, <1>11, <1>13, <1>14, <1>15, <1>16, DirectoryKeepsInv DEF CallInv

(* The module that is found was not built again since it was loaded. *)
LEMMA FindModuleKeepsInv ==
  ASSUME BuilderInv, NEW p \in Processes, FindModule(p), KeepTask(p)
  PROVE  CacheInv'
<1>a. HasKey(p) /\ At(p, "find")
  BY DEF FindModule, At, HasKey, Building
<1>0. /\ CacheInv /\ CacheTypes /\ CallInv(p) /\ UnderWay(p) /\ call[p] \in CallRecords
      /\ call[p].key \in Keys /\ Dir(p) \in Directories /\ Dir(p).time \in Nat
  BY <1>a, StepFacts DEF Directories
<1>1. UNCHANGED <<library, tools, toolchain, loaded, source, parsed, directory>>
  BY DEF FindModule, KeepFiles, KeepTask, frontVars
<1>2. \A q \in Processes \ {p} : task'[q].at = task[q].at
  BY DEF BuilderInv, TranspileInv, TranspileTypes, KeepTask
<1> DEFINE entry == loaded[p][call[p].key]
<1>3. CASE entry = None
  <2> DEFINE g == GoTo(p, "import")
             c == [g EXCEPT !.time = Dir(p).time]
  <2>1. /\ c \in CallRecords /\ c.kind = call[p].kind /\ c.versions = call[p].versions
        /\ c.key = call[p].key /\ c.tools = call[p].tools /\ c.library = call[p].library
        /\ c.at = "import" /\ c.time = Dir(p).time
    <3>1. /\ g \in CallRecords /\ g.kind = call[p].kind /\ g.versions = call[p].versions
          /\ g.key = call[p].key /\ g.tools = call[p].tools /\ g.library = call[p].library /\ g.at = "import"
      BY <1>0, GoToFields DEF Points, Building
    <3> HIDE DEF g
    <3>2. c \in CallRecords
      BY <1>0, <3>1, CallRecordsClosed
    <3> QED
      BY <3>1, <3>2 DEF CallRecords
  <2>2. Quietly(p, c)
    BY <1>3 DEF FindModule
  <2> HIDE DEF c
  <2>3. call' \in [Processes -> CallRecords] /\ call'[p] = c /\ \A q \in Processes \ {p} : SameCall(q)
    BY <1>0, <2>1, <2>2, QuietlyIsQuiet
  <2>4. task' = task
    BY <2>1, <2>3 DEF KeepTask, Finishes
  <2>5. QuietStep(p)
    BY <1>0, <1>1, <2>3, <2>4 DEF QuietStep, CacheTypes
  <2>6. ModuleInv(p)'
    BY <1>0, <1>a, <1>1, <2>1, <2>3 DEF CallInv, ModuleInv, IsCode, Returned, Dir, At
  <2>7. ToolsInv(p)' /\ KeyInv(p)' /\ WrittenInv(p)' /\ ConfiguredInv(p)'
    BY <1>0, <1>a, <1>1, <2>1, <2>3, <2>4 DEF CallInv, ToolsInv, KeyInv, WrittenInv, IsRendered, Dir, Rendered,
       ConfiguredInv, At, UnderWay, HasKey, Generating, Building, Reading, Parsing
  <2> QED
    BY <1>0, <2>5, <2>6, <2>7, QuietKeepsInv DEF CallInv
<1>4. ASSUME NEW o \in {"rebuilt", "returned"}, NEW m \in Modules \cup {None}, Quietly(p, Ended(p, o, m)),
             o = "returned" => IsCode(p, m)
      PROVE  CacheInv'
  <2> DEFINE c == Ended(p, o, m)
  <2>1. /\ c \in CallRecords /\ c.at = "ready" /\ c.outcome = o /\ c.module = m
        /\ c.kind = call[p].kind /\ c.versions = call[p].versions
        /\ c.tools = call[p].tools /\ c.library = call[p].library
    BY <1>0, EndedFields
  <2> HIDE DEF c
  <2>2. call' \in [Processes -> CallRecords] /\ call'[p] = c /\ \A q \in Processes \ {p} : SameCall(q)
    BY <1>0, <1>4, <2>1, QuietlyIsQuiet DEF c
  <2>3. QuietStep(p)
    BY <1>0, <1>1, <1>2, <2>2 DEF QuietStep, CacheTypes
  <2>4. ModuleInv(p)'
    BY <1>1, <1>4, <2>1, <2>2 DEF ModuleInv, IsCode, Returned, At
  <2>5. ToolsInv(p)' /\ KeyInv(p)' /\ WrittenInv(p)' /\ ConfiguredInv(p)'
    BY <1>0, <1>a, <1>1, <2>1, <2>2 DEF CallInv, ToolsInv, KeyInv, WrittenInv, ConfiguredInv, At, UnderWay,
       HasKey, Generating, Building, Reading, Parsing
  <2> QED
    BY <1>0, <2>3, <2>4, <2>5, QuietKeepsInv DEF CallInv
<1>5. CASE entry # None
  <2>1. entry \in Entries /\ entry.module \in Modules \cup {None}
    BY <1>0, <1>5 DEF CacheTypes, Entries
  <2>2. CASE entry.time # Dir(p).time
    BY <1>4, <1>5, <2>2 DEF FindModule
  <2>3. CASE entry.time = Dir(p).time
    <3>1. entry.module = Dir(p).module
      BY <1>0, <1>5, <2>3 DEF CacheInv, LoadedInv, Dir
    <3>2. IsCode(p, entry.module)
      BY <1>0, <1>a, <3>1 DEF CallInv, ModuleInv, At
    <3> QED
      BY <1>4, <1>5, <2>1, <2>3, <3>2 DEF FindModule
  <2> QED
    BY <2>2, <2>3
<1> QED
  BY <1>3, <1>5

LEMMA ImportKeepsInv ==
  ASSUME BuilderInv, NEW p \in Processes, Import(p), KeepTask(p)
  PROVE  CacheInv'
<1>a. HasKey(p) /\ At(p, "import")
  BY DEF Import, At, HasKey, Building
<1>0. /\ CacheInv /\ CacheTypes /\ CallInv(p) /\ UnderWay(p) /\ call[p] \in CallRecords
      /\ call[p].key \in Keys /\ Dir(p) \in Directories /\ Dir(p).module \in Modules \cup {None}
  BY <1>a, StepFacts DEF Directories
<1>1. UNCHANGED <<library, tools, toolchain, loaded, source, parsed, directory>>
  BY DEF Import, KeepFiles, KeepTask, frontVars
<1> DEFINE g == GoTo(p, "link")
           c == [g EXCEPT !.module = Dir(p).module]
<1>2. /\ c \in CallRecords /\ c.kind = call[p].kind /\ c.versions = call[p].versions
      /\ c.key = call[p].key /\ c.tools = call[p].tools /\ c.library = call[p].library
      /\ c.at = "link" /\ c.time = call[p].time /\ c.module = Dir(p).module
  <2>1. /\ g \in CallRecords /\ g.kind = call[p].kind /\ g.versions = call[p].versions /\ g.time = call[p].time
        /\ g.key = call[p].key /\ g.tools = call[p].tools /\ g.library = call[p].library /\ g.at = "link"
    BY <1>0, GoToFields DEF Points, Building
  <2> HIDE DEF g
  <2>2. c \in CallRecords
    BY <1>0, <2>1, CallRecordsClosed
  <2> QED
    BY <2>1, <2>2 DEF CallRecords
<1>3. Quietly(p, c)
  BY DEF Import
<1> HIDE DEF c
<1>4. call' \in [Processes -> CallRecords] /\ call'[p] = c /\ \A q \in Processes \ {p} : SameCall(q)
  BY <1>0, <1>2, <1>3, QuietlyIsQuiet
<1>5. task' = task
  BY <1>2, <1>4 DEF KeepTask, Finishes
<1>6. QuietStep(p)
  BY <1>0, <1>1, <1>4, <1>5 DEF QuietStep, CacheTypes
<1>7. ModuleInv(p)'
  BY <1>0, <1>a, <1>1, <1>2, <1>4 DEF CallInv, ModuleInv, IsCode, Returned, Dir, At
<1>8. ToolsInv(p)' /\ KeyInv(p)' /\ WrittenInv(p)' /\ ConfiguredInv(p)'
  BY <1>0, <1>a, <1>1, <1>2, <1>4, <1>5 DEF CallInv, ToolsInv, KeyInv, WrittenInv, IsRendered, Dir, Rendered,
     ConfiguredInv, At, UnderWay, HasKey, Generating, Building, Reading, Parsing
<1> QED
  BY <1>0, <1>6, <1>7, <1>8, QuietKeepsInv DEF CallInv

-----------------------------------------------------------------------------
(* Steps that change what one process keeps: its call, its toolchain, what it has loaded or parsed. *)

OwnStep(p) ==
    /\ UNCHANGED <<library, tools, directory, source>>
    /\ CacheTypes'
    /\ \A q \in Processes \ {p} : /\ SameCall(q) /\ toolchain'[q] = toolchain[q] /\ loaded'[q] = loaded[q]
                                  /\ task'[q].at = task[q].at

LEMMA OwnStepKeepsInv ==
  ASSUME CacheInv, NEW p \in Processes, OwnStep(p), CallInv(p)', \A k \in Keys : LoadedInv(p, k)'
  PROVE  CacheInv'
<1>1. CacheTypes' /\ DirectoryInv'
  BY DEF CacheInv, DirectoryInv, FilesInv, StampInv, IsFrom, OwnStep
<1>2. \A q \in Processes : CallInv(q)'
  <2> TAKE q \in Processes
  <2>1. CASE q = p
    BY <2>1
  <2>2. CASE q # p
    <3>1. HasKey(q) => Steady(q)
      BY DEF HasKey, Steady, OwnStep, CacheInv, CacheTypes, Directories, CallInv, KeyInv
    <3> QED
      BY <2>2, <3>1, BystanderKeepsInv DEF CacheInv, OwnStep
  <2> QED
    BY <2>1, <2>2
<1>3. \A q \in Processes, k \in Keys : LoadedInv(q, k)'
  BY DEF CacheInv, LoadedInv, OwnStep
<1> QED
  BY <1>1, <1>2, <1>3 DEF CacheInv

LEMMA LinkKeepsInv ==
  ASSUME BuilderInv, NEW p \in Processes, Link(p), KeepTask(p)
  PROVE  CacheInv'
<1>a. HasKey(p) /\ At(p, "link")
  BY DEF Link, At, HasKey, Building
<1>0. /\ CacheInv /\ CacheTypes /\ CallInv(p) /\ UnderWay(p) /\ call[p] \in CallRecords
      /\ call[p].key \in Keys /\ Dir(p) \in Directories /\ call[p].module \in Modules \cup {None}
  BY <1>a, StepFacts DEF CallRecords
<1>1. UNCHANGED <<library, tools, toolchain, source, parsed, directory>>
  BY DEF Link, KeepTask, frontVars
<1> DEFINE c == Ended(p, "returned", call[p].module)
           entry == [time |-> call[p].time, module |-> call[p].module]
<1>2. /\ c \in CallRecords /\ c.at = "ready" /\ c.outcome = "returned" /\ c.module = call[p].module
      /\ c.kind = call[p].kind /\ c.versions = call[p].versions
      /\ c.tools = call[p].tools /\ c.library = call[p].library
  BY <1>0, EndedFields
<1>3. Quietly(p, c) /\ loaded' = [loaded EXCEPT ![p][call[p].key] = entry]
  BY DEF Link, TimeBefore
<1>b. /\ IsCode(p, call[p].module) /\ call[p].time \in Nat /\ call[p].time <= Dir(p).time
      /\ call[p].time = Dir(p).time => call[p].module = Dir(p).module
  BY <1>0, <1>a DEF CallInv, ModuleInv, At
<1>4. entry \in Entries /\ entry.time = call[p].time /\ entry.module = call[p].module
  BY <1>0, <1>b DEF Entries
<1> HIDE DEF c, entry
<1>5. call' \in [Processes -> CallRecords] /\ call'[p] = c /\ \A q \in Processes \ {p} : SameCall(q)
  BY <1>0, <1>2, <1>3, QuietlyIsQuiet
<1>6. /\ loaded' \in [Processes -> [Keys -> Entries \cup {None}]]
      /\ \A q \in Processes \ {p} : loaded'[q] = loaded[q]
      /\ loaded'[p] = [loaded[p] EXCEPT ![call[p].key] = entry]
      /\ loaded[p] \in [Keys -> Entries \cup {None}]
  BY <1>0, <1>3, <1>4 DEF CacheTypes
<1>7. \A q \in Processes \ {p} : task'[q].at = task[q].at
  BY DEF BuilderInv, TranspileInv, TranspileTypes, KeepTask
<1>8. OwnStep(p)
  BY <1>0, <1>1, <1>5, <1>6, <1>7 DEF OwnStep, CacheTypes
<1>9. \A k \in Keys : LoadedInv(p, k)'
  <2> SUFFICES ASSUME NEW k \in Keys PROVE LoadedInv(p, k)'
    OBVIOUS
  <2>1. CASE k = call[p].key
    BY <1>1, <1>4, <1>6, <1>b, <2>1 DEF LoadedInv, Dir
  <2>2. CASE k # call[p].key
    BY <1>0, <1>1, <1>6, <2>2 DEF CacheInv, LoadedInv
  <2> QED
    BY <2>1, <2>2
<1>10. ModuleInv(p)'
  BY <1>1, <1>2, <1>5, <1>b DEF ModuleInv, IsCode, Returned, At
<1>11. ToolsInv(p)' /\ KeyInv(p)' /\ WrittenInv(p)' /\ ConfiguredInv(p)'
  BY <1>0, <1>a, <1>1, <1>2, <1>5 DEF CallInv, ToolsInv, KeyInv, WrittenInv, ConfiguredInv, At, UnderWay,
     HasKey, Generating, Building, Reading, Parsing
<1> QED
  BY <1>0, <1>8, <1>9, <1>10, <1>11, OwnStepKeepsInv DEF CallInv

LEMMA BackEndKeepsInv ==
  ASSUME BuilderInv, NEW p \in Processes, BackEndStep(p)
  PROVE  CacheInv'
<1>1. KeepTask(p)
  BY DEF BackEndStep
<1>2. CASE Fails(p, Contents(p))
  <2>1. UnderWay(p) /\ Quietly(p, Ended(p, "failed", None))
    BY <1>2 DEF Fails, At, UnderWay, Building
  <2>2. UNCHANGED <<library, tools, directory, toolchain, loaded, source, parsed>>
    BY <1>1, <1>2 DEF Fails, KeepFiles, KeepTask, frontVars
  <2>3. \A q \in Processes \ {p} : task'[q].at = task[q].at
    BY <1>1 DEF BuilderInv, TranspileInv, TranspileTypes, KeepTask
  <2> QED
    BY <2>1, <2>2, <2>3, FailingKeepsInv DEF BuilderInv
<1> QED
  BY <1>1, <1>2, CompareHashKeepsInv, OpenFileKeepsInv, WriteFileKeepsInv, CompareStampKeepsInv, ConfigureKeepsInv,
     BuildKeepsInv, WriteStampKeepsInv, FindModuleKeepsInv, ImportKeepsInv, LinkKeepsInv DEF BackEndStep, BackEnd

(* Processes that start and end, and the start of a call. *)
LEMMA NewCallFields ==
  /\ NewCall \in CallRecords /\ Off \in CallRecords
  /\ NewCall.at = "ready" /\ NewCall.outcome = None /\ Off.at = "off"
<1>1. NewCall \in CallRecords
  BY BuildCacheAssumption DEF NewCall, CallRecords, Points, HashFile
<1>2. Off \in CallRecords
  BY <1>1, CallRecordsClosed DEF Off, Points
<1> QED
  BY <1>1, <1>2 DEF NewCall, Off

LEMMA StartProcessKeepsInv ==
  ASSUME BuilderInv, NEW p \in Processes, StartProcess(p)
  PROVE  CacheInv'
<1>0. CacheInv /\ CacheTypes /\ UNCHANGED <<library, tools, directory, loaded, source, parsed, task>>
  BY DEF BuilderInv, CacheInv, StartProcess, frontVars, vhdlVars
<1>1. call' \in [Processes -> CallRecords] /\ call'[p] = NewCall /\ \A q \in Processes \ {p} : SameCall(q)
  BY <1>0, NewCallFields, QuietlyIsQuiet DEF StartProcess
<1>2. /\ toolchain' \in [Processes -> Tools \cup {None}] /\ toolchain'[p] = tools
      /\ \A q \in Processes \ {p} : toolchain'[q] = toolchain[q]
  BY <1>0 DEF StartProcess, CacheTypes
<1>3. OwnStep(p)
  BY <1>0, <1>1, <1>2 DEF OwnStep, CacheTypes
<1>4. CallInv(p)'
  <2>1. call'[p].at = "ready" /\ call'[p].outcome = None /\ toolchain'[p] = tools'
    BY <1>0, <1>1, <1>2, NewCallFields
  <2> QED
    BY <2>1, BuildCacheAssumption DEF CallInv, ToolsInv, KeyInv, WrittenInv, ConfiguredInv, ModuleInv, At, UnderWay,
       HasKey, Returned, Reading, Parsing, Generating, Building
<1>5. \A k \in Keys : LoadedInv(p, k)'
  BY <1>0 DEF CacheInv, LoadedInv
<1> QED
  BY <1>0, <1>3, <1>4, <1>5, OwnStepKeepsInv

LEMMA EndProcessKeepsInv ==
  ASSUME BuilderInv, NEW p \in Processes, EndProcess(p)
  PROVE  CacheInv'
<1>0. CacheInv /\ CacheTypes /\ UNCHANGED <<library, tools, directory, source>>
  BY DEF BuilderInv, CacheInv, EndProcess
<1>1. call' \in [Processes -> CallRecords] /\ call'[p] = Off /\ \A q \in Processes \ {p} : SameCall(q)
  BY <1>0, NewCallFields, QuietlyIsQuiet DEF EndProcess
<1>2. /\ toolchain' \in [Processes -> Tools \cup {None}]
      /\ \A q \in Processes \ {p} : toolchain'[q] = toolchain[q]
      /\ loaded' \in [Processes -> [Keys -> Entries \cup {None}]]
      /\ \A q \in Processes \ {p} : loaded'[q] = loaded[q]
      /\ \A k \in Keys : loaded'[p][k] = None
      /\ parsed' \in [Processes -> [described : Versions, digest : Versions] \cup {None}]
  BY <1>0 DEF EndProcess, CacheTypes
<1>3. \A q \in Processes \ {p} : task'[q].at = task[q].at
  BY DEF BuilderInv, TranspileInv, TranspileTypes, EndProcess
<1>4. OwnStep(p)
  BY <1>0, <1>1, <1>2, <1>3 DEF OwnStep, CacheTypes
<1>5. CallInv(p)'
  BY <1>1, NewCallFields DEF CallInv, ToolsInv, KeyInv, WrittenInv, ConfiguredInv, ModuleInv, At, UnderWay,
     HasKey, Returned, Reading, Parsing, Generating, Building
<1>6. \A k \in Keys : LoadedInv(p, k)'
  BY <1>2 DEF LoadedInv
<1> QED
  BY <1>0, <1>4, <1>5, <1>6, OwnStepKeepsInv

LEMMA CallKeepsInv ==
  ASSUME BuilderInv, NEW p \in Processes, NEW k \in Builds[p], Call(p, k)
  PROVE  CacheInv'
<1>0. /\ CacheInv /\ CacheTypes /\ call[p] \in CallRecords /\ At(p, "ready") /\ CallInv(p) /\ source \in Versions
      /\ UNCHANGED <<library, tools, directory, toolchain, loaded, source, parsed, task>>
  BY DEF BuilderInv, CacheInv, CacheTypes, TranspileInv, TranspileTypes, Call, frontVars, vhdlVars
<1>1. k \in Kinds /\ k \in {"cpp", "verilog", "vhdl"}
  BY BuilderAssumption
<1> DEFINE new == [NewCall EXCEPT !.at = FrontEnd(k), !.kind = k, !.versions = {source}, !.tools = tools,
                                  !.library = library, !.disturbed = Processes # Idle]
<1>2. /\ FrontEnd(k) \in {"dependencies", "parse", "describe", "transpile"}
      /\ FrontEnd(k) \in Parsing => k = "cpp"
      /\ FrontEnd(k) = "describe" => k = "verilog"
      /\ FrontEnd(k) = "transpile" => k = "vhdl"
  <2>1. CASE k = "cpp"
    BY <2>1 DEF FrontEnd, Parsing
  <2>2. CASE k = "verilog"
    BY <2>2 DEF FrontEnd, Parsing
  <2>3. CASE k = "vhdl"
    BY <2>3 DEF FrontEnd, Parsing
  <2> QED
    BY <1>1, <2>1, <2>2, <2>3
<1>3. /\ new \in CallRecords /\ new.at = FrontEnd(k) /\ new.kind = k /\ new.versions = {source}
      /\ new.tools = tools /\ new.library = library
  <2>1. FrontEnd(k) \in Points
    BY <1>2 DEF Points, Reading, Parsing
  <2>2. 1 \in 1..HashFile
    BY BuildCacheAssumption DEF HashFile
  <2>3. tools \in Tools /\ library \in Nat /\ {source} \in SUBSET Versions
    BY <1>0 DEF CacheTypes
  <2> QED
    BY <1>1, <2>1, <2>2, <2>3 DEF NewCall, CallRecords
<1> HIDE DEF new
<1>4. call' \in [Processes -> CallRecords] /\ call'[p] = new /\ \A q \in Processes \ {p} : SameCall(q)
  <2>1. \A q \in Processes : [call[q] EXCEPT !.disturbed = TRUE] \in CallRecords
    BY <1>0, CallRecordsClosed DEF CacheTypes
  <2> QED
    BY <1>0, <1>3, <2>1 DEF Call, CacheTypes, SameCall, new
<1>5. OwnStep(p)
  BY <1>0, <1>4 DEF OwnStep, CacheTypes
<1>6. CallInv(p)'
  <2>1. toolchain[p] = tools
    BY <1>0 DEF CallInv, ToolsInv, At
  <2>2. library \in Nat
    BY <1>0 DEF CacheTypes
  <2>3. ToolsInv(p)'
    BY <1>0, <1>1, <1>3, <1>4, <2>1, <2>2 DEF ToolsInv
  <2>4. KeyInv(p)'
    BY <1>2, <1>3, <1>4 DEF KeyInv, At, HasKey, Parsing, Generating, Building
  <2>5. WrittenInv(p)' /\ ConfiguredInv(p)' /\ ModuleInv(p)'
    BY <1>2, <1>3, <1>4 DEF WrittenInv, ConfiguredInv, ModuleInv, Returned, At, Building
  <2> QED
    BY <2>3, <2>4, <2>5 DEF CallInv
<1>7. \A x \in Keys : LoadedInv(p, x)'
  BY <1>0 DEF CacheInv, LoadedInv
<1> QED
  BY <1>0, <1>5, <1>6, <1>7, OwnStepKeepsInv

-----------------------------------------------------------------------------
(* The files and the tools change. *)

(* A call has seen the new source, and the libraries only get newer. *)
Notices(q) ==
    /\ call'[q].at = call[q].at /\ call'[q].kind = call[q].kind /\ call'[q].described = call[q].described
    /\ call'[q].key = call[q].key /\ call'[q].next = call[q].next /\ call'[q].stamp = call[q].stamp
    /\ call'[q].time = call[q].time /\ call'[q].module = call[q].module /\ call'[q].outcome = call[q].outcome
    /\ call'[q].tools = call[q].tools /\ call'[q].library = call[q].library
    /\ call[q].versions \subseteq call'[q].versions
    /\ UnderWay(q) => source' \in call'[q].versions

LEMMA EditsKeepInv ==
  ASSUME CacheInv, UNCHANGED <<tools, directory, toolchain, loaded, parsed, task>>,
         library' \in Nat, library <= library', call' \in [Processes -> CallRecords],
         \A q \in Processes : Notices(q)
  PROVE  CacheInv'
<1>1. CacheTypes' /\ DirectoryInv'
  BY DEF CacheInv, CacheTypes, DirectoryInv, FilesInv, StampInv, IsFrom
<1>2. \A q \in Processes, k \in Keys : LoadedInv(q, k)'
  BY DEF CacheInv, LoadedInv
<1>3. ASSUME NEW q \in Processes PROVE CallInv(q)'
  <2> USE <1>3 DEF CacheInv, CallInv, Notices
  <2>1. ToolsInv(q)'
    BY DEF ToolsInv, UnderWay, At, CacheTypes
  <2>2. KeyInv(q)'
    BY DEF KeyInv, HasKey, At
  <2>3. WrittenInv(q)' /\ ConfiguredInv(q)'
    BY DEF WrittenInv, ConfiguredInv, IsRendered, Rendered, Dir
  <2>4. \A m : IsCode(q, m) => IsCode(q, m)'
    BY DEF IsCode
  <2>5. ModuleInv(q)'
    BY <2>4 DEF ModuleInv, Returned, Dir, At
  <2> QED
    BY <2>1, <2>2, <2>3, <2>5
<1> QED
  BY <1>1, <1>2, <1>3 DEF CacheInv

LEMMA EditSourceKeepsInv ==
  ASSUME BuilderInv, NEW v \in Versions, EditSource(v)
  PROVE  CacheInv'
<1>0. /\ CacheInv /\ CacheTypes /\ source' = v
      /\ UNCHANGED <<library, tools, directory, toolchain, loaded, parsed, task>>
  BY DEF BuilderInv, CacheInv, EditSource, vhdlVars
<1> DEFINE seen(q) == [call[q] EXCEPT !.disturbed = TRUE]
           new(q) == [seen(q) EXCEPT !.versions = @ \cup {v}]
<1>1. call' = [q \in Processes |-> IF q \in Idle THEN call[q] ELSE new(q)]
  BY DEF EditSource, DisturbAll
<1>2. ASSUME NEW q \in Processes
      PROVE  /\ call[q] \in CallRecords /\ new(q) \in CallRecords
             /\ new(q).versions = call[q].versions \cup {v}
             /\ new(q).at = call[q].at /\ new(q).kind = call[q].kind /\ new(q).described = call[q].described
             /\ new(q).key = call[q].key /\ new(q).next = call[q].next /\ new(q).stamp = call[q].stamp
             /\ new(q).time = call[q].time /\ new(q).module = call[q].module /\ new(q).outcome = call[q].outcome
             /\ new(q).tools = call[q].tools /\ new(q).library = call[q].library
  <2>1. call[q] \in CallRecords /\ call[q].versions \in SUBSET Versions
    BY <1>0 DEF CacheTypes, CallRecords
  <2>2. seen(q) \in CallRecords
    BY <2>1, CallRecordsClosed
  <2>3. /\ seen(q).versions = call[q].versions
        /\ seen(q).at = call[q].at /\ seen(q).kind = call[q].kind /\ seen(q).described = call[q].described
        /\ seen(q).key = call[q].key /\ seen(q).next = call[q].next /\ seen(q).stamp = call[q].stamp
        /\ seen(q).time = call[q].time /\ seen(q).module = call[q].module /\ seen(q).outcome = call[q].outcome
        /\ seen(q).tools = call[q].tools /\ seen(q).library = call[q].library
    BY <2>1 DEF CallRecords
  <2> HIDE DEF seen
  <2>4. new(q) = [seen(q) EXCEPT !.versions = call[q].versions \cup {v}]
    BY <2>3
  <2>5. call[q].versions \cup {v} \in SUBSET Versions
    BY <2>1
  <2>6. new(q) \in CallRecords
    BY <2>2, <2>4, <2>5, CallRecordsClosed
  <2> QED
    BY <2>1, <2>2, <2>3, <2>4, <2>6 DEF CallRecords
<1> HIDE DEF new
<1>3. call' \in [Processes -> CallRecords]
  BY <1>1, <1>2
<1>4. \A q \in Processes : Notices(q)
  <2> TAKE q \in Processes
  <2>1. CASE q \in Idle
    BY <1>1, <2>1 DEF Notices, Idle, UnderWay, Reading, Parsing, Generating, Building
  <2>2. CASE q \notin Idle
    <3>1. call'[q] = new(q)
      BY <1>1, <2>2
    <3> QED
      BY <1>0, <1>2, <3>1 DEF Notices
  <2> QED
    BY <2>1, <2>2
<1> QED
  BY <1>0, <1>3, <1>4, EditsKeepInv DEF CacheTypes

LEMMA EditLibraryKeepsInv ==
  ASSUME BuilderInv, EditLibrary
  PROVE  CacheInv'
<1>0. /\ CacheInv /\ CacheTypes /\ library' = library + 1
      /\ UNCHANGED <<tools, directory, toolchain, loaded, parsed, task, source>>
  BY DEF BuilderInv, CacheInv, EditLibrary, frontVars, vhdlVars
<1>1. \A q \in Processes : SameCall(q)
  BY DEF EditLibrary, DisturbAll, SameCall
<1>2. call' \in [Processes -> CallRecords]
  <2>1. \A q \in Processes : call[q] \in CallRecords /\ [call[q] EXCEPT !.disturbed = TRUE] \in CallRecords
    BY <1>0, CallRecordsClosed DEF CacheTypes
  <2> QED
    BY <2>1 DEF EditLibrary, DisturbAll
<1>3. \A q \in Processes : Notices(q)
  BY <1>0, <1>1, SameFields DEF Notices, CacheInv, CallInv, ToolsInv
<1> QED
  BY <1>0, <1>2, <1>3, EditsKeepInv DEF CacheTypes

LEMMA UpgradeKeepsInv ==
  ASSUME BuilderInv, NEW t \in Tools, Upgrade(t)
  PROVE  CacheInv'
<1>0. /\ CacheInv /\ CacheTypes /\ tools' = t /\ t > tools /\ t \in Nat /\ tools \in Nat
      /\ UNCHANGED <<library, directory, call, toolchain, loaded, source, parsed, task>>
  BY BuildCacheAssumption DEF BuilderInv, CacheInv, CacheTypes, Upgrade, frontVars, vhdlVars
<1>1. CacheTypes'
  BY <1>0 DEF CacheTypes
<1>2. DirectoryInv'
  <2> SUFFICES ASSUME NEW k \in Keys PROVE FilesInv(k)' /\ StampInv(k)'
    BY DEF DirectoryInv
  <2>1. FilesInv(k) /\ StampInv(k)
    BY <1>0 DEF CacheInv, DirectoryInv
  <2>2. \A contents, oldest : IsFrom(contents, oldest) => IsFrom(contents, oldest)'
    BY <1>0, BuildCacheAssumption DEF IsFrom
  <2>3. \A u \in Tools : u <= tools => u <= tools'
    BY <1>0, BuildCacheAssumption
  <2>4. FilesInv(k)'
    BY <1>0, <2>1, <2>2, <2>3 DEF FilesInv
  <2>5. StampInv(k)'
    BY <1>0, <2>1, <2>3 DEF StampInv, CacheTypes, Directories
  <2> QED
    BY <2>4, <2>5
<1>3. \A q \in Processes : CallInv(q)'
  BY <1>0 DEF Upgrade, CallInv, ToolsInv, KeyInv, WrittenInv, ConfiguredInv, ModuleInv, At, UnderWay,
     HasKey, Returned, Reading, Parsing, Generating, Building
<1>4. \A q \in Processes, k \in Keys : LoadedInv(q, k)'
  BY <1>0 DEF CacheInv, LoadedInv
<1> QED
  BY <1>1, <1>2, <1>3, <1>4 DEF CacheInv

-----------------------------------------------------------------------------
(* Every step. *)

LEMMA StepKeepsCacheInv ==
  ASSUME BuilderInv, [Next]_vars
  PROVE  CacheInv'
<1>1. CASE UNCHANGED vars
  <2>1. UNCHANGED <<library, tools, directory, call, toolchain, loaded, source, parsed, task>>
    BY <1>1 DEF vars, cacheVars, frontVars, vhdlVars
  <2>2. CacheTypes' /\ DirectoryInv' /\ \A q \in Processes, k \in Keys : LoadedInv(q, k)'
    BY <2>1 DEF BuilderInv, CacheInv, CacheTypes, DirectoryInv, FilesInv, StampInv, IsFrom, LoadedInv
  <2>3. \A q \in Processes : CallInv(q)'
    BY <2>1 DEF BuilderInv, CacheInv, CallInv, ToolsInv, KeyInv, WrittenInv, ConfiguredInv, ModuleInv, At, UnderWay,
       HasKey, Returned, IsRendered, IsCode, Rendered, Dir
  <2> QED
    BY <2>2, <2>3 DEF CacheInv
<1>2. ASSUME NEW p \in Processes, Reads(p) PROVE CacheInv'
  BY <1>2, ReadsKeepsInv
<1> QED
  BY <1>1, <1>2, EditSourceKeepsInv, EditLibraryKeepsInv, UpgradeKeepsInv, StartProcessKeepsInv, EndProcessKeepsInv,
     CallKeepsInv, BackEndKeepsInv DEF Next, Reads

LEMMA StepKeepsTranspileInv ==
  ASSUME TranspileInv, [Next]_vars
  PROVE  TranspileInv'
<1>1. CASE \E p \in Processes : TranspileStep(p)
  BY <1>1, TranspileKeepsInv DEF TranspileStep
<1>2. CASE ~\E p \in Processes : TranspileStep(p)
  <2>1. source \in Versions
    BY DEF TranspileInv, TranspileTypes
  <2>2. /\ source' \in Versions /\ UNCHANGED <<work, temporary, systemVerilog, crowded>>
        /\ task' = task \/ \E p \in Processes : task' = [task EXCEPT ![p] = Vhdl!NewTask]
    BY <1>2, <2>1 DEF Next, vars, frontVars, vhdlVars, KeepTask, KeepRest, KeepCache,
       EditSource, EditLibrary, Upgrade, StartProcess, EndProcess, Call, ReadArguments, WriteArguments, Parse,
       DigestHeader, TranspileFails, Describe, MakeKey, BackEndStep
  <2> QED
    BY <2>2, ForgettingKeepsInv
<1> QED
  BY <1>1, <1>2

(* The invariant holds in every reachable state. *)
THEOREM BuilderInvCorrect == Spec => []BuilderInv
<1>1. Init => BuilderInv
  BY TranspileInit, CacheInitially DEF BuilderInv
<1>2. BuilderInv /\ [Next]_vars => BuilderInv'
  BY StepKeepsCacheInv, StepKeepsTranspileInv DEF BuilderInv
<1> QED
  BY <1>1, <1>2, PTL DEF Spec

(* Whatever changes while a call is under way, and wherever other processes were killed, the module   *)
(* that the call returns is not older than the call (build_cppmodule(), build_vmodule()).           *)
THEOREM CodeIsCurrentCorrect == Spec => []CodeIsCurrent
<1>1. BuilderInv => CodeIsCurrent
  BY DEF BuilderInv, CacheInv, CallInv, ModuleInv, IsCode, CodeIsCurrent
<1> QED
  BY <1>1, BuilderInvCorrect, PTL

(* _load_built_module() tells a module that was built again by its time: the one that it returns from *)
(* _loaded_modules is the one in the directory.                                                     *)
THEOREM LoadedIsBuiltCorrect == Spec => []LoadedIsBuilt
<1>1. BuilderInv => LoadedIsBuilt
  BY DEF BuilderInv, CacheInv, LoadedInv, LoadedIsBuilt
<1> QED
  BY <1>1, BuilderInvCorrect, PTL

(* transpile(): the SystemVerilog of an entity that one process writes at a time is never found before *)
(* all of it is there, wherever the process is killed.                                              *)
THEOREM CompleteIfPresentCorrect == Spec => []CompleteIfPresent
<1>1. BuilderInv => CompleteIfPresent
  BY DEF BuilderInv, TranspileInv
<1> QED
  BY <1>1, BuilderInvCorrect, PTL

-----------------------------------------------------------------------------
(* Recovery. A call that nothing disturbs is alone, and what it finds is complete unless two processes *)
(* have written it at once.                                                                         *)

Undisturbed(p) == UnderWay(p) /\ ~call[p].disturbed

AloneInv == \A p \in Processes : Undisturbed(p) => \A q \in Processes \ {p} : q \in Idle

(* Who writes the SystemVerilog alone finds the temporary file when it renames it. *)
RenamingInv ==
    \A p \in Processes : Writing(p) /\ task[p].digest \notin crowded => temporary[task[p].digest] # None

(* No tools, these or newer ones, take the hash for that of their files. *)
Stale(k) == \A t \in Tools : t >= tools => Template[t] # directory[k].files[HashFile]

Writes(p, k) == call[p].at \in {"open", "write"} /\ call[p].key = k

(* Files that one process writes at a time: while one is empty, the hash does not say otherwise. *)
RepairInv(k) ==
    ~directory[k].shared =>
        /\ (\E n \in 1..FileCount : directory[k].files[n] = "empty") => Stale(k)
        /\ \A p \in Processes :
              Writes(p, k) => /\ Stale(k)
                              /\ \A n \in 1..FileCount : n < call[p].next => directory[k].files[n] # "empty"
        /\ \A p \in Processes : call[p].at \in Building /\ call[p].key = k => ~Stale(k)
        /\ \A p, q \in Processes : Writes(p, k) /\ Writes(q, k) => p = q

(* What was read of the source first is what is compiled, unless it was parsed while it changed. *)
ParsedAside(p) == call[p].kind = "cpp" /\ parsed[p] # None /\ parsed[p].described # parsed[p].digest
Fits(p, described) == described = Contents(p) \/ ParsedAside(p)
FitsInv(p) ==
    Undisturbed(p) =>
        /\ At(p, "digest") => call[p].described = source
        /\ At(p, "key") => Fits(p, call[p].described)
        /\ HasKey(p) => Fits(p, call[p].key.described)

(* Nobody is about to write the arguments. *)
Unwritten(p) ==
    /\ call[p].kind = "cpp" /\ arguments[toolchain[p]] = "empty"
    /\ \A q \in Processes : call[q].at \notin {"ask", "answer"}

Crowded(p) == call[p].kind = "vhdl" /\ crowded # {}

Excused(p) == ParsedAside(p) \/ Unwritten(p) \/ (call[p].key # None /\ Dir(p).shared) \/ Crowded(p)
FailedInv(p) == Failed(p) /\ ~call[p].disturbed => Excused(p)

RecoverInv ==
    /\ AloneInv /\ RenamingInv
    /\ \A k \in Keys : RepairInv(k)
    /\ \A p \in Processes : FitsInv(p) /\ FailedInv(p)

-----------------------------------------------------------------------------
(* What a step of a call does to it, and to the calls of the others. *)

Beside(q) == call'[q] = call[q] \/ (q \notin Idle /\ call'[q] = [call[q] EXCEPT !.disturbed = TRUE])

LEMMA StepOf ==
  ASSUME CacheTypes, NEW p \in Processes, NEW c, Quietly(p, c) \/ Visibly(p, c)
  PROVE  call'[p] = c /\ \A q \in Processes \ {p} : Beside(q)
BY DEF CacheTypes, Quietly, Visibly, Beside

(* The call of a process that does not take the step. *)
Stays(q) ==
    /\ call'[q].at = call[q].at /\ call'[q].kind = call[q].kind /\ call'[q].described = call[q].described
    /\ call'[q].key = call[q].key /\ call'[q].next = call[q].next /\ call'[q].outcome = call[q].outcome
    /\ call'[q] = call[q] \/ (q \notin Idle /\ call'[q].disturbed)

LEMMA BesideStays ==
  ASSUME CacheTypes, NEW q \in Processes, Beside(q)
  PROVE  Stays(q)
BY DEF CacheTypes, CallRecords, Beside, Stays

(* Reading. *)
LEMMA ArgumentsAreRead ==
  ASSUME NEW p \in Processes, ReadArguments(p)
  PROVE  /\ \/ Quietly(p, GoTo(p, "ask")) /\ arguments[toolchain[p]] = None
            \/ Quietly(p, GoTo(p, "parse"))
            \/ Quietly(p, Ended(p, "failed", None)) /\ arguments[toolchain[p]] = "empty"
         /\ arguments' = arguments
<1>1. CASE arguments[toolchain[p]] = None
  BY <1>1 DEF ReadArguments, frontVars
<1>2. CASE arguments[toolchain[p]] # None /\ arguments[toolchain[p]] = "empty"
  BY <1>2 DEF ReadArguments, frontVars
<1>3. CASE arguments[toolchain[p]] # None /\ arguments[toolchain[p]] # "empty"
  BY <1>3 DEF ReadArguments, frontVars
<1> QED
  BY <1>1, <1>2, <1>3

LEMMA ReadsMove ==
  ASSUME BuilderInv, NEW p \in Processes, Reads(p)
  PROVE  /\ UNCHANGED <<library, tools, directory, toolchain, loaded, source>>
         /\ call[p].at \in Reading
         /\ call'[p].disturbed = call[p].disturbed /\ call'[p].kind = call[p].kind
         /\ \A q \in Processes \ {p} : Beside(q)
         /\ \/ call'[p].at \in Reading
            \/ call'[p].at = "ready" /\ call'[p].key = call[p].key
            \/ MakeKey(p) /\ call'[p].at = "generate"
         /\ ReadArguments(p) \/ WriteArguments(p) \/ call'[p].at \notin {"ask", "answer"}
<1> USE DEF KeepRest, KeepCache, KeepFiles, KeepTask, frontVars
<1>0. CacheTypes /\ CacheInv /\ call[p] \in CallRecords
  BY DEF BuilderInv, CacheInv, CacheTypes
<1>a. \A x \in Points : GoTo(p, x) \in CallRecords /\ GoTo(p, x).at = x /\ GoTo(p, x).kind = call[p].kind
                         /\ GoTo(p, x).disturbed = call[p].disturbed
  BY <1>0, GoToFields
<1>b. /\ Ended(p, "failed", None).at = "ready" /\ Ended(p, "failed", None).key = call[p].key
      /\ Ended(p, "failed", None).kind = call[p].kind /\ Ended(p, "failed", None).disturbed = call[p].disturbed
  BY <1>0, EndedFields
<1>c. /\ {"ask", "answer", "parse", "key", "digest", "describe"} \subseteq Reading
      /\ {"dependencies", "transpile"} \subseteq Reading /\ Reading \subseteq Points /\ "generate" \in Points
  BY DEF Reading, Parsing, Points, Generating
<1>1. CASE ReadArguments(p)
  <2>1. \/ Quietly(p, GoTo(p, "ask")) \/ Quietly(p, GoTo(p, "parse"))
        \/ Quietly(p, Ended(p, "failed", None))
    BY <1>1, ArgumentsAreRead
  <2> QED
    BY <1>0, <1>1, <1>a, <1>b, <1>c, <2>1, StepOf DEF ReadArguments, At
<1>2. CASE WriteArguments(p)
  BY <1>0, <1>2, <1>a, <1>c, StepOf DEF WriteArguments, At
<1>3. CASE Parse(p)
  <2>1. \A x : /\ [GoTo(p, "key") EXCEPT !.described = x].at = "key"
               /\ [GoTo(p, "key") EXCEPT !.described = x].kind = call[p].kind
               /\ [GoTo(p, "key") EXCEPT !.described = x].disturbed = call[p].disturbed
               /\ [GoTo(p, "digest") EXCEPT !.described = x].at = "digest"
               /\ [GoTo(p, "digest") EXCEPT !.described = x].kind = call[p].kind
               /\ [GoTo(p, "digest") EXCEPT !.described = x].disturbed = call[p].disturbed
    BY <1>0, <1>a, <1>c DEF CallRecords
  <2>2. \E x : \/ Quietly(p, [GoTo(p, "key") EXCEPT !.described = x])
              \/ Quietly(p, [GoTo(p, "digest") EXCEPT !.described = x])
    BY <1>3 DEF Parse
  <2>3. PICK x : \/ Quietly(p, [GoTo(p, "key") EXCEPT !.described = x])
                 \/ Quietly(p, [GoTo(p, "digest") EXCEPT !.described = x])
    BY <2>2
  <2>4. /\ \/ call'[p] = [GoTo(p, "key") EXCEPT !.described = x]
           \/ call'[p] = [GoTo(p, "digest") EXCEPT !.described = x]
        /\ \A q \in Processes \ {p} : Beside(q)
    BY <1>0, <2>3, StepOf
  <2>5. call'[p].at \in {"key", "digest"} /\ call'[p].kind = call[p].kind /\ call'[p].disturbed = call[p].disturbed
    <3>1. CASE call'[p] = [GoTo(p, "key") EXCEPT !.described = x]
      BY <1>c, <2>1, <3>1
    <3>2. CASE call'[p] = [GoTo(p, "digest") EXCEPT !.described = x]
      BY <1>c, <2>1, <3>2
    <3> QED
      BY <2>4, <3>1, <3>2
  <2> QED
    BY <1>3, <1>c, <2>4, <2>5 DEF Parse, At
<1>4. CASE DigestHeader(p)
  BY <1>0, <1>4, <1>a, <1>c, StepOf DEF DigestHeader, At
<1>5. CASE TranspileStep(p)
  <2>1. UNCHANGED <<library, tools, directory, toolchain, loaded, source>>
    BY <1>5 DEF TranspileStep, Vhdl!Transpiles, Vhdl!TakeDigest, Vhdl!LookUp, Vhdl!Analyze, Vhdl!Synthesize,
                Vhdl!OpenTemporary, Vhdl!WriteTemporary, Vhdl!Replace
  <2> QED
    BY <1>0, <1>5, <1>a, <1>c, <2>1, StepOf DEF TranspileStep, At
<1>6. CASE TranspileFails(p)
  BY <1>0, <1>6, <1>b, <1>c, StepOf DEF TranspileFails, At
<1>7. CASE Describe(p)
  <2>1. \A x : /\ [GoTo(p, "key") EXCEPT !.described = x].at = "key"
               /\ [GoTo(p, "key") EXCEPT !.described = x].kind = call[p].kind
               /\ [GoTo(p, "key") EXCEPT !.described = x].disturbed = call[p].disturbed
    BY <1>0, <1>a, <1>c DEF CallRecords
  <2>2. Quietly(p, Ended(p, "failed", None)) \/ Quietly(p, [GoTo(p, "key") EXCEPT !.described = Contents(p)])
    BY <1>7 DEF Describe
  <2>3. /\ \/ call'[p] = Ended(p, "failed", None)
           \/ call'[p] = [GoTo(p, "key") EXCEPT !.described = Contents(p)]
        /\ \A q \in Processes \ {p} : Beside(q)
    BY <1>0, <2>2, StepOf
  <2> QED
    BY <1>7, <1>b, <1>c, <2>1, <2>3 DEF Describe, At
<1>8. CASE MakeKey(p)
  <2> DEFINE key == [kind |-> call[p].kind, described |-> call[p].described, contents |-> Contents(p)]
  <2>1. \A x : /\ [GoTo(p, "generate") EXCEPT !.key = x].at = "generate"
               /\ [GoTo(p, "generate") EXCEPT !.key = x].kind = call[p].kind
               /\ [GoTo(p, "generate") EXCEPT !.key = x].disturbed = call[p].disturbed
    BY <1>0, <1>a, <1>c DEF CallRecords
  <2>2. Quietly(p, Ended(p, "failed", None)) \/ Quietly(p, [GoTo(p, "generate") EXCEPT !.key = key])
    BY <1>8 DEF MakeKey
  <2> HIDE DEF key
  <2>3. /\ \/ call'[p] = Ended(p, "failed", None)
           \/ call'[p] = [GoTo(p, "generate") EXCEPT !.key = key]
        /\ \A q \in Processes \ {p} : Beside(q)
    BY <1>0, <2>2, StepOf
  <2> QED
    BY <1>8, <1>b, <1>c, <2>1, <2>3 DEF MakeKey, At
<1> QED
  BY <1>1, <1>2, <1>3, <1>4, <1>5, <1>6, <1>7, <1>8 DEF Reads

(* In the directory of the build. *)
FilesKept == \A k \in Keys : /\ directory'[k].files = directory[k].files
                             /\ directory'[k].shared = directory[k].shared

Written(p, contents) ==
    /\ \A k \in Keys : directory'[k].shared = directory[k].shared
    /\ \A k \in Keys : k # call[p].key => directory'[k].files = directory[k].files
    /\ directory'[call[p].key].files = [directory[call[p].key].files EXCEPT ![call[p].next] = contents]

Compares(p) ==
    \/ Dir(p).files[HashFile] = Template[tools] /\ call'[p].at = "stamp" /\ FilesKept
    \/ /\ Dir(p).files[HashFile] # Template[tools] /\ call'[p].at = "open" /\ call'[p].next = 1
       /\ \A k \in Keys : directory'[k].files = directory[k].files
       /\ \A k \in Keys : k # call[p].key => directory'[k].shared = directory[k].shared
       /\ directory'[call[p].key].shared = (Dir(p).shared \/ AlsoGenerated(p))

Opens(p) == call'[p].at = "write" /\ call'[p].next = call[p].next /\ Written(p, "empty")
Fills(p) ==
    /\ Written(p, Template[tools])
    /\ IF call[p].next = HashFile THEN call'[p].at = "stamp"
       ELSE call'[p].at = "open" /\ call'[p].next = call[p].next + 1

Stops(p) == call'[p].at = "ready" /\ (call'[p].outcome = "failed" => Fails(p, Contents(p)))

LEMMA BackEndMoves ==
  ASSUME BuilderInv, NEW p \in Processes, BackEndStep(p)
  PROVE  /\ UNCHANGED <<library, tools, toolchain, source, arguments, parsed, work, temporary, systemVerilog, crowded>>
         /\ HasKey(p) /\ call[p].key \in Keys /\ call'[p].key = call[p].key
         /\ call'[p].disturbed = call[p].disturbed /\ call'[p].kind = call[p].kind
         /\ \A q \in Processes \ {p} : Beside(q)
         /\ \/ At(p, "generate") /\ Compares(p)
            \/ At(p, "open") /\ Opens(p)
            \/ At(p, "write") /\ Fills(p)
            \/ call[p].at \in Building /\ call'[p].at \in Building /\ FilesKept
            \/ call[p].at \in Building /\ FilesKept /\ Stops(p)
<1> USE DEF BackEndStep, BackEnd, KeepTask, frontVars
<1>a. HasKey(p)
  BY DEF CompareHash, OpenFile, WriteFile, CompareStamp, Configure, Build, Fails, WriteStamp, FindModule, Import, Link,
     At, HasKey, Generating, Building
<1>0. /\ CacheTypes /\ call[p] \in CallRecords /\ call[p].key \in Keys /\ Dir(p) \in Directories
      /\ directory \in [Keys -> Directories] /\ Rendered(p) = Template[tools] /\ tools \in Tools
      /\ call[p].next \in 1..HashFile
  BY <1>a, StepFacts DEF CacheTypes, CallRecords
<1>b. \A x \in Points : /\ GoTo(p, x) \in CallRecords /\ GoTo(p, x).at = x /\ GoTo(p, x).kind = call[p].kind
                        /\ GoTo(p, x).key = call[p].key /\ GoTo(p, x).next = call[p].next
                        /\ GoTo(p, x).disturbed = call[p].disturbed
  BY <1>0, GoToFields
<1>c. Building \subseteq Points /\ {"open", "write"} \subseteq Points
  BY DEF Building, Generating, Points
<1> DEFINE goal == /\ call'[p].key = call[p].key
                   /\ call'[p].disturbed = call[p].disturbed /\ call'[p].kind = call[p].kind
                   /\ \A q \in Processes \ {p} : Beside(q)
                   /\ \/ At(p, "generate") /\ Compares(p)
                      \/ At(p, "open") /\ Opens(p)
                      \/ At(p, "write") /\ Fills(p)
                      \/ call[p].at \in Building /\ call'[p].at \in Building /\ FilesKept
                      \/ call[p].at \in Building /\ FilesKept /\ Stops(p)
           same(c) == c.kind = call[p].kind /\ c.key = call[p].key /\ c.disturbed = call[p].disturbed
<1>d. \A x \in Points : \A v :
                           /\ same([GoTo(p, x) EXCEPT !.next = v]) /\ same([GoTo(p, x) EXCEPT !.stamp = v])
                           /\ same([GoTo(p, x) EXCEPT !.time = v]) /\ same([GoTo(p, x) EXCEPT !.module = v])
                           /\ [GoTo(p, x) EXCEPT !.next = v].at = x /\ [GoTo(p, x) EXCEPT !.stamp = v].at = x
                           /\ [GoTo(p, x) EXCEPT !.time = v].at = x /\ [GoTo(p, x) EXCEPT !.module = v].at = x
                           /\ [GoTo(p, x) EXCEPT !.next = v].next = v
  <2> TAKE x \in Points
  <2> TAKE v
  <2> QED
    BY <1>b DEF CallRecords
<1>1. ASSUME CompareHash(p) PROVE goal
  <2>1. CASE Dir(p).files[HashFile] = Rendered(p)
    <3>1. Quietly(p, GoTo(p, "stamp")) /\ directory' = directory
      BY <1>1, <2>1 DEF CompareHash
    <3>2. call'[p] = GoTo(p, "stamp") /\ \A q \in Processes \ {p} : Beside(q)
      BY <1>0, <3>1, StepOf
    <3>3. Compares(p)
      BY <1>0, <1>b, <1>c, <2>1, <3>1, <3>2 DEF Compares, FilesKept, Building
    <3> QED
      BY <1>1, <1>b, <1>c, <3>2, <3>3 DEF CompareHash, Building
  <2>2. CASE Dir(p).files[HashFile] # Rendered(p)
    <3> DEFINE c == [GoTo(p, "open") EXCEPT !.next = 1]
    <3>1. /\ Quietly(p, c)
          /\ directory' = [directory EXCEPT ![call[p].key].shared = Dir(p).shared \/ AlsoGenerated(p)]
      BY <1>1, <2>2 DEF CompareHash, Dir
    <3>2. same(c) /\ c.at = "open" /\ c.next = 1
      BY <1>c, <1>d
    <3> HIDE DEF c
    <3>3. call'[p] = c /\ \A q \in Processes \ {p} : Beside(q)
      BY <1>0, <3>1, StepOf
    <3>4. Compares(p)
      BY <1>0, <2>2, <3>1, <3>2, <3>3 DEF Compares, Directories
    <3> QED
      BY <1>1, <3>2, <3>3, <3>4 DEF CompareHash
  <2> QED
    BY <2>1, <2>2
<1>2. ASSUME OpenFile(p) PROVE goal
  <2>1. Visibly(p, GoTo(p, "write")) /\ At(p, "open") /\ WriteTo(p, "empty")
    BY <1>2 DEF OpenFile
  <2>2. call'[p] = GoTo(p, "write") /\ \A q \in Processes \ {p} : Beside(q)
    BY <1>0, <2>1, StepOf
  <2>3. Written(p, "empty")
    BY <1>0, <2>1 DEF WriteTo, Written, FileAt, Directories
  <2> QED
    BY <1>b, <1>c, <2>1, <2>2, <2>3 DEF Opens
<1>3. ASSUME WriteFile(p) PROVE goal
  <2> DEFINE c1 == GoTo(p, "stamp")
             c2 == [GoTo(p, "open") EXCEPT !.next = call[p].next + 1]
  <2>0. GoTo(p, "open").next = call[p].next
    BY <1>b, <1>c
  <2>1. At(p, "write") /\ WriteTo(p, Rendered(p)) /\ Visibly(p, IF call[p].next = HashFile THEN c1 ELSE c2)
    BY <1>3, <2>0 DEF WriteFile
  <2>2. same(c1) /\ c1.at = "stamp" /\ same(c2) /\ c2.at = "open" /\ c2.next = call[p].next + 1
    BY <1>b, <1>c, <1>d DEF Building
  <2> HIDE DEF c1, c2
  <2>3. call'[p] = (IF call[p].next = HashFile THEN c1 ELSE c2) /\ \A q \in Processes \ {p} : Beside(q)
    BY <1>0, <2>1, StepOf
  <2>4. Written(p, Template[tools])
    BY <1>0, <2>1 DEF WriteTo, Written, FileAt, Directories
  <2> QED
    BY <2>1, <2>2, <2>3, <2>4 DEF Fills
<1>4. ASSUME CompareStamp(p) PROVE goal
  <2> DEFINE c == [GoTo(p, IF IsConfigured(p) THEN "build" ELSE "configure") EXCEPT !.stamp = Stamp(p)]
  <2>1. At(p, "stamp") /\ Quietly(p, c) /\ directory' = directory
    BY <1>4 DEF CompareStamp, KeepFiles
  <2>2. same(c) /\ c.at \in Building
    BY <1>c, <1>d DEF Building
  <2> HIDE DEF c
  <2>3. call'[p] = c /\ \A q \in Processes \ {p} : Beside(q)
    BY <1>0, <2>1, StepOf
  <2> QED
    BY <2>1, <2>2, <2>3 DEF FilesKept, At, Building
<1>5. ASSUME Configure(p) PROVE goal
  <2>1. /\ At(p, "configure") /\ Visibly(p, GoTo(p, "build"))
        /\ directory' = [directory EXCEPT ![call[p].key].configured = tools]
    BY <1>5 DEF Configure
  <2>2. call'[p] = GoTo(p, "build") /\ \A q \in Processes \ {p} : Beside(q)
    BY <1>0, <2>1, StepOf
  <2>3. FilesKept
    BY <1>0, <2>1 DEF FilesKept, Directories
  <2> QED
    BY <1>b, <1>c, <2>1, <2>2, <2>3 DEF At, Building
<1>6. ASSUME Build(p, Contents(p)) PROVE goal
  <2>1. At(p, "build") /\ Visibly(p, GoTo(p, "built"))
    BY <1>6 DEF Build
  <2>2. call'[p] = GoTo(p, "built") /\ \A q \in Processes \ {p} : Beside(q)
    BY <1>0, <2>1, StepOf
  <2>3. FilesKept
    <3> DEFINE code == Code(p, Contents(p))
    <3>1. \/ directory' = directory
          \/ directory' = [directory EXCEPT ![call[p].key].module = code, ![call[p].key].time = @ + 1,
                                            ![call[p].key].touched = FALSE]
      BY <1>6 DEF Build
    <3> HIDE DEF code
    <3> QED
      BY <1>0, <3>1 DEF FilesKept, Directories
  <2> QED
    BY <1>b, <1>c, <2>1, <2>2, <2>3 DEF At, Building
<1>7. ASSUME Fails(p, Contents(p)) PROVE goal
  <2>1. call[p].at \in Building /\ Quietly(p, Ended(p, "failed", None)) /\ directory' = directory
    BY <1>7 DEF Fails, At, Building, KeepFiles
  <2>2. call'[p] = Ended(p, "failed", None) /\ \A q \in Processes \ {p} : Beside(q)
    BY <1>0, <2>1, StepOf
  <2>3. same(Ended(p, "failed", None)) /\ Ended(p, "failed", None).at = "ready"
    BY <1>0, EndedFields
  <2> QED
    BY <1>7, <2>1, <2>2, <2>3 DEF FilesKept, Stops
<1>8. ASSUME WriteStamp(p) PROVE goal
  <2>1. /\ At(p, "built") /\ Visibly(p, GoTo(p, "find"))
        /\ directory' = [directory EXCEPT ![call[p].key].stamp = call[p].stamp]
    BY <1>8 DEF WriteStamp
  <2>2. call'[p] = GoTo(p, "find") /\ \A q \in Processes \ {p} : Beside(q)
    BY <1>0, <2>1, StepOf
  <2>3. FilesKept
    BY <1>0, <2>1 DEF FilesKept, Directories
  <2> QED
    BY <1>b, <1>c, <2>1, <2>2, <2>3 DEF At, Building
<1>9. ASSUME FindModule(p) PROVE goal
  <2> DEFINE entry == loaded[p][call[p].key]
             c1 == [GoTo(p, "import") EXCEPT !.time = Dir(p).time]
             c2 == Ended(p, "rebuilt", None)
             c3 == Ended(p, "returned", entry.module)
             c == IF entry = None THEN c1 ELSE IF entry.time # Dir(p).time THEN c2 ELSE c3
  <2>1. At(p, "find") /\ Quietly(p, c) /\ directory' = directory
    BY <1>9 DEF FindModule, KeepFiles
  <2>2. same(c1) /\ c1.at = "import"
    BY <1>c, <1>d DEF Building
  <2>3. same(c2) /\ c2.at = "ready" /\ c2.outcome = "rebuilt"
    BY <1>0, EndedFields
  <2>4. entry # None => same(c3) /\ c3.at = "ready" /\ c3.outcome = "returned"
    <3>1. entry # None => entry.module \in Modules \cup {None}
      BY <1>0 DEF CacheTypes, Entries
    <3> QED
      BY <1>0, <3>1, EndedFields
  <2> HIDE DEF c1, c2, c3
  <2>5. same(c) /\ (c.at = "import" \/ (c.at = "ready" /\ c.outcome # "failed"))
    BY <2>2, <2>3, <2>4
  <2> HIDE DEF c
  <2>6. call'[p] = c /\ \A q \in Processes \ {p} : Beside(q)
    BY <1>0, <2>1, StepOf
  <2> QED
    BY <2>1, <2>5, <2>6 DEF FilesKept, Stops, At, Building
<1>10. ASSUME Import(p) PROVE goal
  <2> DEFINE c == [GoTo(p, "link") EXCEPT !.module = Dir(p).module]
  <2>1. At(p, "import") /\ Quietly(p, c) /\ directory' = directory
    BY <1>10 DEF Import, KeepFiles
  <2>2. same(c) /\ c.at = "link"
    BY <1>c, <1>d DEF Building
  <2> HIDE DEF c
  <2>3. call'[p] = c /\ \A q \in Processes \ {p} : Beside(q)
    BY <1>0, <2>1, StepOf
  <2> QED
    BY <2>1, <2>2, <2>3 DEF FilesKept, At, Building
<1>11. ASSUME Link(p) PROVE goal
  <2> DEFINE c == Ended(p, "returned", call[p].module)
  <2>1. At(p, "link") /\ Quietly(p, c) /\ directory' = directory
    BY <1>11 DEF Link
  <2>2. same(c) /\ c.at = "ready" /\ c.outcome = "returned"
    <3>1. call[p].module \in Modules \cup {None}
      BY <1>0 DEF CallRecords
    <3> QED
      BY <1>0, <3>1, EndedFields
  <2> HIDE DEF c
  <2>3. call'[p] = c /\ \A q \in Processes \ {p} : Beside(q)
    BY <1>0, <2>1, StepOf
  <2> QED
    BY <2>1, <2>2, <2>3 DEF FilesKept, Stops, At, Building
<1>12. goal
  BY <1>1, <1>2, <1>3, <1>4, <1>5, <1>6, <1>7, <1>8, <1>9, <1>10, <1>11
<1>13. UNCHANGED <<library, tools, toolchain, source, arguments, parsed, work, temporary, systemVerilog, crowded>>
  BY DEF CompareHash, OpenFile, WriteFile, CompareStamp, Configure, Build, Fails, WriteStamp, FindModule, Import, Link,
     WriteTo, KeepFiles
<1> QED
  BY <1>0, <1>a, <1>12, <1>13

(* Around the calls. *)
LEMMA EditsMove ==
  ASSUME BuilderInv, (\E v \in Versions : EditSource(v)) \/ EditLibrary
  PROVE  /\ UNCHANGED <<tools, directory, toolchain, loaded, arguments, parsed, vhdlVars>>
         /\ \A q \in Processes : Stays(q) /\ (q \notin Idle => call'[q].disturbed)
<1>0. CacheTypes
  BY DEF BuilderInv, CacheInv
<1>1. CASE EditLibrary
  <2>1. call' = [q \in Processes |-> IF q \in Idle THEN call[q] ELSE [call[q] EXCEPT !.disturbed = TRUE]]
    BY <1>1 DEF EditLibrary, DisturbAll
  <2>2. \A q \in Processes : Beside(q) /\ (q \notin Idle => call'[q].disturbed)
    BY <1>0, <2>1 DEF Beside, CacheTypes, CallRecords
  <2> QED
    BY <1>0, <1>1, <2>2, BesideStays DEF EditLibrary, frontVars
<1>2. ASSUME NEW v \in Versions, EditSource(v)
      PROVE  /\ UNCHANGED <<tools, directory, toolchain, loaded, arguments, parsed, vhdlVars>>
             /\ \A q \in Processes : Stays(q) /\ (q \notin Idle => call'[q].disturbed)
  <2> DEFINE new(q) == [[call[q] EXCEPT !.disturbed = TRUE] EXCEPT !.versions = @ \cup {v}]
  <2>1. call' = [q \in Processes |-> IF q \in Idle THEN call[q] ELSE new(q)]
    BY <1>2 DEF EditSource, DisturbAll
  <2>2. \A q \in Processes :
           /\ new(q).at = call[q].at /\ new(q).kind = call[q].kind /\ new(q).described = call[q].described
           /\ new(q).key = call[q].key /\ new(q).next = call[q].next /\ new(q).outcome = call[q].outcome
           /\ new(q).disturbed
    BY <1>0 DEF CacheTypes, CallRecords
  <2> HIDE DEF new
  <2>3. \A q \in Processes : Stays(q) /\ (q \notin Idle => call'[q].disturbed)
    BY <2>1, <2>2 DEF Stays
  <2> QED
    BY <1>2, <2>3 DEF EditSource
<1> QED
  BY <1>1, <1>2

LEMMA StartMoves ==
  ASSUME BuilderInv, NEW p \in Processes, StartProcess(p)
  PROVE  /\ UNCHANGED <<library, tools, directory, loaded, frontVars, vhdlVars>>
         /\ At(p, "off") /\ call'[p].at = "ready" /\ call'[p].outcome = None
         /\ \A q \in Processes \ {p} : call'[q] = call[q] /\ toolchain'[q] = toolchain[q]
<1>1. CacheTypes
  BY DEF BuilderInv, CacheInv
<1> QED
  BY <1>1, NewCallFields DEF StartProcess, Quietly, CacheTypes

LEMMA EndMoves ==
  ASSUME BuilderInv, NEW p \in Processes, EndProcess(p)
  PROVE  /\ UNCHANGED <<library, tools, directory, source, arguments, work, temporary, systemVerilog, crowded>>
         /\ call'[p].at = "off"
         /\ \A q \in Processes \ {p} : /\ Stays(q) /\ (q \notin Idle => call'[q].disturbed)
                                        /\ toolchain'[q] = toolchain[q] /\ parsed'[q] = parsed[q]
                                        /\ task'[q] = task[q]
<1>0. CacheTypes /\ task \in [Processes -> TaskRecords]
  BY DEF BuilderInv, CacheInv, TranspileInv, TranspileTypes
<1>1. call' = [q \in Processes |-> IF q = p THEN Off ELSE IF q \in Idle THEN call[q]
                                   ELSE [call[q] EXCEPT !.disturbed = TRUE]]
  BY DEF EndProcess, Visibly
<1>2. \A q \in Processes \ {p} : Beside(q) /\ (q \notin Idle => call'[q].disturbed)
  BY <1>0, <1>1 DEF Beside, CacheTypes, CallRecords
<1>3. call'[p].at = "off"
  BY <1>1, NewCallFields
<1>4. \A q \in Processes \ {p} : toolchain'[q] = toolchain[q] /\ parsed'[q] = parsed[q] /\ task'[q] = task[q]
  BY <1>0 DEF EndProcess, CacheTypes
<1> QED
  BY <1>0, <1>2, <1>3, <1>4, BesideStays DEF EndProcess

LEMMA CallMoves ==
  ASSUME BuilderInv, NEW p \in Processes, NEW k \in Builds[p], Call(p, k)
  PROVE  /\ UNCHANGED <<library, tools, directory, toolchain, loaded, frontVars, vhdlVars>>
         /\ At(p, "ready") /\ call'[p].at \in {"dependencies", "parse", "describe", "transpile"}
         /\ ~call'[p].disturbed => Processes \subseteq Idle
         /\ \A q \in Processes \ {p} : Stays(q) /\ (q \notin Idle => call'[q].disturbed)
<1>0. CacheTypes
  BY DEF BuilderInv, CacheInv
<1> DEFINE new == [NewCall EXCEPT !.at = FrontEnd(k), !.kind = k, !.versions = {source}, !.tools = tools,
                                  !.library = library, !.disturbed = Processes # Idle]
<1>1. call' = [q \in Processes |-> IF q = p THEN new ELSE IF q \in Idle THEN call[q]
                                   ELSE [call[q] EXCEPT !.disturbed = TRUE]]
  BY DEF Call
<1>2. new.at = FrontEnd(k) /\ new.disturbed = (Processes # Idle)
  BY DEF NewCall
<1>3. FrontEnd(k) \in {"dependencies", "parse", "describe", "transpile"}
  <2>1. k \in {"cpp", "verilog", "vhdl"}
    BY BuilderAssumption
  <2>2. k = "cpp" => FrontEnd(k) \in {"dependencies", "parse"}
    BY DEF FrontEnd
  <2>3. k = "verilog" => FrontEnd(k) = "describe"
    BY DEF FrontEnd
  <2>4. k = "vhdl" => FrontEnd(k) = "transpile"
    BY DEF FrontEnd
  <2> QED
    BY <2>1, <2>2, <2>3, <2>4
<1> HIDE DEF new
<1>4. \A q \in Processes \ {p} : Beside(q) /\ (q \notin Idle => call'[q].disturbed)
  BY <1>0, <1>1 DEF Beside, CacheTypes, CallRecords
<1>5. call'[p] = new
  BY <1>1
<1> QED
  BY <1>0, <1>2, <1>3, <1>4, <1>5, BesideStays DEF Call

-----------------------------------------------------------------------------
(* Who is undisturbed is alone. *)

LEMMA AloneKept ==
  ASSUME BuilderInv, AloneInv, [Next]_vars
  PROVE  AloneInv'
<1> USE DEF AloneInv, Undisturbed, UnderWay, Idle, At
<1>0. CacheTypes
  BY DEF BuilderInv, CacheInv
<1>a. {"off", "ready"} \cap (Reading \cup Generating \cup Building) = {}
  BY DEF Reading, Parsing, Generating, Building
<1>b. {"dependencies", "parse", "describe", "transpile"} \subseteq Reading
  BY DEF Reading, Parsing
<1>1. CASE (\E v \in Versions : EditSource(v)) \/ EditLibrary
  BY <1>1, <1>a, EditsMove DEF Stays
<1>2. CASE UNCHANGED vars \/ \E t \in Tools : Upgrade(t)
  <2>1. call' = call
    BY <1>2 DEF vars, cacheVars, Upgrade
  <2> QED
    BY <2>1
<1>3. ASSUME NEW p \in Processes, StartProcess(p) PROVE AloneInv'
  BY <1>3, <1>a, StartMoves
<1>4. ASSUME NEW p \in Processes, EndProcess(p) PROVE AloneInv'
  BY <1>4, <1>a, EndMoves DEF Stays
<1>5. ASSUME NEW p \in Processes, NEW k \in Builds[p], Call(p, k) PROVE AloneInv'
  <2>1. ~call'[p].disturbed => \A q \in Processes : call[q].at \in {"off", "ready"}
    BY <1>5, CallMoves DEF Idle
  <2> QED
    BY <1>5, <1>a, <1>b, <2>1, CallMoves DEF Stays
<1>6. ASSUME NEW p \in Processes, Reads(p) \/ BackEndStep(p) PROVE AloneInv'
  <2>1. UnderWay(p) /\ call'[p].disturbed = call[p].disturbed /\ \A q \in Processes \ {p} : Stays(q)
    BY <1>0, <1>6, ReadsMove, BackEndMoves, BesideStays, KeyIsUnderWay
  <2> QED
    BY <1>a, <2>1 DEF Stays
<1> QED
  BY <1>1, <1>2, <1>3, <1>4, <1>5, <1>6 DEF Next, Reads

(* The temporary file of an entity. *)
LEMMA RenamingKept ==
  ASSUME TranspileInv, RenamingInv, [Next]_vars
  PROVE  RenamingInv'
<1> USE DEF RenamingInv, Writing
<1>1. ASSUME NEW p \in Processes, Vhdl!Transpiles(p) PROVE RenamingInv'
  <2> USE DEF Vhdl!Moves, Vhdl!GoOn, Vhdl!Digest, Vhdl!NewTask, TranspileInv, TranspileTypes
  <2>0. \A q \in Processes : task[q] \in TaskRecords
    OBVIOUS
  <2>1. CASE Vhdl!TakeDigest(p)
    BY <2>1 DEF Vhdl!TakeDigest
  <2>2. CASE Vhdl!LookUp(p)
    BY <2>0, <2>2 DEF Vhdl!LookUp, TaskRecords
  <2>3. CASE Vhdl!Analyze(p)
    BY <2>0, <2>3 DEF Vhdl!Analyze, TaskRecords
  <2>4. CASE Vhdl!Synthesize(p)
    BY <2>0, <2>4 DEF Vhdl!Synthesize, TaskRecords
  <2>5. CASE Vhdl!OpenTemporary(p)
    BY <2>0, <2>5, BuildCacheAssumption DEF Vhdl!OpenTemporary, Vhdl!OpensTemporary, TaskRecords, TaskInv
  <2>6. CASE Vhdl!WriteTemporary(p)
    <3>1. task[p].netlist # None /\ \A q \in Processes : task[q].at # "idle" => task[q].digest \in Versions
      BY <2>6 DEF Vhdl!WriteTemporary, TaskInv
    <3> QED
      BY <2>0, <2>6, <3>1 DEF Vhdl!WriteTemporary, TaskRecords
  <2>7. CASE Vhdl!Replace(p)
    BY <2>0, <2>7 DEF Vhdl!Replace, TaskRecords, Alone
  <2> QED
    BY <1>1, <2>1, <2>2, <2>3, <2>4, <2>5, <2>6, <2>7 DEF Vhdl!Transpiles
<1>2. CASE ~\E p \in Processes : TranspileStep(p)
  <2>1. /\ UNCHANGED <<temporary, crowded>>
        /\ task' = task \/ \E p \in Processes : task' = [task EXCEPT ![p] = Vhdl!NewTask]
    BY <1>2 DEF Next, vars, frontVars, vhdlVars, KeepTask, KeepRest, KeepCache,
       EditSource, EditLibrary, Upgrade, StartProcess, EndProcess, Call, ReadArguments, WriteArguments, Parse,
       DigestHeader, TranspileFails, Describe, MakeKey, BackEndStep
  <2> QED
    BY <2>1 DEF Vhdl!NewTask, TranspileInv, TranspileTypes
<1> QED
  BY <1>1, <1>2 DEF TranspileStep

-----------------------------------------------------------------------------
(* A build repairs the files of one that was killed, if it is the only one that writes them. *)

(* No call comes to write or to build by the step, and the files stay as they are. *)
LEMMA RepairStays ==
  ASSUME NEW k \in Keys, RepairInv(k), tools' = tools,
         directory'[k].files = directory[k].files, directory'[k].shared = directory[k].shared,
         \A q \in Processes :
            /\ call'[q].at \in {"open", "write"} /\ call'[q].key = k =>
                  call'[q].at = call[q].at /\ call'[q].key = call[q].key /\ call'[q].next = call[q].next
            /\ call'[q].at \in Building /\ call'[q].key = k => call[q].at \in Building /\ call'[q].key = call[q].key
  PROVE  RepairInv(k)'
BY DEF RepairInv, Stale, Writes

(* A hash that is not the one of the tools is of none that are newer either. *)
LEMMA StaleIfOther ==
  ASSUME CacheInv, NEW k \in Keys, directory[k].files[HashFile] # Template[tools]
  PROVE  Stale(k)
<1>1. tools \in Tools /\ HashFile \in 1..HashFile
  BY BuildCacheAssumption DEF CacheInv, CacheTypes, HashFile
<1>2. ASSUME NEW t \in Tools, t >= tools, Template[t] = directory[k].files[HashFile] PROVE FALSE
  <2>1. IsWritten(directory[k].files[HashFile])
    BY <1>2, BuildCacheAssumption DEF IsWritten
  <2>2. PICK u \in Tools : u <= tools /\ Template[u] = Template[t]
    BY <1>2, <2>1 DEF CacheInv, DirectoryInv, FilesInv
  <2>3. Template[tools] = Template[t]
    BY <1>1, <1>2, <2>2, BuildCacheAssumption
  <2> QED
    BY <1>2, <2>3
<1> QED
  BY <1>2 DEF Stale

LEMMA RepairKept ==
  ASSUME BuilderInv, \A k \in Keys : RepairInv(k), [Next]_vars, NEW k \in Keys
  PROVE  RepairInv(k)'
<1>0. CacheInv /\ CacheTypes /\ tools \in Tools /\ tools \in Nat /\ RepairInv(k)
  BY BuildCacheAssumption DEF BuilderInv, CacheInv, CacheTypes
<1>a. {"off", "ready", "dependencies", "parse", "describe", "transpile"} \cap ({"open", "write"} \cup Building) = {}
  BY DEF Building
<1>b. (Reading \cup {"ready", "generate"}) \cap ({"open", "write"} \cup Building) = {}
  BY DEF Reading, Parsing, Building
<1>1. CASE (\E v \in Versions : EditSource(v)) \/ EditLibrary
  BY <1>0, <1>1, EditsMove, RepairStays DEF Stays
<1>2. CASE UNCHANGED vars
  BY <1>0, <1>2, RepairStays DEF vars, cacheVars
<1>3. ASSUME NEW t \in Tools, Upgrade(t) PROVE RepairInv(k)'
  <2>1. t > tools /\ tools' = t /\ UNCHANGED <<directory, call>> /\ \A p \in Processes : call[p].at = "off"
    BY <1>3 DEF Upgrade
  <2>2. Stale(k) => Stale(k)'
    BY <1>0, <2>1, BuildCacheAssumption DEF Stale
  <2> QED
    BY <1>0, <1>a, <2>1, <2>2 DEF RepairInv, Writes
<1>4. ASSUME NEW p \in Processes, StartProcess(p) PROVE RepairInv(k)'
  BY <1>0, <1>4, <1>a, StartMoves, RepairStays
<1>5. ASSUME NEW p \in Processes, EndProcess(p) PROVE RepairInv(k)'
  BY <1>0, <1>5, <1>a, EndMoves, RepairStays DEF Stays
<1>6. ASSUME NEW p \in Processes, NEW x \in Builds[p], Call(p, x) PROVE RepairInv(k)'
  BY <1>0, <1>6, <1>a, CallMoves, RepairStays DEF Stays
<1>7. ASSUME NEW p \in Processes, Reads(p) PROVE RepairInv(k)'
  <2>1. \A q \in Processes \ {p} : Stays(q)
    BY <1>0, <1>7, ReadsMove, BesideStays
  <2> QED
    BY <1>0, <1>7, <1>b, <2>1, ReadsMove, RepairStays DEF Stays
<1>8. ASSUME NEW p \in Processes, BackEndStep(p) PROVE RepairInv(k)'
  <2>1. /\ tools' = tools /\ call'[p].key = call[p].key /\ call[p].key \in Keys
        /\ \A q \in Processes \ {p} : Stays(q)
    BY <1>0, <1>8, BackEndMoves, BesideStays
  <2>2. CASE call[p].at \in Building /\ FilesKept /\ (call'[p].at \in Building \/ Stops(p))
    BY <1>0, <1>a, <2>1, <2>2, RepairStays DEF Stays, FilesKept, Building, Stops
  <2>3. CASE At(p, "generate") /\ Compares(p)
    <3>1. CASE Dir(p).files[HashFile] = Template[tools] /\ call'[p].at = "stamp" /\ FilesKept
      <4>1. directory'[k].files = directory[k].files /\ directory'[k].shared = directory[k].shared
        BY <3>1 DEF FilesKept
      <4>2. call[p].key = k => ~Stale(k)
        BY <1>0, <3>1 DEF Stale, Dir
      <4>3. Stale(k)' = Stale(k)
        BY <2>1, <4>1 DEF Stale
      <4>4. \A q \in Processes : Writes(q, k)' => q # p /\ Writes(q, k) /\ call'[q].next = call[q].next
        BY <2>1, <3>1 DEF Writes, Stays
      <4>5. \A q \in Processes : call'[q].at \in Building /\ call'[q].key = k =>
                (call[q].at \in Building /\ call[q].key = k) \/ call[p].key = k
        BY <2>1, <3>1 DEF Stays
      <4> QED
        BY <1>0, <4>1, <4>2, <4>3, <4>4, <4>5 DEF RepairInv
    <3>2. CASE Dir(p).files[HashFile] # Template[tools] /\ call'[p].at = "open"
      <4>1. /\ call'[p].next = 1 /\ directory'[k].files = directory[k].files
            /\ k # call[p].key => directory'[k].shared = directory[k].shared
            /\ k = call[p].key => directory'[k].shared = (directory[k].shared \/ AlsoGenerated(p))
        BY <2>3, <3>2 DEF Compares, Dir
      <4>2. CASE k # call[p].key
        BY <1>0, <2>1, <4>1, <4>2, RepairStays DEF Stays
      <4>3. CASE k = call[p].key /\ ~directory'[k].shared
        <5>1. ~directory[k].shared /\ \A q \in Processes \ {p} : ~Writes(q, k)
          BY <4>1, <4>3 DEF AlsoGenerated, Writes
        <5>2. Stale(k)
          BY <1>0, <3>2, <4>3, StaleIfOther DEF Dir
        <5>3. Stale(k)' = Stale(k)
          BY <2>1, <4>1 DEF Stale
        <5>4. \A q \in Processes : Writes(q, k)' => q = p
          BY <2>1, <5>1 DEF Writes, Stays
        <5>5. \A q \in Processes : ~(call'[q].at \in Building /\ call'[q].key = k)
          BY <1>0, <2>1, <3>2, <5>1, <5>2 DEF RepairInv, Stays, Building
        <5> QED
          BY <4>1, <5>2, <5>3, <5>4, <5>5 DEF RepairInv
      <4> QED
        BY <4>2, <4>3 DEF RepairInv
    <3> QED
      BY <2>3, <3>1, <3>2 DEF Compares
  <2>4. CASE At(p, "open") /\ Opens(p)
    <3>1. CASE k # call[p].key
      BY <1>0, <2>1, <2>4, <3>1, RepairStays DEF Opens, Written, Stays
    <3>2. CASE k = call[p].key /\ ~directory'[k].shared
      <4>1. ~directory[k].shared /\ Writes(p, k)
        BY <2>4, <3>2 DEF Opens, Written, Writes, At
      <4>2. /\ Stale(k) /\ \A q \in Processes : Writes(q, k) => q = p
            /\ \A q \in Processes : ~(call[q].at \in Building /\ call[q].key = k)
            /\ \A n \in 1..FileCount : n < call[p].next => directory[k].files[n] # "empty"
        BY <1>0, <4>1 DEF RepairInv
      <4>3. /\ directory[k].files \in [1..HashFile -> FileContents] /\ call[p].next \in 1..HashFile
            /\ directory'[k].files = [directory[k].files EXCEPT ![call[p].next] = "empty"]
            /\ call'[p].at = "write" /\ call'[p].next = call[p].next
        BY <1>0, <2>4, <3>2 DEF Opens, Written, CacheTypes, Directories, CallRecords
      <4>4. Stale(k)'
        BY <2>1, <4>2, <4>3, BuildCacheAssumption DEF Stale, HashFile
      <4>5. \A q \in Processes : Writes(q, k)' => q = p
        BY <2>1, <4>2 DEF Writes, Stays
      <4>6. \A q \in Processes : ~(call'[q].at \in Building /\ call'[q].key = k)
        BY <2>1, <4>2, <4>3 DEF Stays, Building
      <4>7. \A n \in 1..FileCount : n < call'[p].next => directory'[k].files[n] # "empty"
        BY <4>2, <4>3, BuildCacheAssumption DEF HashFile
      <4> QED
        BY <4>4, <4>5, <4>6, <4>7 DEF RepairInv
    <3> QED
      BY <3>1, <3>2 DEF RepairInv
  <2>5. CASE At(p, "write") /\ Fills(p)
    <3>1. CASE k # call[p].key
      BY <1>0, <2>1, <2>5, <3>1, RepairStays DEF Fills, Written, Stays
    <3>2. CASE k = call[p].key /\ ~directory'[k].shared
      <4>1. ~directory[k].shared /\ Writes(p, k)
        BY <2>5, <3>2 DEF Fills, Written, Writes, At
      <4>2. /\ Stale(k) /\ \A q \in Processes : Writes(q, k) => q = p
            /\ \A q \in Processes : ~(call[q].at \in Building /\ call[q].key = k)
            /\ \A n \in 1..FileCount : n < call[p].next => directory[k].files[n] # "empty"
        BY <1>0, <4>1 DEF RepairInv
      <4>3. /\ directory[k].files \in [1..HashFile -> FileContents] /\ call[p].next \in 1..HashFile
            /\ directory'[k].files = [directory[k].files EXCEPT ![call[p].next] = Template[tools]]
            /\ Template[tools] # "empty" /\ HashFile = FileCount + 1 /\ FileCount \in Nat
        BY <1>0, <2>5, <3>2, BuildCacheAssumption DEF Fills, Written, CacheTypes, Directories, CallRecords, HashFile
      <4>4. \A q \in Processes : Writes(q, k)' => q = p
        BY <2>1, <4>2 DEF Writes, Stays
      <4>5. CASE call[p].next = HashFile
        <5>1. call'[p].at = "stamp"
          BY <2>5, <4>5 DEF Fills
        <5>2. ~Stale(k)'
          BY <1>0, <2>1, <4>3, <4>5 DEF Stale
        <5>3. \A n \in 1..FileCount : directory'[k].files[n] # "empty"
          BY <4>2, <4>3, <4>5
        <5>4. \A q \in Processes : ~Writes(q, k)'
          BY <4>4, <5>1 DEF Writes
        <5> QED
          BY <5>2, <5>3, <5>4 DEF RepairInv
      <4>6. CASE call[p].next # HashFile
        <5>1. call'[p].at = "open" /\ call'[p].next = call[p].next + 1
          BY <2>5, <4>6 DEF Fills
        <5>2. Stale(k)'
          BY <2>1, <4>2, <4>3, <4>6 DEF Stale
        <5>3. \A n \in 1..FileCount : n < call'[p].next => directory'[k].files[n] # "empty"
          BY <4>2, <4>3, <5>1
        <5>4. \A q \in Processes : ~(call'[q].at \in Building /\ call'[q].key = k)
          BY <2>1, <4>2, <5>1 DEF Stays, Building
        <5> QED
          BY <4>4, <5>2, <5>3, <5>4 DEF RepairInv
      <4> QED
        BY <4>5, <4>6
    <3> QED
      BY <3>1, <3>2 DEF RepairInv
  <2> QED
    BY <1>8, <2>2, <2>3, <2>4, <2>5, BackEndMoves
<1> QED
  BY <1>1, <1>2, <1>3, <1>4, <1>5, <1>6, <1>7, <1>8 DEF Next, Reads

-----------------------------------------------------------------------------
(* What is compiled is what was read. *)

LEMMA FitsStays ==
  ASSUME NEW p \in Processes, FitsInv(p), UNCHANGED <<source, systemVerilog>>, parsed'[p] = parsed[p],
         call'[p].disturbed = call[p].disturbed, call'[p].kind = call[p].kind, call'[p].key = call[p].key,
         UnderWay(p)' => UnderWay(p) /\ task'[p].digest = task[p].digest,
         At(p, "digest")' \/ At(p, "key")' => call'[p].at = call[p].at /\ call'[p].described = call[p].described,
         HasKey(p)' => HasKey(p)
  PROVE  FitsInv(p)'
<1>1. Undisturbed(p)' => Undisturbed(p)
  BY DEF Undisturbed
<1>2. Undisturbed(p)' => Contents(p)' = Contents(p)
  BY DEF Undisturbed, Contents, Vhdl!Digest
<1>3. Undisturbed(p)' => \A x : Fits(p, x)' = Fits(p, x)
  BY <1>2 DEF Fits, ParsedAside
<1> QED
  BY <1>1, <1>3 DEF FitsInv, At

(* Which steps of reading take a call to the points that matter. *)
LEMMA ReadsGo ==
  ASSUME BuilderInv, NEW p \in Processes, Reads(p)
  PROVE  \/ call'[p].at \notin {"digest", "key", "generate"}
         \/ Parse(p) \/ DigestHeader(p) \/ (Describe(p) /\ call'[p].at = "key")
         \/ (MakeKey(p) /\ call'[p].at = "generate")
<1>0. CacheTypes /\ call[p] \in CallRecords
  BY DEF BuilderInv, CacheInv, CacheTypes
<1>a. \A x : GoTo(p, x).at = x /\ [GoTo(p, x) EXCEPT !.described = Contents(p)].at = x
  BY <1>0 DEF GoTo, CallRecords
<1>b. Ended(p, "failed", None).at = "ready"
  BY <1>0, EndedFields
<1>1. CASE ReadArguments(p)
  <2>1. Quietly(p, GoTo(p, "ask")) \/ Quietly(p, GoTo(p, "parse")) \/ Quietly(p, Ended(p, "failed", None))
    BY <1>1, ArgumentsAreRead
  <2> QED
    BY <1>0, <1>a, <1>b, <2>1, StepOf
<1>2. CASE WriteArguments(p)
  BY <1>0, <1>2, <1>a, StepOf DEF WriteArguments
<1>3. CASE TranspileStep(p)
  BY <1>0, <1>3, <1>a, StepOf DEF TranspileStep, At
<1>4. CASE TranspileFails(p)
  BY <1>0, <1>4, <1>b, StepOf DEF TranspileFails
<1>5. CASE Describe(p)
  <2>1. Quietly(p, Ended(p, "failed", None)) \/ Quietly(p, [GoTo(p, "key") EXCEPT !.described = Contents(p)])
    BY <1>5 DEF Describe
  <2> QED
    BY <1>0, <1>5, <1>a, <1>b, <2>1, StepOf
<1>6. CASE MakeKey(p)
  <2> DEFINE key == [kind |-> call[p].kind, described |-> call[p].described, contents |-> Contents(p)]
             c == [GoTo(p, "generate") EXCEPT !.key = key]
  <2>1. Quietly(p, Ended(p, "failed", None)) \/ Quietly(p, c)
    BY <1>6 DEF MakeKey
  <2>2. c.at = "generate"
    BY <1>0 DEF GoTo, CallRecords
  <2> HIDE DEF c
  <2>3. call'[p] = Ended(p, "failed", None) \/ call'[p] = c
    BY <1>0, <2>1, StepOf
  <2> QED
    BY <1>6, <1>b, <2>2, <2>3
<1> QED
  BY <1>1, <1>2, <1>3, <1>4, <1>5, <1>6 DEF Reads

LEMMA FitsKept ==
  ASSUME BuilderInv, BuilderInv', AloneInv, NEW p \in Processes, FitsInv(p), [Next]_vars
  PROVE  FitsInv(p)'
<1> USE DEF Undisturbed
<1>0. CacheTypes /\ CacheTypes' /\ call[p] \in CallRecords /\ task \in [Processes -> TaskRecords] /\ CallInv(p)
  BY DEF BuilderInv, CacheInv, CacheTypes, TranspileInv, TranspileTypes
<1>a. {"off", "ready"} \cap (Reading \cup Generating \cup Building) = {}
  BY DEF Reading, Parsing, Generating, Building
<1>b. UnderWay(p) => p \notin Idle
  BY <1>a DEF Idle, UnderWay
<1>1. CASE (\E v \in Versions : EditSource(v)) \/ EditLibrary
  <2>1. Stays(p) /\ (p \notin Idle => call'[p].disturbed)
    BY <1>1, EditsMove
  <2> QED
    BY <1>b, <2>1 DEF Stays, UnderWay, FitsInv
<1>2. CASE UNCHANGED vars \/ \E t \in Tools : Upgrade(t)
  <2>1. UNCHANGED <<call, source, parsed, systemVerilog, task>>
    BY <1>2 DEF vars, cacheVars, frontVars, vhdlVars, Upgrade
  <2> QED
    BY <2>1, FitsStays DEF UnderWay, HasKey, At
<1>3. ASSUME NEW q \in Processes, StartProcess(q) PROVE FitsInv(p)'
  <2>1. CASE q = p
    BY <1>3, <1>a, <2>1, StartMoves DEF FitsInv, UnderWay
  <2>2. CASE q # p
    <3>1. UNCHANGED <<source, parsed, systemVerilog, task>> /\ call'[p] = call[p]
      BY <1>3, <2>2, StartMoves DEF frontVars, vhdlVars
    <3> QED
      BY <3>1, FitsStays DEF UnderWay, HasKey, At
  <2> QED
    BY <2>1, <2>2
<1>4. ASSUME NEW q \in Processes, EndProcess(q) PROVE FitsInv(p)'
  <2>1. CASE q = p
    BY <1>4, <1>a, <2>1, EndMoves DEF FitsInv, UnderWay
  <2>2. CASE q # p
    <3>1. Stays(p) /\ (p \notin Idle => call'[p].disturbed)
      BY <1>4, <2>2, EndMoves
    <3> QED
      BY <1>b, <3>1 DEF Stays, UnderWay, FitsInv
  <2> QED
    BY <2>1, <2>2
<1>5. ASSUME NEW q \in Processes, NEW k \in Builds[q], Call(q, k) PROVE FitsInv(p)'
  <2>1. CASE q = p
    BY <1>5, <2>1, CallMoves DEF FitsInv, At, HasKey, Generating, Building
  <2>2. CASE q # p
    <3>1. Stays(p) /\ (p \notin Idle => call'[p].disturbed)
      BY <1>5, <2>2, CallMoves
    <3> QED
      BY <1>b, <3>1 DEF Stays, UnderWay, FitsInv
  <2> QED
    BY <2>1, <2>2
<1>6. ASSUME NEW q \in Processes \ {p}, Reads(q) \/ BackEndStep(q) PROVE FitsInv(p)'
  <2>1. Stays(p) /\ UnderWay(q)
    BY <1>0, <1>6, ReadsMove, BackEndMoves, BesideStays, KeyIsUnderWay DEF UnderWay
  <2>2. ~Undisturbed(p)
    BY <1>a, <2>1 DEF AloneInv, Idle, UnderWay
  <2> QED
    BY <1>b, <2>1, <2>2 DEF Stays, FitsInv, UnderWay
<1>7. CASE BackEndStep(p)
  <2>1. /\ UNCHANGED <<source, parsed, systemVerilog>> /\ HasKey(p) /\ UnderWay(p)
        /\ call'[p].disturbed = call[p].disturbed /\ call'[p].kind = call[p].kind /\ call'[p].key = call[p].key
    BY <1>7, BackEndMoves, KeyIsUnderWay
  <2>2. call'[p].at \in Generating \cup Building \cup {"ready"}
    BY <1>7, BackEndMoves DEF Compares, Opens, Fills, Stops, Generating, Building
  <2>3. UnderWay(p)' => task' = task
    BY <1>7, <1>a DEF BackEndStep, KeepTask, Finishes, UnderWay
  <2>4. ~At(p, "digest")' /\ ~At(p, "key")'
    BY <2>2 DEF At, Generating, Building
  <2> QED
    BY <2>1, <2>3, <2>4, FitsStays
<1>8. CASE Reads(p)
  <2>0. /\ UnderWay(p) /\ UNCHANGED source /\ ~HasKey(p)
        /\ call'[p].disturbed = call[p].disturbed /\ call'[p].kind = call[p].kind
    BY <1>8, ReadsMove DEF UnderWay, HasKey, Reading, Parsing, Generating, Building
  <2>1. CASE call'[p].at \notin {"digest", "key", "generate"}
    <3>1. ~HasKey(p)'
      BY <1>8, <2>1, ReadsMove DEF HasKey, Reading, Parsing, Generating, Building
    <3> QED
      BY <2>1, <3>1 DEF FitsInv, At
  <2>2. CASE Parse(p)
    <3> DEFINE c1 == [GoTo(p, "key") EXCEPT !.described = parsed[p].described]
               c2 == [GoTo(p, "digest") EXCEPT !.described = source]
    <3>1. c1.at = "key" /\ c1.described = parsed[p].described /\ c2.at = "digest" /\ c2.described = source
      BY <1>0 DEF GoTo, CallRecords
    <3>2. Quietly(p, IF IsCurrent(p) THEN c1 ELSE c2) /\ parsed' = parsed /\ At(p, "parse")
      BY <2>2 DEF Parse, frontVars
    <3> HIDE DEF c1, c2
    <3>3. call'[p] = IF IsCurrent(p) THEN c1 ELSE c2
      BY <1>0, <3>2, StepOf
    <3>4. call[p].kind = "cpp"
      BY <1>0, <3>2 DEF CallInv, KeyInv, At, Parsing
    <3>5. ~HasKey(p)'
      BY <3>1, <3>3 DEF HasKey, Generating, Building
    <3>6. CASE IsCurrent(p)
      <4>1. parsed[p].digest = source /\ parsed[p] # None /\ call'[p].at = "key"
            /\ call'[p].described = parsed[p].described /\ Contents(p)' = source
        BY <2>0, <3>1, <3>3, <3>4, <3>6 DEF IsCurrent, Contents
      <4>2. Fits(p, call[p].described)'
        BY <2>0, <3>2, <3>4, <4>1 DEF Fits, ParsedAside
      <4> QED
        BY <3>5, <4>1, <4>2 DEF FitsInv, At
    <3>7. CASE ~IsCurrent(p)
      BY <2>0, <3>1, <3>3, <3>5, <3>7 DEF FitsInv, At
    <3> QED
      BY <3>6, <3>7
  <2>3. CASE DigestHeader(p)
    <3>1. call'[p].at = "key" /\ call'[p].described = call[p].described /\ At(p, "digest")
      <4>1. GoTo(p, "key").at = "key" /\ GoTo(p, "key").described = call[p].described
        BY <1>0 DEF GoTo, CallRecords
      <4>2. Quietly(p, GoTo(p, "key")) /\ At(p, "digest")
        BY <2>3 DEF DigestHeader
      <4> QED
        BY <1>0, <4>1, <4>2, StepOf
    <3>2. call[p].kind # "vhdl"
      BY <1>0, <3>1 DEF CallInv, KeyInv, At, Parsing
    <3>3. ~HasKey(p)'
      BY <3>1 DEF HasKey, Generating, Building
    <3>4. Contents(p)' = source
      BY <2>0, <3>2 DEF Contents
    <3>5. Undisturbed(p)' => Fits(p, call[p].described)'
      BY <2>0, <3>1, <3>4 DEF FitsInv, Fits
    <3> QED
      BY <3>1, <3>3, <3>5 DEF FitsInv, At
  <2>4. CASE Describe(p) /\ call'[p].at = "key"
    <3>1. call'[p].described = Contents(p)
      <4> DEFINE c == [GoTo(p, "key") EXCEPT !.described = Contents(p)]
      <4>1. c.described = Contents(p) /\ Ended(p, "failed", None).at = "ready"
        BY <1>0, EndedFields DEF GoTo, CallRecords
      <4>2. Quietly(p, Ended(p, "failed", None)) \/ Quietly(p, c)
        BY <2>4 DEF Describe
      <4> HIDE DEF c
      <4>3. call'[p] = Ended(p, "failed", None) \/ call'[p] = c
        BY <1>0, <4>2, StepOf
      <4> QED
        BY <2>4, <4>1, <4>3
    <3>2. UNCHANGED <<parsed, systemVerilog, task>>
      BY <2>4 DEF Describe, KeepTask, Finishes, frontVars
    <3>3. Fits(p, call[p].described)' /\ ~HasKey(p)'
      BY <2>0, <2>4, <3>1, <3>2 DEF Fits, Contents, Vhdl!Digest, HasKey, Generating, Building
    <3> QED
      BY <2>4, <3>3 DEF FitsInv, At
  <2>5. CASE MakeKey(p) /\ call'[p].at = "generate"
    <3>1. call'[p].key.described = call[p].described /\ At(p, "key")
      <4> DEFINE key == [kind |-> call[p].kind, described |-> call[p].described, contents |-> Contents(p)]
                 c == [GoTo(p, "generate") EXCEPT !.key = key]
      <4>1. c.key = key /\ key.described = call[p].described /\ Ended(p, "failed", None).at = "ready"
        BY <1>0, EndedFields DEF GoTo, CallRecords
      <4>2. At(p, "key") /\ (Quietly(p, Ended(p, "failed", None)) \/ Quietly(p, c))
        BY <2>5 DEF MakeKey
      <4> HIDE DEF c, key
      <4>3. call'[p] = Ended(p, "failed", None) \/ call'[p] = c
        BY <1>0, <4>2, StepOf
      <4> QED
        BY <2>5, <4>1, <4>2, <4>3
    <3>2. UNCHANGED <<parsed, systemVerilog, task>>
      BY <2>5 DEF MakeKey, KeepTask, Finishes, frontVars
    <3>3. Undisturbed(p)' => Fits(p, call[p].described)
      BY <2>0, <3>1 DEF FitsInv
    <3>4. Contents(p)' = Contents(p)
      BY <2>0, <3>2 DEF Contents, Vhdl!Digest
    <3>5. Undisturbed(p)' => Fits(p, call[p].key.described)'
      BY <2>0, <3>1, <3>2, <3>3, <3>4 DEF Fits, ParsedAside
    <3> QED
      BY <2>5, <3>5 DEF FitsInv, At
  <2>6. \/ call'[p].at \notin {"digest", "key", "generate"}
        \/ Parse(p) \/ DigestHeader(p) \/ (Describe(p) /\ call'[p].at = "key")
        \/ (MakeKey(p) /\ call'[p].at = "generate")
    BY <1>8, ReadsGo
  <2> QED
    BY <2>1, <2>2, <2>3, <2>4, <2>5, <2>6
<1> QED
  BY <1>1, <1>2, <1>3, <1>4, <1>5, <1>6, <1>7, <1>8 DEF Next, Reads

-----------------------------------------------------------------------------
(* A call that fails without being disturbed is excused. *)

(* The excuses last as long as the call is the last one of the process. *)
LEMMA ExcuseLasts ==
  ASSUME CacheTypes, NEW p \in Processes, Excused(p), call'[p].key = call[p].key, call'[p].kind = call[p].kind,
         parsed'[p] = parsed[p], crowded \subseteq crowded', \A k \in Keys : directory[k].shared => directory'[k].shared,
         Unwritten(p) => Unwritten(p)'
  PROVE  Excused(p)'
<1>1. call[p].key # None => call[p].key \in Keys
  BY DEF CacheTypes, CallRecords
<1> QED
  BY <1>1 DEF Excused, ParsedAside, Crowded, Dir

LEMMA StaysUnwritten ==
  ASSUME NEW p \in Processes, Unwritten(p), arguments'[toolchain'[p]] = arguments[toolchain[p]],
         call'[p].kind = call[p].kind,
         \A q \in Processes : call'[q].at \in {"ask", "answer"} => call'[q].at = call[q].at
  PROVE  Unwritten(p)'
BY DEF Unwritten

LEMMA CrowdedGrows ==
  ASSUME [Next]_vars
  PROVE  crowded \subseteq crowded'
<1>1. CASE \E p \in Processes : TranspileStep(p)
  BY <1>1 DEF TranspileStep, Vhdl!Transpiles, Vhdl!TakeDigest, Vhdl!LookUp, Vhdl!Analyze, Vhdl!Synthesize,
     Vhdl!OpenTemporary, Vhdl!WriteTemporary, Vhdl!Replace
<1>2. CASE ~\E p \in Processes : TranspileStep(p)
  <2>1. UNCHANGED crowded
    BY <1>2 DEF Next, vars, frontVars, vhdlVars, KeepTask, KeepRest, KeepCache,
       EditSource, EditLibrary, Upgrade, StartProcess, EndProcess, Call, ReadArguments, WriteArguments, Parse,
       DigestHeader, TranspileFails, Describe, MakeKey, BackEndStep
  <2> QED
    BY <2>1
<1> QED
  BY <1>1, <1>2

LEMMA SharedStays ==
  ASSUME BuilderInv, NEW p \in Processes, BackEndStep(p), NEW k \in Keys, directory[k].shared
  PROVE  directory'[k].shared
BY BackEndMoves DEF Compares, Opens, Fills, Written, FilesKept, Dir

(* The step of a call that makes it fail. *)
LEMMA FailsExcused ==
  ASSUME BuilderInv, AloneInv, RenamingInv, \A k \in Keys : RepairInv(k), NEW p \in Processes, FitsInv(p),
         Reads(p) \/ BackEndStep(p), Failed(p)', ~call'[p].disturbed
  PROVE  Excused(p)'
<1>0. CacheTypes /\ call[p] \in CallRecords /\ CallInv(p) /\ TranspileInv /\ source \in Versions
  BY DEF BuilderInv, CacheInv, CacheTypes, TranspileInv, TranspileTypes
<1>1. UnderWay(p) /\ ~call[p].disturbed /\ toolchain' = toolchain /\ \A q \in Processes \ {p} : Stays(q)
  BY <1>0, ReadsMove, BackEndMoves, BesideStays, KeyIsUnderWay DEF UnderWay
<1>2. \A q \in Processes \ {p} : call'[q].at \in {"off", "ready"}
  BY <1>1 DEF AloneInv, Undisturbed, Idle, Stays
<1>3. call'[p].at = "ready" /\ call'[p].outcome = "failed"
  BY DEF Failed, At
<1>a. \A x : GoTo(p, x).at = x /\ \A y : /\ [GoTo(p, x) EXCEPT !.described = y].at = x
                                         /\ [GoTo(p, x) EXCEPT !.key = y].at = x
  BY <1>0 DEF GoTo, CallRecords
<1>b. ASSUME NEW x, x # "ready",
             \/ Quietly(p, GoTo(p, x)) \/ Visibly(p, GoTo(p, x))
             \/ \E y : Quietly(p, [GoTo(p, x) EXCEPT !.described = y]) \/ Quietly(p, [GoTo(p, x) EXCEPT !.key = y])
      PROVE  FALSE
  <2>1. CASE Quietly(p, GoTo(p, x)) \/ Visibly(p, GoTo(p, x))
    BY <1>0, <1>3, <1>a, <1>b, <2>1, StepOf
  <2>2. ASSUME NEW y, Quietly(p, [GoTo(p, x) EXCEPT !.described = y]) PROVE FALSE
    <3>1. call'[p] = [GoTo(p, x) EXCEPT !.described = y]
      BY <1>0, <2>2, StepOf
    <3> QED
      BY <1>3, <1>a, <1>b, <3>1
  <2>3. ASSUME NEW y, Quietly(p, [GoTo(p, x) EXCEPT !.key = y]) PROVE FALSE
    <3>1. call'[p] = [GoTo(p, x) EXCEPT !.key = y]
      BY <1>0, <2>3, StepOf
    <3> QED
      BY <1>3, <1>a, <1>b, <3>1
  <2> QED
    BY <1>b, <2>1, <2>2, <2>3
<1>e. call'[p].kind = call[p].kind
  BY ReadsMove, BackEndMoves
<1>4. CASE ReadArguments(p)
  <2>0. call'[p].kind = "cpp"
    BY <1>0, <1>4, <1>e DEF CallInv, KeyInv, ReadArguments, At, Parsing
  <2>1. \/ Quietly(p, GoTo(p, "ask")) \/ Quietly(p, GoTo(p, "parse"))
        \/ arguments[toolchain[p]] = "empty"
    BY <1>4, ArgumentsAreRead
  <2>2. arguments[toolchain[p]] = "empty" /\ arguments' = arguments
    BY <1>0, <1>3, <1>4, <1>a, <2>1, StepOf, ArgumentsAreRead
  <2>3. Unwritten(p)'
    BY <1>1, <1>2, <1>3, <2>0, <2>2 DEF Unwritten
  <2> QED
    BY <2>3 DEF Excused
<1>5. CASE WriteArguments(p) \/ Parse(p) \/ DigestHeader(p)
  <2>1. WriteArguments(p) => Visibly(p, GoTo(p, "answer")) \/ Visibly(p, GoTo(p, "parse"))
    BY DEF WriteArguments
  <2>2. Parse(p) => \/ Quietly(p, [GoTo(p, "key") EXCEPT !.described = parsed[p].described])
                    \/ Quietly(p, [GoTo(p, "digest") EXCEPT !.described = source])
    BY DEF Parse
  <2>3. DigestHeader(p) => Quietly(p, GoTo(p, "key"))
    BY DEF DigestHeader
  <2> QED
    BY <1>5, <1>b, <2>1, <2>2, <2>3
<1>6. CASE TranspileStep(p)
  BY <1>0, <1>3, <1>6, <1>a, StepOf DEF TranspileStep, At
<1>7. CASE TranspileFails(p)
  <2>1. task[p].at = "replace" /\ temporary[task[p].digest] = None /\ crowded' = crowded
    BY <1>7 DEF TranspileFails, Vhdl!IsReplaced, Vhdl!Digest
  <2>2. task[p].digest \in crowded
    BY <2>1 DEF RenamingInv, Writing
  <2>3. call'[p].kind = "vhdl"
    BY <1>0, <1>7, <1>e DEF CallInv, KeyInv, TranspileFails, At
  <2> QED
    BY <2>1, <2>2, <2>3 DEF Excused, Crowded
<1>8. CASE Describe(p) \/ MakeKey(p)
  <2>1. Contents(p) = "empty"
    <3>1. CASE Describe(p) /\ Contents(p) # "empty"
      <4>1. Quietly(p, [GoTo(p, "key") EXCEPT !.described = Contents(p)])
        BY <3>1 DEF Describe
      <4> QED
        BY <1>b, <4>1
    <3>2. CASE MakeKey(p) /\ Contents(p) # "empty"
      <4> DEFINE key == [kind |-> call[p].kind, described |-> call[p].described, contents |-> Contents(p)]
      <4>1. Quietly(p, [GoTo(p, "generate") EXCEPT !.key = key])
        BY <3>2 DEF MakeKey
      <4> HIDE DEF key
      <4> QED
        BY <1>b, <4>1
    <3> QED
      BY <1>8, <3>1, <3>2
  <2>2. call[p].kind = "vhdl" /\ task[p].at = "found"
    BY <1>0, <1>8, <2>1, BuilderAssumption DEF Contents, CallInv, KeyInv, Describe, MakeKey
  <2>3. task[p].digest \in Versions /\ systemVerilog[task[p].digest] = "empty"
    BY <1>0, <2>1, <2>2 DEF Contents, Vhdl!Digest, TranspileInv, TaskInv
  <2>4. task[p].digest \in crowded /\ crowded' = crowded
    BY <1>0, <1>8, <2>3 DEF TranspileInv, CompleteIfPresent, Describe, MakeKey, KeepTask
  <2> QED
    BY <1>e, <2>2, <2>4 DEF Excused, Crowded
<1>9. CASE BackEndStep(p)
  <2>1. /\ HasKey(p) /\ call[p].key \in Keys /\ call'[p].key = call[p].key /\ call[p].key # None
        /\ parsed' = parsed
    BY <1>9, BackEndMoves DEF BackEndStep
  <2>2. Fails(p, Contents(p)) /\ call[p].at \in Building /\ directory' = directory
    <3>1. Fails(p, Contents(p))
      BY <1>3, <1>9, BackEndMoves DEF Compares, Opens, Fills, Stops, Building
    <3> QED
      BY <3>1 DEF Fails, KeepFiles, At, Building
  <2>3. CASE Contents(p) # call[p].key.described
    <3>1. Fits(p, call[p].key.described)
      BY <1>1, <2>1 DEF FitsInv, Undisturbed
    <3> QED
      BY <1>e, <2>1, <2>3, <3>1 DEF Fits, ParsedAside, Excused
  <2>4. CASE Contents(p) = call[p].key.described
    <3>1. \E n \in 1..FileCount : ~IsWritten(Dir(p).files[n])
      BY <2>2, <2>4, BuildCacheAssumption DEF Fails, IsConfigurable, IsComplete
    <3>2. PICK n \in 1..FileCount : ~IsWritten(Dir(p).files[n])
      BY <3>1
    <3>3. Dir(p).files[n] = "empty"
      BY <1>0, <2>1, <2>2, <3>2, StepFacts DEF CallInv, WrittenInv, IsRendered
    <3>4. Dir(p).shared
      BY <2>1, <2>2, <3>3 DEF RepairInv, Dir
    <3>5. call'[p].key # None /\ directory'[call'[p].key].shared
      BY <2>1, <2>2, <3>4 DEF Dir
    <3> QED
      BY <3>5 DEF Excused, Dir
  <2> QED
    BY <2>3, <2>4
<1> QED
  BY <1>4, <1>5, <1>6, <1>7, <1>8, <1>9 DEF Reads

LEMMA FailedKept ==
  ASSUME BuilderInv, AloneInv, RenamingInv, \A k \in Keys : RepairInv(k), NEW p \in Processes, FitsInv(p),
         FailedInv(p), [Next]_vars
  PROVE  FailedInv(p)'
<1> SUFFICES ASSUME Failed(p)', ~call'[p].disturbed PROVE Excused(p)'
  BY DEF FailedInv
<1>0. CacheTypes /\ crowded \subseteq crowded'
  BY CrowdedGrows DEF BuilderInv, CacheInv
<1>a. Failed(p) /\ call'[p] = call[p] => /\ Excused(p) /\ call'[p].key = call[p].key /\ call'[p].kind = call[p].kind
  BY DEF FailedInv
<1>b. At(p, "ready") => toolchain[p] = tools
  BY DEF BuilderInv, CacheInv, CallInv, ToolsInv, At
<1>c. Failed(p) => At(p, "ready") /\ p \in Idle
  BY DEF Failed, At, Idle
<1>d. Stays(p) => Failed(p) /\ call'[p] = call[p]
  BY DEF Stays, Failed, At
<1>1. CASE (\E v \in Versions : EditSource(v)) \/ EditLibrary
  <2>1. /\ UNCHANGED <<directory, toolchain, arguments, parsed>> /\ \A q \in Processes : Stays(q)
    BY <1>1, EditsMove
  <2>2. Unwritten(p) => Unwritten(p)'
    BY <2>1, StaysUnwritten DEF Stays
  <2> QED
    BY <1>0, <1>a, <1>d, <2>1, <2>2, ExcuseLasts
<1>2. CASE UNCHANGED vars \/ \E t \in Tools : Upgrade(t)
  <2>1. UNCHANGED <<call, directory, toolchain, arguments, parsed>>
    BY <1>2 DEF vars, cacheVars, frontVars, Upgrade
  <2>2. Unwritten(p) => Unwritten(p)'
    BY <2>1, StaysUnwritten
  <2>3. Failed(p)
    BY <2>1 DEF Failed, At
  <2> QED
    BY <1>0, <1>a, <2>1, <2>2, <2>3, ExcuseLasts
<1>3. ASSUME NEW q \in Processes, StartProcess(q) PROVE Excused(p)'
  <2>1. q # p
    BY <1>3, StartMoves, BuildCacheAssumption DEF Failed
  <2>2. /\ UNCHANGED <<directory, arguments, parsed>> /\ call'[p] = call[p] /\ toolchain'[p] = toolchain[p]
        /\ call'[q].at = "ready" /\ \A r \in Processes \ {q} : call'[r] = call[r]
    BY <1>3, <2>1, StartMoves DEF frontVars
  <2>3. Unwritten(p) => Unwritten(p)'
    BY <2>2, StaysUnwritten
  <2>4. Failed(p)
    BY <2>2 DEF Failed, At
  <2> QED
    BY <1>0, <1>a, <2>2, <2>3, <2>4, ExcuseLasts
<1>4. ASSUME NEW q \in Processes, EndProcess(q) PROVE Excused(p)'
  <2>1. q # p
    BY <1>4, EndMoves DEF Failed, At
  <2>2. /\ UNCHANGED <<directory, arguments>> /\ parsed'[p] = parsed[p] /\ toolchain'[p] = toolchain[p]
        /\ call'[q].at = "off" /\ \A r \in Processes \ {q} : Stays(r)
    BY <1>4, <2>1, EndMoves
  <2>3. Unwritten(p) => Unwritten(p)'
    BY <2>1, <2>2, StaysUnwritten DEF Stays
  <2> QED
    BY <1>0, <1>a, <1>d, <2>1, <2>2, <2>3, ExcuseLasts
<1>5. ASSUME NEW q \in Processes, NEW k \in Builds[q], Call(q, k) PROVE Excused(p)'
  <2>1. q # p
    BY <1>5, CallMoves DEF Failed, At
  <2>2. /\ UNCHANGED <<directory, arguments, parsed, toolchain>>
        /\ call'[q].at \notin {"ask", "answer"} /\ \A r \in Processes \ {q} : Stays(r)
    BY <1>5, <2>1, CallMoves DEF frontVars
  <2>3. Unwritten(p) => Unwritten(p)'
    BY <2>1, <2>2, StaysUnwritten DEF Stays
  <2> QED
    BY <1>0, <1>a, <1>d, <2>1, <2>2, <2>3, ExcuseLasts
<1>6. ASSUME NEW q \in Processes \ {p}, Reads(q) PROVE Excused(p)'
  <2>1. /\ UNCHANGED <<directory, toolchain>> /\ \A r \in Processes \ {q} : Stays(r)
        /\ UnderWay(q)
    BY <1>0, <1>6, ReadsMove, BesideStays DEF UnderWay
  <2>2. parsed'[p] = parsed[p]
    BY <1>0, <1>6 DEF CacheTypes, Reads, ReadArguments, WriteArguments, Parse, DigestHeader, TranspileStep,
       TranspileFails, Describe, MakeKey, KeepTask, frontVars
  <2>3. ASSUME Unwritten(p) PROVE Unwritten(p)'
    <3>1. toolchain[q] = toolchain[p]
      BY <1>b, <1>c, <1>d, <2>1 DEF BuilderInv, CacheInv, CallInv, ToolsInv, At, UnderWay, Reading, Parsing,
         Generating, Building
    <3>2. ~WriteArguments(q)
      BY <2>3 DEF Unwritten, WriteArguments, At
    <3>3. arguments' = arguments
      BY <1>6, <3>2, ArgumentsAreRead DEF Reads, Parse, DigestHeader, TranspileStep, TranspileFails, Describe,
         MakeKey, KeepTask, frontVars
    <3>4. call'[q].at \notin {"ask", "answer"}
      <4>1. CASE ReadArguments(q)
        <5>1. Quietly(q, GoTo(q, "parse")) \/ Quietly(q, Ended(q, "failed", None))
          BY <2>3, <3>1, <4>1, ArgumentsAreRead, BuildCacheAssumption DEF Unwritten
        <5>2. GoTo(q, "parse").at = "parse" /\ Ended(q, "failed", None).at = "ready"
          BY <1>0, EndedFields, GoToFields DEF Points, Reading, Parsing
        <5> QED
          BY <1>0, <5>1, <5>2, StepOf
      <4> QED
        BY <1>6, <3>2, <4>1, ReadsMove
    <3> QED
      BY <2>1, <2>3, <3>3, <3>4, StaysUnwritten DEF Stays
  <2> QED
    BY <1>0, <1>a, <1>d, <2>1, <2>2, <2>3, ExcuseLasts
<1>7. ASSUME NEW q \in Processes \ {p}, BackEndStep(q) PROVE Excused(p)'
  <2>1. /\ UNCHANGED <<toolchain, arguments, parsed>> /\ \A r \in Processes \ {q} : Stays(r)
        /\ call'[q].at \notin {"ask", "answer"}
    BY <1>0, <1>7, BackEndMoves, BesideStays DEF Compares, Opens, Fills, Stops, Building
  <2>2. \A k \in Keys : directory[k].shared => directory'[k].shared
    BY <1>7, SharedStays
  <2>3. Unwritten(p) => Unwritten(p)'
    BY <2>1, StaysUnwritten DEF Stays
  <2> QED
    BY <1>0, <1>a, <1>d, <2>1, <2>2, <2>3, ExcuseLasts
<1>8. CASE Reads(p) \/ BackEndStep(p)
  BY <1>8, FailsExcused
<1> QED
  BY <1>1, <1>2, <1>3, <1>4, <1>5, <1>6, <1>7, <1>8 DEF Next, Reads

LEMMA RecoverInitially == Init => RecoverInv
<1> SUFFICES ASSUME Init PROVE RecoverInv
  OBVIOUS
<1>1. /\ \A p \in Processes : call[p] = Off /\ task[p].at = "idle"
      /\ \A k \in Keys, n \in 1..HashFile : directory[k].files[n] = None
  BY DEF Init, CacheInit, NewDirectory, Vhdl!TranspileInit, Vhdl!NewTask
<1>2. 1..FileCount \subseteq 1..HashFile /\ None # "empty"
  BY BuildCacheAssumption DEF HashFile
<1>3. AloneInv /\ RenamingInv
  BY <1>1, NewCallFields DEF AloneInv, Undisturbed, UnderWay, Reading, Parsing, Generating, Building, RenamingInv,
     Writing
<1>4. \A k \in Keys : RepairInv(k)
  BY <1>1, <1>2, NewCallFields DEF RepairInv, Writes, Building
<1>5. \A p \in Processes : FitsInv(p) /\ FailedInv(p)
  BY <1>1, NewCallFields DEF FitsInv, FailedInv, Failed, At, Undisturbed, UnderWay, Reading, Parsing, Generating,
     Building
<1> QED
  BY <1>3, <1>4, <1>5 DEF RecoverInv

(* Wherever processes were killed, a call that nothing disturbs fails only for files of its own key    *)
(* that two processes have written at once; a call for a C++ model also for arguments that were left    *)
(* unwritten or a header that changed while it was parsed, and a call for a VHDL model also for        *)
(* SystemVerilog that two processes have written at once (generate_files(), transpile(),               *)
(* dependency_compile_args(), CppHeader.load()).                                                       *)
THEOREM RecoversFromCrashesCorrect == Spec => []RecoversFromCrashes
<1>1. Init => BuilderInv /\ RecoverInv
  BY TranspileInit, CacheInitially, RecoverInitially DEF BuilderInv
<1>2. BuilderInv /\ RecoverInv /\ [Next]_vars => (BuilderInv /\ RecoverInv)'
  <2> SUFFICES ASSUME BuilderInv, RecoverInv, [Next]_vars PROVE BuilderInv' /\ RecoverInv'
    OBVIOUS
  <2>1. BuilderInv'
    BY StepKeepsCacheInv, StepKeepsTranspileInv DEF BuilderInv
  <2>2. AloneInv' /\ RenamingInv'
    BY AloneKept, RenamingKept DEF RecoverInv, BuilderInv
  <2>3. \A k \in Keys : RepairInv(k)'
    BY RepairKept DEF RecoverInv
  <2>4. \A p \in Processes : FitsInv(p)' /\ FailedInv(p)'
    BY <2>1, FitsKept, FailedKept DEF RecoverInv
  <2> QED
    BY <2>1, <2>2, <2>3, <2>4 DEF RecoverInv
<1>3. RecoverInv => RecoversFromCrashes
  BY DEF RecoverInv, FailedInv, Excused, ParsedAside, Unwritten, Crowded, RecoversFromCrashes
<1> QED
  BY <1>1, <1>2, <1>3, PTL DEF Spec
=============================================================================
