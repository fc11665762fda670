-------------------------------- MODULE File --------------------------------
(***************************************************************************)
(* fs::File (fs/file.hpp), the functions it runs on the blocking pool      *)
(* (fs/detail.hpp) and the operations on paths (fs/ops.hpp).               *)
(*                                                                         *)
(* The calls are those of Bridge: Opener is the File::open() that gives    *)
(* the one File of the model; a call in paths names the file by its path   *)
(* and owns the descriptor it opens, the others are operations of the File *)
(* and share its State: a mutex and a descriptor.  A call that is neither  *)
(* reader nor writer is one system call (metadata, exists, remove_file).   *)
(*                                                                         *)
(* The file has Size cells, each holding the call that wrote it last; a    *)
(* transfer of n cells is n transfers of one.  A call that fails with      *)
(* EINTR changes nothing and is made again.                                *)
(***************************************************************************)
EXTENDS Bridge

CONSTANTS
  Opener,    \* the call of File::open()
  Writers,   \* calls of write_at(), write_string_at(), fs::write(), fs::append() ...
  Readers,   \* calls of read_at(), fs::read(), fs::read_to_string()
  Size       \* the cells a reader or writer asks for

ASSUME FileAssumption ==
  /\ Opener \in Calls \ (Writers \cup Readers)
  /\ Writers \cup Readers \subseteq Calls
  /\ Writers \cap Readers = {}
  /\ Size \in Nat \ {0}

VARIABLES
  fd,        \* state_->fd: "none" before open(), "open", "closed"
  object,    \* does the coroutine that opened it hold the File?
  paths,     \* the calls that name the file by its path
  closing,   \* is the loop's thread in File::close()?
  at,        \* each worker inside a function: "begin", "io", or "append"
  done,      \* the cells it has transferred
  content,   \* the cells of the file; NoCall beyond its end
  data,      \* what a reader has read
  torn       \* history: has a write failed half-way, or a path been written?

fileVars == <<fd, object, paths, closing, at, done, content, data, torn>>
ioVars == <<at, done, content, data, torn>>
vars == <<bridgeVars, fileVars>>

Cells == 1..Size

Init ==
  /\ BridgeInit
  /\ fd = "none"
  /\ object = FALSE
  /\ paths = {}
  /\ closing = FALSE
  /\ at = [w \in Workers |-> "begin"]
  /\ done = [w \in Workers |-> 0]
  /\ content = [i \in Cells |-> NoCall]
  /\ data = [c \in Calls |-> <<>>]
  /\ torn = FALSE

\* The operations of the File, whose functions hold a copy of state_.
Ops == Calls \ (paths \cup {Opener})

\* The shared_ptrs to State: the File, the result of open(), the functions in the pool.
Held ==
  \/ object
  \/ outcome[Opener] = "Ok" /\ got[Opener] = "none" /\ refs[Opener] # {}
  \/ \E c \in Ops : "closure" \in refs[c]

\* Mutant: State has no destructor.
NoDestructor == fd

\* ~State() closes the descriptor.
Destructor == "closed"

\* What becomes of the descriptor when a step lets go of a shared_ptr.
LetGo == fd' = IF fd = "open" /\ ~Held' THEN Destructor ELSE fd
-----------------------------------------------------------------------------
(***************************************************************************)
(* spawn_blocking_result() on the loop's thread: open(), an operation of   *)
(* the File, or one on the path.                                           *)
(***************************************************************************)
CallFile(c) ==
  /\ ~closing
  /\ Suspend(c)
  /\ paths' \in {paths, paths \cup ({c} \ {Opener})}
  /\ c \in paths' \cup {Opener} \/ object
  /\ UNCHANGED <<fd, object, closing, ioVars>>

RefuseFile(c) == ~closing /\ Refuse(c) /\ UNCHANGED fileVars

WakeFile(c) == ~closing /\ Wake(c) /\ UNCHANGED fileVars

\* The result of open() is moved into the coroutine that awaits it.
ResumeFile(c) ==
  /\ ~closing
  /\ Resume(c)
  /\ object' = (object \/ (c = Opener /\ result[c] = "Ok"))
  /\ UNCHANGED <<fd, paths, closing, ioVars>>

\* The coroutine that holds the File ends, or moves another File into it.
DropFile ==
  /\ object /\ ~closing
  /\ object' = FALSE
  /\ UNCHANGED <<bridgeVars, paths, closing, ioVars>>
  /\ LetGo

TearDownFile ==
  /\ ~closing
  /\ TearDown
  /\ object' = FALSE
  /\ UNCHANGED <<paths, closing, ioVars>>
  /\ LetGo

\* close() waits for the mutex, and the loop with it; a second close() changes nothing.
CloseBegin ==
  /\ object /\ ~closing /\ fd = "open"
  /\ closing' = TRUE
  /\ UNCHANGED <<bridgeVars, fd, object, paths, ioVars>>

\* Mutant: no function takes the mutex.
NeverBusy == FALSE

\* Does a function hold state->mutex?
Busy == \E w \in Workers : at[w] = "io" /\ job[w] \in Ops

\* Mutant: close() does not take the mutex.
CloseAtOnce == TRUE

\* The lock_guard of State::close().
CloseLocks == ~Busy

CloseEnd ==
  /\ closing /\ CloseLocks
  /\ closing' = FALSE
  /\ fd' = "closed"
  /\ UNCHANGED <<bridgeVars, object, paths, ioVars>>
-----------------------------------------------------------------------------
\* The function ends with o: its guards unlock the mutex and close its own descriptor.
Ends(w, o) ==
  /\ RunFunction(w, o)
  /\ at' = [at EXCEPT ![w] = "begin"]
  /\ UNCHANGED <<object, paths, closing, content, data>>

\* open_flags() and open(2), then make_shared<State>.
OpenFile(w, o) ==
  /\ wpc[w] = "run" /\ job[w] = Opener
  /\ Ends(w, o)
  /\ fd' = IF o = "Ok" THEN "open" ELSE fd
  /\ UNCHANGED <<done, torn>>

\* lock_guard, and the test of state->fd; a path is opened, and truncated for writing
\* unless the function appends.
Enter(w) ==
  /\ wpc[w] = "run" /\ job[w] # Opener /\ at[w] = "begin"
  /\ job[w] \in Ops => ~Busy /\ fd = "open"
  /\ done' = [done EXCEPT ![w] = 0]
  /\ \/ /\ at' = [at EXCEPT ![w] = "io"]
        /\ content' = IF job[w] \in paths \cap Writers THEN [i \in Cells |-> NoCall] ELSE content
     \/ /\ job[w] \in paths \cap Writers
        /\ at' = [at EXCEPT ![w] = "append"]
        /\ UNCHANGED content
  /\ torn' = (torn \/ job[w] \in paths \cap Writers)
  /\ UNCHANGED <<bridgeVars, fd, object, paths, closing, data>>

\* "file is closed", or the path cannot be opened.
EnterFails(w) ==
  /\ wpc[w] = "run" /\ job[w] # Opener /\ at[w] = "begin"
  /\ job[w] \in Ops => ~Busy /\ fd # "open"
  /\ Ends(w, "Err")
  /\ UNCHANGED <<fd, done, torn>>

\* The cells of the file; one that was skipped reads as NoCall.
Length ==
  CHOOSE n \in 0..Size :
    (n = 0 \/ content[n] # NoCall) /\ \A i \in Cells : i > n => content[i] = NoCall

AtEnd(w) == done[w] >= Length

\* One cell of pread(), pwrite(), read() or write(); no reader asks beyond Size.
Transfer(w) ==
  /\ at[w] # "begin" /\ done[w] < Size
  /\ done' = [done EXCEPT ![w] = @ + 1]
  /\ LET c == job[w]
         cell == 1 + IF at[w] = "append" THEN Length ELSE done[w]
     IN \/ /\ c \in Writers
           /\ content' = [i \in Cells |-> IF i = cell THEN c ELSE content[i]]
           /\ UNCHANGED data
        \/ /\ c \in Readers /\ ~AtEnd(w)
           /\ data' = [data EXCEPT ![c] = Append(@, content[cell])]
           /\ UNCHANGED content
  /\ UNCHANGED <<bridgeVars, fd, object, paths, closing, at, torn>>

\* while (total < len), left by a reader at the end of the file.
Complete(w) == done[w] = Size \/ (job[w] \in Readers /\ AtEnd(w))

Finish(w) ==
  /\ at[w] # "begin"
  /\ job[w] \in Writers \cup Readers => Complete(w)
  /\ Ends(w, "Ok")
  /\ UNCHANGED <<fd, done, torn>>

\* A system call or the check of an offset fails, or the buffer cannot be allocated.
Fail(w) ==
  /\ at[w] # "begin"
  /\ Ends(w, "Err")
  /\ torn' = (torn \/ (job[w] \in Writers /\ done[w] > 0))
  /\ UNCHANGED <<fd, done>>

\* The function object goes, with its copy of state_.
ReleaseFile(w) ==
  /\ Release(w)
  /\ done' = [done EXCEPT ![w] = 0]
  /\ UNCHANGED <<object, paths, closing, at, content, data, torn>>
  /\ LetGo

Worker(w) ==
  \/ (WorkerRecv(w) \/ WorkerExit(w) \/ Notify(w)) /\ UNCHANGED fileVars
  \/ Enter(w) \/ EnterFails(w) \/ Transfer(w) \/ Finish(w) \/ Fail(w) \/ ReleaseFile(w)
  \/ \E o \in {"Ok", "Err"} : OpenFile(w, o)

Next ==
  \/ \E c \in Calls : CallFile(c) \/ RefuseFile(c) \/ WakeFile(c) \/ ResumeFile(c)
  \/ \E w \in Workers : Worker(w)
  \/ DropFile \/ TearDownFile \/ CloseBegin \/ CloseEnd
  \/ Shutdown /\ UNCHANGED fileVars

(***************************************************************************)
(* Functions end, and the operating system runs the workers; the loop, as  *)
(* long as it exists, polls its descriptors, resumes what is ready and     *)
(* gets the mutex; the coroutine that holds the File ends.                 *)
(***************************************************************************)
Fairness ==
  /\ \A w \in Workers : WF_vars(Worker(w))
  /\ \A c \in Calls : WF_vars(WakeFile(c)) /\ WF_vars(ResumeFile(c))
  /\ WF_vars(CloseEnd) /\ WF_vars(DropFile)

Spec == Init /\ [][Next]_vars /\ Fairness
-----------------------------------------------------------------------------
TypeOK ==
  /\ BridgeTypeOK
  /\ fd \in {"none", "open", "closed"}
  /\ paths \in SUBSET (Calls \ {Opener})
  /\ object \in BOOLEAN /\ closing \in BOOLEAN /\ torn \in BOOLEAN
  /\ at \in [Workers -> {"begin", "io", "append"}]
  /\ done \in [Workers -> 0..Size]
  /\ content \in [Cells -> Calls \cup {NoCall}]
  /\ data \in [Calls -> Seq(Calls \cup {NoCall})]

(***************************************************************************)
(* A function that is between two system calls on state->fd has an open    *)
(* descriptor and the State to itself, whoever closes or drops the File    *)
(* meanwhile: close() may never release a number that a worker still uses. *)
(***************************************************************************)
FileOpenInUse ==
  \A w \in Workers : at[w] = "io" /\ job[w] \in Ops =>
    /\ fd = "open"
    /\ \A v \in Workers : at[v] = "io" /\ job[v] \in Ops => v = w

(***************************************************************************)
(* What read_at() returns is one write_at(), whole, or the empty file:     *)
(* operations of one File do not interleave, as long as no write failed    *)
(* half-way and nobody wrote through the path.                             *)
(***************************************************************************)
ReadsWhole ==
  \A c \in Readers \cap Ops : outcome[c] = "Ok" /\ ~torn =>
    data[c] = <<>> \/ \E v \in Writers : data[c] = [i \in Cells |-> v]

(***************************************************************************)
(* Nothing leaks, whichever of the loop, the coroutine and the worker goes *)
(* first: the BlockingState and its eventfd are freed, and the descriptor  *)
(* that open() made is closed, also if the frame that waited for it is     *)
(* gone.                                                                   *)
(***************************************************************************)
NothingLeaks == <>[](fd # "open" /\ \A c \in Calls : refs[c] = {})
=============================================================================
