---------------------------- MODULE Accelerator ----------------------------
(***************************************************************************)
(* The backends of accelerator/: SimXDevice and RtlSimDevice, which differ *)
(* in how the page table reaches the processor.  A host thread starts a    *)
(* run, waits for it, asks for performance counters; the run itself is a   *)
(* thread made by std::async, and future_ is the only thing the two share. *)
(* The interface has no mutex: Host is one thread, unless clients call it  *)
(* from several.                                                           *)
(*                                                                         *)
(* A run is started with a parameter p; the processor is given its three   *)
(* parts (entry, args, table) one register at a time, so that a run can be *)
(* seen to mix the parts of two starts.                                    *)
(***************************************************************************)
EXTENDS Integers, Sequences, FiniteSets

CONSTANTS
  Host,       (* threads that call the interface                           *)
  Param,      (* arguments of start                                        *)
  NoParam,    (* a register that was never written                         *)
  SatpWaits,  (* the table is written with dcr_write (RtlSimDevice), which *)
              (* waits, and not with set_satp_by_addr (SimXDevice)         *)
  Timeouts,   (* arguments of ready_wait, in milliseconds                  *)
  Core,       (* core ids that mpm_query is asked about                    *)
  FarCore,    (* those whose counters lie behind GLOBAL_MEM_SIZE           *)
  MaxRuns     (* bound: runs started                                       *)

ASSUME DeviceAssumption ==
  /\ NoParam \notin Param
  /\ SatpWaits \in BOOLEAN
  /\ Timeouts \subseteq Nat
  /\ FarCore \subseteq Core
  /\ MaxRuns \in Nat

VARIABLES
  regs,      (* startup registers and satp of the processor                *)
  future,    (* the run that future_ belongs to; 0 when it is not valid    *)
  runs,      (* runs launched so far: what they were asked, what they read *)
  counters,  (* device memory at IO_MPM_ADDR: whose counters, final or not *)
  cache,     (* mpm_cache_                                                 *)
  peeked,    (* history: cores cached before the last run was over         *)
  destroyed, (* the destructor has returned                                *)
  pc,        (* what each thread does next                                 *)
  job,       (* p of start, or timeout of ready_wait                       *)
  old,       (* run whose future start has to release                      *)
  secs,      (* timeout_sec                                                *)
  slept,     (* history: seconds that ready_wait has waited                *)
  ret        (* what the last call answered                                *)

locals == <<job, old, secs, slept>>
device == <<runs, counters>>
vars   == <<regs, future, device, cache, peeked, destroyed, pc, locals, ret>>

Register == {"entry", "args", "table"}
Blank    == [x \in Register |-> NoParam]
Absent   == [run |-> -1, final |-> FALSE]     \* no entry in the cache
Zeros    == [run |-> 0, final |-> TRUE]       \* counters before any run

Init ==
  /\ regs = Blank /\ future = 0 /\ runs = <<>>
  /\ counters = Zeros
  /\ cache = [c \in Core |-> Absent] /\ peeked = {}
  /\ destroyed = FALSE
  /\ pc = [h \in Host |-> "idle"]
  /\ job = [h \in Host |-> 0] /\ old = [h \in Host |-> 0]
  /\ secs = [h \in Host |-> 0] /\ slept = [h \in Host |-> 0]
  /\ ret = [h \in Host |-> "none"]

----------------------------------------------------------------------------
Done(r) == r # 0 => runs[r].state = "done"

\* Mutant: a future that is valid is taken for a run that is over.
PriorDoneAlways == TRUE

\* Mutant: start waits for the future to go away, which wait() leaves valid.
PriorDoneInvalid == future = 0

\* if (future_.valid()) future_.wait() goes on
PriorDone == Done(future)

Goto(h, p) == pc' = [pc EXCEPT ![h] = p]

Answer(h, r) ==
  /\ Goto(h, "idle")
  /\ ret' = [ret EXCEPT ![h] = r]
  /\ job' = [job EXCEPT ![h] = 0] /\ old' = [old EXCEPT ![h] = 0]
  /\ secs' = [secs EXCEPT ![h] = 0]

Open(h) == pc[h] = "idle" /\ ~destroyed

----------------------------------------------------------------------------
(* start                                                                   *)

StartCall(h, p) ==
  /\ Open(h) /\ Len(runs) < MaxRuns
  /\ Goto(h, "prior")
  /\ job' = [job EXCEPT ![h] = p]
  /\ ret' = [ret EXCEPT ![h] = "none"]
  /\ slept' = [slept EXCEPT ![h] = 0]
  /\ UNCHANGED <<regs, future, device, cache, peeked, destroyed, old, secs>>

\* ensure prior run completed
WaitPrior(h) ==
  /\ pc[h] = "prior" /\ PriorDone
  /\ Goto(h, "entry")
  /\ UNCHANGED <<regs, future, device, cache, peeked, destroyed, locals, ret>>

\* dcr_write, which waits for a run on its own account.  The two halves of a
\* 64 bit value are one register.
Write(h, x, next) ==
  /\ pc[h] = x
  /\ regs' = [regs EXCEPT ![x] = job[h]]
  /\ Goto(h, next)
  /\ UNCHANGED <<future, device, cache, peeked, destroyed, locals, ret>>

WriteEntry(h) == PriorDone /\ Write(h, "entry", "args")
WriteArgs(h)  == PriorDone /\ Write(h, "args", "table")

\* Mutant: the page table of the run before is kept.
WriteTableNever(h) ==
  /\ pc[h] = "table" /\ Goto(h, "launch")
  /\ UNCHANGED <<regs, future, device, cache, peeked, destroyed, locals, ret>>

WriteTable(h) == (SatpWaits => PriorDone) /\ Write(h, "table", "launch")

\* The right side of future_ = std::async(...): the new thread exists.
Launch(h) ==
  /\ pc[h] = "launch"
  /\ runs' = Append(runs, [asked |-> job[h], read |-> Blank, state |-> "launched"])
  /\ old' = [old EXCEPT ![h] = Len(runs) + 1]
  /\ Goto(h, "assign")
  /\ UNCHANGED <<regs, future, counters, cache, peeked, destroyed, job, secs, slept, ret>>

\* The assignment: future_ has the new run, the old one is to be released.
Assign(h) ==
  /\ pc[h] = "assign"
  /\ future' = old[h]
  /\ old' = [old EXCEPT ![h] = future]
  /\ Goto(h, "clear")
  /\ UNCHANGED <<regs, device, cache, peeked, destroyed, job, secs, slept, ret>>

\* Mutant: the cache is not cleared.
ClearCacheNever(h) ==
  /\ pc[h] = "clear" /\ Done(old[h])
  /\ Answer(h, "started")
  /\ UNCHANGED <<regs, future, device, cache, peeked, destroyed, slept>>

\* Releasing the last reference to the state of an std::async blocks until
\* that run is over; then the cache is cleared.
ClearCache(h) ==
  /\ pc[h] = "clear" /\ Done(old[h])
  /\ cache' = [c \in Core |-> Absent] /\ peeked' = {}
  /\ Answer(h, "started")
  /\ UNCHANGED <<regs, future, device, destroyed, slept>>

----------------------------------------------------------------------------
(* ready_wait                                                              *)

WaitCall(h, ms) ==
  /\ Open(h)
  /\ job' = [job EXCEPT ![h] = ms]
  /\ slept' = [slept EXCEPT ![h] = 0]
  /\ IF future = 0
     THEN Goto(h, "idle") /\ ret' = [ret EXCEPT ![h] = "ready"] /\ UNCHANGED secs
     ELSE /\ Goto(h, "wait") /\ ret' = [ret EXCEPT ![h] = "none"]
          /\ secs' = [secs EXCEPT ![h] = ms \div 1000]
  /\ UNCHANGED <<regs, future, device, cache, peeked, destroyed, old>>

\* Mutant: ready_wait takes a future that is not ready for a run that is over.
WaitReadyEarly(h) ==
  /\ pc[h] = "wait"
  /\ Goto(h, "idle") /\ ret' = [ret EXCEPT ![h] = "ready"]
  /\ UNCHANGED <<regs, future, device, cache, peeked, destroyed, locals>>

\* wait_for finds the run ready, within its second.
WaitReady(h) ==
  /\ pc[h] = "wait" /\ PriorDone
  /\ Goto(h, "idle") /\ ret' = [ret EXCEPT ![h] = "ready"]
  /\ UNCHANGED <<regs, future, device, cache, peeked, destroyed, locals>>

\* Mutant: the seconds that are left are not counted down.
WaitSecondStuck(h) ==
  /\ pc[h] = "wait" /\ ~PriorDone
  /\ IF secs[h] = 0
     THEN /\ Goto(h, "idle") /\ ret' = [ret EXCEPT ![h] = "timeout"]
          /\ slept' = [slept EXCEPT ![h] = @ + 1]
     ELSE UNCHANGED <<pc, ret, slept>>
  /\ UNCHANGED <<regs, future, device, cache, peeked, destroyed, job, old, secs>>

\* Mutant: --timeout_sec instead of timeout_sec--.
WaitSecondShort(h) ==
  /\ pc[h] = "wait" /\ ~PriorDone
  /\ slept' = [slept EXCEPT ![h] = @ + 1]
  /\ IF secs[h] <= 1
     THEN Goto(h, "idle") /\ ret' = [ret EXCEPT ![h] = "timeout"] /\ UNCHANGED secs
     ELSE secs' = [secs EXCEPT ![h] = @ - 1] /\ UNCHANGED <<pc, ret>>
  /\ UNCHANGED <<regs, future, device, cache, peeked, destroyed, job, old>>

\* Mutant: the timeout is noticed when the seconds are below zero.
WaitSecondBelow(h) ==
  /\ pc[h] = "wait" /\ ~PriorDone
  /\ slept' = [slept EXCEPT ![h] = @ + 1]
  /\ IF secs[h] < 0
     THEN Goto(h, "idle") /\ ret' = [ret EXCEPT ![h] = "timeout"] /\ UNCHANGED secs
     ELSE secs' = [secs EXCEPT ![h] = @ - 1] /\ UNCHANGED <<pc, ret>>
  /\ UNCHANGED <<regs, future, device, cache, peeked, destroyed, job, old>>

\* A second passes and the run is not ready: if (0 == timeout_sec--) return -1.
WaitSecond(h) ==
  /\ pc[h] = "wait" /\ ~PriorDone
  /\ slept' = [slept EXCEPT ![h] = @ + 1]
  /\ IF secs[h] = 0
     THEN Goto(h, "idle") /\ ret' = [ret EXCEPT ![h] = "timeout"] /\ UNCHANGED secs
     ELSE secs' = [secs EXCEPT ![h] = @ - 1] /\ UNCHANGED <<pc, ret>>
  /\ UNCHANGED <<regs, future, device, cache, peeked, destroyed, job, old>>

----------------------------------------------------------------------------
(* mpm_query, of a counter that exists.  The entry of the cache is made    *)
(* before the download, and the download of a far core fails.              *)

Query(h, c) ==
  /\ Open(h)
  /\ cache' = [cache EXCEPT ![c] = IF @ # Absent THEN @
                                   ELSE IF c \in FarCore THEN Zeros ELSE counters]
  /\ peeked' = IF cache[c] = Absent /\ ~PriorDone THEN peeked \cup {c} ELSE peeked
  /\ Answer(h, IF cache[c] = Absent /\ c \in FarCore THEN "nullopt" ELSE "counters")
  /\ slept' = [slept EXCEPT ![h] = 0]
  /\ UNCHANGED <<regs, future, device, destroyed>>

\* The destructor waits for the run.
Destroy(h) ==
  /\ Open(h) /\ \A g \in Host : pc[g] = "idle"
  /\ PriorDone
  /\ destroyed' = TRUE
  /\ UNCHANGED <<regs, future, device, cache, peeked, pc, locals, ret>>

----------------------------------------------------------------------------
(* The thread of a run: processor_.run().                                  *)

RunBegins(r) ==
  /\ runs[r].state = "launched"
  /\ runs' = [runs EXCEPT ![r] = [@ EXCEPT !.read = regs, !.state = "running"]]
  /\ UNCHANGED <<regs, future, counters, cache, peeked, destroyed, pc, locals, ret>>

\* Counters that a query may see before the run is over
RunCounts(r) ==
  /\ runs[r].state = "running"
  /\ counters' = [run |-> r, final |-> FALSE]
  /\ UNCHANGED <<regs, future, runs, cache, peeked, destroyed, pc, locals, ret>>

RunEnds(r) ==
  /\ runs[r].state = "running"
  /\ runs' = [runs EXCEPT ![r].state = "done"]
  /\ counters' = [run |-> r, final |-> TRUE]
  /\ UNCHANGED <<regs, future, cache, peeked, destroyed, pc, locals, ret>>

----------------------------------------------------------------------------
NewCall(h) ==
  \/ \E p \in Param : StartCall(h, p)
  \/ \E ms \in Timeouts : WaitCall(h, ms)
  \/ \E c \in Core : Query(h, c)
  \/ Destroy(h)

Step(h) ==
  \/ WaitPrior(h) \/ WriteEntry(h) \/ WriteArgs(h) \/ WriteTable(h)
  \/ Launch(h) \/ Assign(h) \/ ClearCache(h)
  \/ WaitReady(h) \/ WaitSecond(h)

Run(r) == RunBegins(r) \/ RunCounts(r) \/ RunEnds(r)

Next ==
  \/ \E h \in Host : NewCall(h) \/ Step(h)
  \/ \E r \in DOMAIN runs : Run(r)

\* The operating system runs every thread that can run.  How long a kernel
\* takes is up to the kernel: that a run ends is not assumed.
Fairness ==
  /\ \A h \in Host : WF_vars(Step(h))
  /\ \A r \in 1 .. MaxRuns : WF_vars(r \in DOMAIN runs /\ RunBegins(r))

Spec     == Init /\ [][Next]_vars
FairSpec == Spec /\ Fairness
----------------------------------------------------------------------------
(* Properties.                                                             *)

(***************************************************************************)
(* Types of the variables.                                                 *)
(***************************************************************************)
Starting == {"prior", "entry", "args", "table", "launch", "assign", "clear"}
Values   == Param \cup {NoParam}
Counters == [run : -1 .. MaxRuns, final : BOOLEAN]
RunRecord == [asked : Param, read : [Register -> Values],
              state : {"launched", "running", "done"}]

TypeOK ==
  /\ regs \in [Register -> Values]
  /\ runs \in Seq(RunRecord) /\ Len(runs) <= MaxRuns
  /\ future \in 0 .. Len(runs)
  /\ counters \in Counters /\ cache \in [Core -> Counters] /\ peeked \subseteq Core
  /\ destroyed \in BOOLEAN
  /\ pc \in [Host -> Starting \cup {"idle", "wait"}]
  /\ job \in [Host -> Param \cup Nat] /\ old \in [Host -> 0 .. Len(runs)]
  /\ secs \in [Host -> Nat] /\ slept \in [Host -> Nat]
  /\ ret \in [Host -> {"none", "started", "ready", "timeout", "nullopt", "counters"}]

(***************************************************************************)
(* "ensure prior run completed": two runs never share the processor and    *)
(* its memory, and none is left when the device is destroyed.              *)
(***************************************************************************)
Unfinished == {r \in DOMAIN runs : ~Done(r)}

OneRun ==
  /\ \A q, r \in Unfinished : q = r
  /\ destroyed => Unfinished = {}

(***************************************************************************)
(* The answers of ready_wait.  -1 only when the timeout has passed, and at *)
(* most one second after it; 0 only if every run is over, of which a       *)
(* single host can be sure until it starts the next.                       *)
(***************************************************************************)
Timely ==
  \A h \in Host : pc[h] = "idle" /\ ret[h] = "timeout" =>
    /\ 1000 * slept[h] > job[h]
    /\ 1000 * (slept[h] - 1) <= job[h]

WaitHonest ==
  /\ Timely
  /\ \A h \in Host : pc[h] = "idle" /\ ret[h] = "ready" => Unfinished = {}

(***************************************************************************)
(* Counters that mpm_query keeps are those of the last run, unless a query *)
(* came before that run was over: what is cached then stays.               *)
(***************************************************************************)
CountersOfLastRun ==
  (\A h \in Host : pc[h] \notin Starting) =>
    \A c \in Core \ (FarCore \cup peeked) :
      cache[c] # Absent => cache[c] = [run |-> future, final |-> TRUE]

(***************************************************************************)
(* The registers, the future and the waits together implement DeviceRuns:  *)
(* one run at a time, each with the entry, the arguments and the page      *)
(* table of its own start.                                                 *)
(***************************************************************************)
In(s)    == {r \in DOMAIN runs : runs[r].state = s}
Whole(p) == [x \in Register |-> p]

Asked   == IF In("launched") = {} THEN Blank
           ELSE Whole(runs[CHOOSE r \in In("launched") : TRUE].asked)
Running == IF In("running") = {} THEN Blank
           ELSE runs[CHOOSE r \in In("running") : TRUE].read

DR == INSTANCE DeviceRuns WITH
        Params <- {Whole(p) : p \in Param}, NoRun <- Blank,
        asked  <- Asked, run <- Running

ImplementsDeviceRuns == DR!Spec

(***************************************************************************)
(* ready_wait returns, whether the run ever ends or not.                   *)
(***************************************************************************)
WaitReturns == \A h \in Host : pc[h] = "wait" ~> pc[h] = "idle"

(***************************************************************************)
(* start, which waits without a timeout, returns when every run ends: it   *)
(* waits for no other thing.                                               *)
(***************************************************************************)
RunsEnd == \A r \in 1 .. MaxRuns : (r \in DOMAIN runs) ~> (r \in DOMAIN runs /\ Done(r))

StartReturns == RunsEnd => \A h \in Host : pc[h] \in Starting ~> pc[h] = "idle"
============================================================================
