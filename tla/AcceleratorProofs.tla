------------------------- MODULE AcceleratorProofs -------------------------
(***************************************************************************)
(* One host thread, any number of runs, parameters, timeouts and cores:    *)
(* the device runs one kernel at a time with what its start was given, and *)
(* the counters that are kept are those of the last run.  DeviceTwoStarts  *)
(* shows that two host threads are one too many.                           *)
(***************************************************************************)
EXTENDS Accelerator, TLAPS

OneHost == \A g, h \in Host : g = h

AllDone == \A r \in DOMAIN runs : runs[r].state = "done"
Latest  == Len(runs)

(***************************************************************************)
(* The inductive invariant.  Only the latest run may be unfinished, and    *)
(* none is while a start writes the registers.                             *)
(***************************************************************************)
Sequential ==
  /\ \A r \in DOMAIN runs : r # Latest => runs[r].state = "done"
  /\ destroyed => AllDone

StartOK(h) ==
  /\ pc[h] \in Starting => job[h] \in Param
  /\ pc[h] \in {"prior", "entry", "args", "table", "launch"} => Latest < MaxRuns
  /\ pc[h] \in {"entry", "args", "table", "launch"} => AllDone
  /\ pc[h] = "assign" => Latest > 0 /\ old[h] = Latest /\ future = Latest - 1
  /\ pc[h] # "assign" => future = Latest
  /\ pc[h] \in {"args", "table", "launch"} => regs["entry"] = job[h]
  /\ pc[h] \in {"table", "launch"} => regs["args"] = job[h]
  /\ pc[h] = "launch" => regs["table"] = job[h]
  /\ destroyed => pc[h] = "idle"

ReadsItsOwn ==
  \A r \in DOMAIN runs :
    /\ runs[r].state = "launched" => regs = Whole(runs[r].asked)
    /\ runs[r].state = "running" => runs[r].read = Whole(runs[r].asked)

Counted == AllDone => counters = [run |-> Latest, final |-> TRUE]

IInv ==
  /\ TypeOK
  /\ Sequential
  /\ \A h \in Host : StartOK(h)
  /\ ReadsItsOwn
  /\ Counted
  /\ CountersOfLastRun

----------------------------------------------------------------------------
(***************************************************************************)
(* Types.                                                                  *)
(***************************************************************************)
LEMMA RunsTyped ==
  ASSUME TypeOK
  PROVE  /\ Latest \in Nat /\ DOMAIN runs = 1 .. Latest
         /\ \A r \in DOMAIN runs : runs[r] \in RunRecord
BY DEF TypeOK, Latest

LEMMA RunUpdated ==
  ASSUME TypeOK, NEW r \in DOMAIN runs, NEW x \in RunRecord, runs' = [runs EXCEPT ![r] = x]
  PROVE  /\ runs' \in Seq(RunRecord) /\ Latest' = Latest /\ DOMAIN runs' = DOMAIN runs
         /\ \A q \in DOMAIN runs : runs'[q] = IF q = r THEN x ELSE runs[q]
<1>1. runs \in Seq(RunRecord)
  BY DEF TypeOK
<1> QED BY <1>1 DEF Latest

LEMMA RunAppended ==
  ASSUME TypeOK, NEW x \in RunRecord, runs' = Append(runs, x)
  PROVE  /\ runs' \in Seq(RunRecord) /\ Latest' = Latest + 1
         /\ DOMAIN runs' = DOMAIN runs \cup {Latest'} /\ Latest' \notin DOMAIN runs
         /\ \A q \in DOMAIN runs : runs'[q] = runs[q]
         /\ runs'[Latest'] = x
<1>1. runs \in Seq(RunRecord)
  BY DEF TypeOK
<1> QED BY <1>1 DEF Latest

\* Registers, and a run that reads them
LEMMA ParametersTyped ==
  /\ Blank \in [Register -> Values]
  /\ \A p \in Param : Whole(p) \in [Register -> Values] /\ Whole(p) # Blank
  /\ \A p \in Param : [asked |-> p, read |-> Blank, state |-> "launched"] \in RunRecord
  /\ \A p, q \in Param : Whole(p) = Whole(q) => p = q
<1>1. Blank \in [Register -> Values]
  BY DEF Blank, Values
<1>2. ASSUME NEW p \in Param
      PROVE  Whole(p) \in [Register -> Values] /\ Whole(p) # Blank
  <2>1. "entry" \in Register /\ p # NoParam
    BY DeviceAssumption DEF Register
  <2>2. Whole(p)["entry"] = p /\ Blank["entry"] = NoParam
    BY <2>1 DEF Whole, Blank
  <2> QED BY <2>1, <2>2 DEF Whole, Values
<1>3. ASSUME NEW p \in Param, NEW q \in Param, Whole(p) = Whole(q)
      PROVE  p = q
  <2>1. Whole(p)["entry"] = p /\ Whole(q)["entry"] = q
    BY DEF Whole, Register
  <2> QED BY <2>1, <1>3
<1> QED BY <1>1, <1>2, <1>3 DEF RunRecord

LEMMA InitTyped == Init => TypeOK
<1> SUFFICES ASSUME Init PROVE TypeOK
  OBVIOUS
<1>1. Zeros \in Counters /\ Absent \in Counters
  <2>1. MaxRuns \in Nat
    BY DeviceAssumption
  <2> QED BY <2>1 DEF Zeros, Absent, Counters
<1>2. runs \in Seq(RunRecord) /\ Len(runs) <= MaxRuns /\ future \in 0 .. Len(runs)
  <2>1. runs = <<>> /\ Len(runs) = 0 /\ MaxRuns \in Nat
    BY DeviceAssumption DEF Init
  <2> QED BY <2>1 DEF Init
<1>3. regs \in [Register -> Values] /\ cache \in [Core -> Counters] /\ counters \in Counters
  BY <1>1, ParametersTyped DEF Init
<1>4. /\ job \in [Host -> Param \cup Nat] /\ old \in [Host -> 0 .. Len(runs)]
      /\ secs \in [Host -> Nat] /\ slept \in [Host -> Nat]
  <2>1. Len(runs) \in Nat /\ 0 \in 0 .. Len(runs)
    BY <1>2
  <2> QED BY <2>1 DEF Init
<1>5. /\ pc \in [Host -> Starting \cup {"idle", "wait"}] /\ destroyed \in BOOLEAN
      /\ peeked \subseteq Core
      /\ ret \in [Host -> {"none", "started", "ready", "timeout", "nullopt", "counters"}]
  BY DEF Init
<1> QED BY <1>1, <1>2, <1>3, <1>4, <1>5 DEF TypeOK

----------------------------------------------------------------------------
(* One lemma per action.  There is one host thread, so a step of it is the *)
(* step of all.                                                            *)

LEMMA InitInv == Init => IInv
<1> SUFFICES ASSUME Init PROVE IInv
  OBVIOUS
<1>1. TypeOK
  BY InitTyped
<1>2. Latest = 0 /\ DOMAIN runs = {} /\ future = 0 /\ destroyed = FALSE
  <2>1. runs = <<>>
    BY DEF Init
  <2> QED BY <2>1 DEF Init, Latest
<1>3. Sequential /\ ReadsItsOwn
  BY <1>2 DEF Sequential, ReadsItsOwn
<1>4. \A h \in Host : StartOK(h)
  BY <1>2 DEF Init, StartOK, Starting
<1>5. Counted /\ CountersOfLastRun
  BY <1>2 DEF Init, Counted, CountersOfLastRun, Zeros
<1> QED BY <1>1, <1>3, <1>4, <1>5 DEF IInv

\* What the invariant says that the steps of the host rely on.
LEMMA HostFacts ==
  ASSUME IInv, NEW h \in Host
  PROVE  /\ TypeOK /\ Sequential /\ StartOK(h) /\ ReadsItsOwn /\ Counted
         /\ Latest \in Nat /\ DOMAIN runs = 1 .. Latest
         /\ pc[h] # "assign" /\ PriorDone => AllDone
         /\ pc[h] \notin Starting => future = Latest
<1>1. /\ TypeOK /\ Sequential /\ StartOK(h) /\ ReadsItsOwn /\ Counted
      /\ Latest \in Nat /\ DOMAIN runs = 1 .. Latest
  BY RunsTyped DEF IInv
<1>2. ASSUME pc[h] # "assign", PriorDone PROVE AllDone
  BY <1>1, <1>2 DEF StartOK, PriorDone, Done, AllDone, Sequential
<1>3. pc[h] \notin Starting => future = Latest
  BY <1>1 DEF StartOK, Starting
<1> QED BY <1>1, <1>2, <1>3

(***************************************************************************)
(* A step that leaves the device, the registers and the future alone keeps *)
(* what the invariant says of the runs.                                    *)
(***************************************************************************)
LEMMA RunsStay ==
  ASSUME IInv, UNCHANGED <<device, regs>>, destroyed' => AllDone
  PROVE  /\ Sequential' /\ ReadsItsOwn' /\ Counted' /\ AllDone' = AllDone
         /\ Latest' = Latest
<1>1. runs' = runs /\ counters' = counters /\ regs' = regs
  BY DEF device
<1>2. Latest' = Latest /\ AllDone' = AllDone
  BY <1>1 DEF Latest, AllDone
<1> QED BY <1>1, <1>2 DEF IInv, Sequential, ReadsItsOwn, Counted, Whole

LEMMA StartCallInv ==
  ASSUME OneHost, IInv, NEW h \in Host, NEW p \in Param, StartCall(h, p)
  PROVE  IInv'
<1>1. /\ TypeOK /\ Sequential /\ StartOK(h) /\ ReadsItsOwn /\ Counted
      /\ Latest \in Nat /\ DOMAIN runs = 1 .. Latest
      /\ pc[h] # "assign" /\ PriorDone => AllDone
      /\ pc[h] \notin Starting => future = Latest
  BY HostFacts
<1>2. \A g \in Host : g = h
  BY DEF OneHost
<1>3. /\ pc[h] = "idle" /\ destroyed = FALSE /\ pc' = [pc EXCEPT ![h] = "prior"]
      /\ job' = [job EXCEPT ![h] = p] /\ ret' = [ret EXCEPT ![h] = "none"]
      /\ slept' = [slept EXCEPT ![h] = 0]
      /\ UNCHANGED <<regs, future, device, cache, peeked, destroyed, old, secs>>
      /\ pc'[h] = "prior" /\ job'[h] = p /\ Latest < MaxRuns
  BY <1>1 DEF StartCall, Open, Goto, TypeOK, Latest
<1>4. TypeOK'
  BY <1>1, <1>3 DEF TypeOK, Starting, device
<1>5. Sequential' /\ ReadsItsOwn' /\ Counted' /\ AllDone' = AllDone /\ Latest' = Latest
  BY <1>1, <1>3, RunsStay DEF device, Sequential
<1>6. StartOK(h)'
  BY <1>1, <1>3, <1>5 DEF StartOK, Starting
<1>7. CountersOfLastRun'
  BY <1>2, <1>3 DEF CountersOfLastRun, Starting
<1> QED BY <1>2, <1>4, <1>5, <1>6, <1>7 DEF IInv

LEMMA WaitPriorInv ==
  ASSUME OneHost, IInv, NEW h \in Host, WaitPrior(h)
  PROVE  IInv'
<1>1. /\ TypeOK /\ Sequential /\ StartOK(h) /\ ReadsItsOwn /\ Counted
      /\ Latest \in Nat /\ DOMAIN runs = 1 .. Latest
      /\ pc[h] # "assign" /\ PriorDone => AllDone
      /\ pc[h] \notin Starting => future = Latest
  BY HostFacts
<1>2. \A g \in Host : g = h
  BY DEF OneHost
<1>3. /\ pc[h] = "prior" /\ PriorDone /\ pc' = [pc EXCEPT ![h] = "entry"]
      /\ UNCHANGED <<regs, future, device, cache, peeked, destroyed, locals, ret>>
      /\ pc'[h] = "entry"
  BY <1>1 DEF WaitPrior, Goto, TypeOK
<1>4. TypeOK'
  BY <1>1, <1>3 DEF TypeOK, Starting, device, locals
<1>5. Sequential' /\ ReadsItsOwn' /\ Counted' /\ AllDone' = AllDone /\ Latest' = Latest
  BY <1>1, <1>3, RunsStay DEF device, Sequential
<1>6. StartOK(h)'
  BY <1>1, <1>3, <1>5 DEF StartOK, Starting, locals
<1>7. CountersOfLastRun'
  BY <1>2, <1>3 DEF CountersOfLastRun, Starting
<1> QED BY <1>2, <1>4, <1>5, <1>6, <1>7 DEF IInv

LEMMA WriteEntryInv ==
  ASSUME OneHost, IInv, NEW h \in Host, WriteEntry(h)
  PROVE  IInv'
<1>1. /\ TypeOK /\ Sequential /\ StartOK(h) /\ ReadsItsOwn /\ Counted
      /\ Latest \in Nat /\ DOMAIN runs = 1 .. Latest
      /\ pc[h] # "assign" /\ PriorDone => AllDone
      /\ pc[h] \notin Starting => future = Latest
  BY HostFacts
<1>2. \A g \in Host : g = h
  BY DEF OneHost
<1>3. /\ pc[h] = "entry" /\ pc' = [pc EXCEPT ![h] = "args"] /\ pc'[h] = "args"
      /\ regs' = [regs EXCEPT !["entry"] = job[h]]
      /\ UNCHANGED <<future, device, cache, peeked, destroyed, locals, ret>>
  BY <1>1 DEF WriteEntry, Write, Goto, TypeOK
<1>a. AllDone /\ job[h] \in Param
  BY <1>1, <1>3 DEF StartOK, Starting
<1>b. /\ regs \in [Register -> Values] /\ regs' \in [Register -> Values]
      /\ \A x \in Register : regs'[x] = IF x = "entry" THEN job[h] ELSE regs[x]
  BY <1>1, <1>3, <1>a DEF TypeOK, Values, Register
<1>c. runs' = runs /\ counters' = counters /\ Latest' = Latest /\ AllDone' = AllDone
  BY <1>3 DEF device, Latest, AllDone
<1>4. TypeOK'
  BY <1>1, <1>3, <1>b DEF TypeOK, Starting, device, locals
<1>5. Sequential' /\ ReadsItsOwn' /\ Counted'
  BY <1>1, <1>3, <1>a, <1>c DEF Sequential, ReadsItsOwn, Counted, AllDone
<1>6. StartOK(h)'
  BY <1>1, <1>3, <1>a, <1>b, <1>c DEF StartOK, Starting, locals, Register
<1>7. CountersOfLastRun'
  BY <1>2, <1>3 DEF CountersOfLastRun, Starting
<1> QED BY <1>2, <1>4, <1>5, <1>6, <1>7 DEF IInv

LEMMA WriteArgsInv ==
  ASSUME OneHost, IInv, NEW h \in Host, WriteArgs(h)
  PROVE  IInv'
<1>1. /\ TypeOK /\ Sequential /\ StartOK(h) /\ ReadsItsOwn /\ Counted
      /\ Latest \in Nat /\ DOMAIN runs = 1 .. Latest
      /\ pc[h] # "assign" /\ PriorDone => AllDone
      /\ pc[h] \notin Starting => future = Latest
  BY HostFacts
<1>2. \A g \in Host : g = h
  BY DEF OneHost
<1>3. /\ pc[h] = "args" /\ pc' = [pc EXCEPT ![h] = "table"] /\ pc'[h] = "table"
      /\ regs' = [regs EXCEPT !["args"] = job[h]]
      /\ UNCHANGED <<future, device, cache, peeked, destroyed, locals, ret>>
  BY <1>1 DEF WriteArgs, Write, Goto, TypeOK
<1>a. AllDone /\ job[h] \in Param
  BY <1>1, <1>3 DEF StartOK, Starting
<1>b. /\ regs \in [Register -> Values] /\ regs' \in [Register -> Values]
      /\ \A x \in Register : regs'[x] = IF x = "args" THEN job[h] ELSE regs[x]
  BY <1>1, <1>3, <1>a DEF TypeOK, Values, Register
<1>c. runs' = runs /\ counters' = counters /\ Latest' = Latest /\ AllDone' = AllDone
  BY <1>3 DEF device, Latest, AllDone
<1>4. TypeOK'
  BY <1>1, <1>3, <1>b DEF TypeOK, Starting, device, locals
<1>5. Sequential' /\ ReadsItsOwn' /\ Counted'
  BY <1>1, <1>3, <1>a, <1>c DEF Sequential, ReadsItsOwn, Counted, AllDone
<1>6. StartOK(h)'
  BY <1>1, <1>3, <1>a, <1>b, <1>c DEF StartOK, Starting, locals, Register
<1>7. CountersOfLastRun'
  BY <1>2, <1>3 DEF CountersOfLastRun, Starting
<1> QED BY <1>2, <1>4, <1>5, <1>6, <1>7 DEF IInv

LEMMA WriteTableInv ==
  ASSUME OneHost, IInv, NEW h \in Host, WriteTable(h)
  PROVE  IInv'
<1>1. /\ TypeOK /\ Sequential /\ StartOK(h) /\ ReadsItsOwn /\ Counted
      /\ Latest \in Nat /\ DOMAIN runs = 1 .. Latest
      /\ pc[h] # "assign" /\ PriorDone => AllDone
      /\ pc[h] \notin Starting => future = Latest
  BY HostFacts
<1>2. \A g \in Host : g = h
  BY DEF OneHost
<1>3. /\ pc[h] = "table" /\ pc' = [pc EXCEPT ![h] = "launch"] /\ pc'[h] = "launch"
      /\ regs' = [regs EXCEPT !["table"] = job[h]]
      /\ UNCHANGED <<future, device, cache, peeked, destroyed, locals, ret>>
  BY <1>1 DEF WriteTable, Write, Goto, TypeOK
<1>a. AllDone /\ job[h] \in Param
  BY <1>1, <1>3 DEF StartOK, Starting
<1>b. /\ regs \in [Register -> Values] /\ regs' \in [Register -> Values]
      /\ \A x \in Register : regs'[x] = IF x = "table" THEN job[h] ELSE regs[x]
  BY <1>1, <1>3, <1>a DEF TypeOK, Values, Register
<1>c. runs' = runs /\ counters' = counters /\ Latest' = Latest /\ AllDone' = AllDone
  BY <1>3 DEF device, Latest, AllDone
<1>4. TypeOK'
  BY <1>1, <1>3, <1>b DEF TypeOK, Starting, device, locals
<1>5. Sequential' /\ ReadsItsOwn' /\ Counted'
  BY <1>1, <1>3, <1>a, <1>c DEF Sequential, ReadsItsOwn, Counted, AllDone
<1>6. StartOK(h)'
  BY <1>1, <1>3, <1>a, <1>b, <1>c DEF StartOK, Starting, locals, Register
<1>7. CountersOfLastRun'
  BY <1>2, <1>3 DEF CountersOfLastRun, Starting
<1> QED BY <1>2, <1>4, <1>5, <1>6, <1>7 DEF IInv

LEMMA LaunchInv ==
  ASSUME OneHost, IInv, NEW h \in Host, Launch(h)
  PROVE  IInv'
<1>1. /\ TypeOK /\ Sequential /\ StartOK(h) /\ ReadsItsOwn /\ Counted
      /\ Latest \in Nat /\ DOMAIN runs = 1 .. Latest
      /\ pc[h] # "assign" /\ PriorDone => AllDone
      /\ pc[h] \notin Starting => future = Latest
  BY HostFacts
<1>2. \A g \in Host : g = h
  BY DEF OneHost
<1> DEFINE x == [asked |-> job[h], read |-> Blank, state |-> "launched"]
<1>3. /\ pc[h] = "launch" /\ pc' = [pc EXCEPT ![h] = "assign"] /\ pc'[h] = "assign"
      /\ runs' = Append(runs, x) /\ old' = [old EXCEPT ![h] = Latest + 1] /\ old'[h] = Latest + 1
      /\ UNCHANGED <<regs, future, counters, cache, peeked, destroyed, job, secs, slept, ret>>
  BY <1>1 DEF Launch, Goto, TypeOK, Latest
<1>a. AllDone /\ job[h] \in Param /\ regs = Whole(job[h]) /\ future = Latest /\ destroyed = FALSE
  <2>1. /\ AllDone /\ job[h] \in Param /\ future = Latest /\ destroyed = FALSE
        /\ regs["entry"] = job[h] /\ regs["args"] = job[h] /\ regs["table"] = job[h]
    BY <1>1, <1>3 DEF StartOK, Starting, TypeOK
  <2>2. regs \in [Register -> Values]
    BY <1>1 DEF TypeOK
  <2>3. \A y \in Register : regs[y] = job[h]
    BY <2>1 DEF Register
  <2> QED BY <2>1, <2>2, <2>3 DEF Whole
<1>b. x \in RunRecord
  BY <1>a, ParametersTyped
<1>c. /\ runs' \in Seq(RunRecord) /\ Latest' = Latest + 1
      /\ DOMAIN runs' = DOMAIN runs \cup {Latest'} /\ Latest' \notin DOMAIN runs
      /\ \A q \in DOMAIN runs : runs'[q] = runs[q]
      /\ runs'[Latest'] = x
  BY <1>1, <1>3, <1>b, RunAppended
<1>d. Latest < MaxRuns
  BY <1>1, <1>3 DEF StartOK
<1>4. TypeOK'
  <2>1. Len(runs') <= MaxRuns /\ Len(runs') \in Nat /\ Len(runs) <= Len(runs')
    BY <1>1, <1>c, <1>d, DeviceAssumption DEF Latest
  <2>2. future' \in 0 .. Len(runs')
    <3>1. future \in 0 .. Len(runs) /\ Len(runs) \in Nat
      BY <1>1 DEF TypeOK, Latest
    <3> QED BY <1>3, <2>1, <3>1
  <2>3. old' \in [Host -> 0 .. Len(runs')]
    <3>1. old \in [Host -> 0 .. Len(runs)] /\ Len(runs) \in Nat
      BY <1>1 DEF TypeOK, Latest
    <3>2. 0 .. Len(runs) \subseteq 0 .. Len(runs')
      BY <2>1, <3>1
    <3>3. Latest + 1 \in 0 .. Len(runs')
      BY <1>1, <1>c DEF Latest
    <3> QED BY <1>3, <3>1, <3>2, <3>3
  <2>4. pc' \in [Host -> Starting \cup {"idle", "wait"}]
    BY <1>1, <1>3 DEF TypeOK, Starting
  <2> QED BY <1>1, <1>3, <1>c, <2>1, <2>2, <2>3, <2>4 DEF TypeOK
<1>5. Sequential' /\ ReadsItsOwn' /\ Counted'
  <2>1. ~AllDone'
    BY <1>c DEF AllDone
  <2>2. Sequential'
    BY <1>3, <1>a, <1>c DEF Sequential, AllDone
  <2>3. ReadsItsOwn'
    BY <1>3, <1>a, <1>c DEF ReadsItsOwn, AllDone, Whole
  <2> QED BY <2>1, <2>2, <2>3 DEF Counted
<1>6. StartOK(h)'
  BY <1>1, <1>3, <1>a, <1>c DEF StartOK, Starting
<1>7. CountersOfLastRun'
  BY <1>2, <1>3 DEF CountersOfLastRun, Starting
<1> QED BY <1>2, <1>4, <1>5, <1>6, <1>7 DEF IInv

LEMMA AssignInv ==
  ASSUME OneHost, IInv, NEW h \in Host, Assign(h)
  PROVE  IInv'
<1>1. /\ TypeOK /\ Sequential /\ StartOK(h) /\ ReadsItsOwn /\ Counted
      /\ Latest \in Nat /\ DOMAIN runs = 1 .. Latest
      /\ pc[h] # "assign" /\ PriorDone => AllDone
      /\ pc[h] \notin Starting => future = Latest
  BY HostFacts
<1>2. \A g \in Host : g = h
  BY DEF OneHost
<1>3. /\ pc[h] = "assign" /\ pc' = [pc EXCEPT ![h] = "clear"] /\ pc'[h] = "clear"
      /\ future' = old[h] /\ old' = [old EXCEPT ![h] = future] /\ old'[h] = future
      /\ UNCHANGED <<regs, device, cache, peeked, destroyed, job, secs, slept, ret>>
  BY <1>1 DEF Assign, Goto, TypeOK
<1>a. Latest > 0 /\ old[h] = Latest /\ future = Latest - 1 /\ job[h] \in Param /\ destroyed = FALSE
  BY <1>1, <1>3 DEF StartOK, Starting, TypeOK
<1>4. TypeOK'
  <2>1. runs' = runs /\ counters' = counters
    BY <1>3 DEF device
  <2>2. future' \in 0 .. Len(runs) /\ old' \in [Host -> 0 .. Len(runs)]
    BY <1>1, <1>3, <1>a DEF TypeOK, Latest
  <2> QED BY <1>1, <1>3, <2>1, <2>2 DEF TypeOK, Starting
<1>5. Sequential' /\ ReadsItsOwn' /\ Counted' /\ AllDone' = AllDone /\ Latest' = Latest
  BY <1>1, <1>3, RunsStay DEF device, Sequential
<1>6. StartOK(h)'
  BY <1>1, <1>3, <1>a, <1>5 DEF StartOK, Starting
<1>7. CountersOfLastRun'
  BY <1>2, <1>3 DEF CountersOfLastRun, Starting
<1> QED BY <1>2, <1>4, <1>5, <1>6, <1>7 DEF IInv

LEMMA ClearCacheInv ==
  ASSUME OneHost, IInv, NEW h \in Host, ClearCache(h)
  PROVE  IInv'
<1>1. /\ TypeOK /\ Sequential /\ StartOK(h) /\ ReadsItsOwn /\ Counted
      /\ Latest \in Nat /\ DOMAIN runs = 1 .. Latest
      /\ pc[h] # "assign" /\ PriorDone => AllDone
      /\ pc[h] \notin Starting => future = Latest
  BY HostFacts
<1>2. \A g \in Host : g = h
  BY DEF OneHost
<1>3. /\ pc[h] = "clear" /\ pc' = [pc EXCEPT ![h] = "idle"] /\ pc'[h] = "idle"
      /\ Done(old[h])
      /\ cache' = [c \in Core |-> Absent] /\ peeked' = {}
      /\ ret' = [ret EXCEPT ![h] = "started"] /\ job' = [job EXCEPT ![h] = 0]
      /\ old' = [old EXCEPT ![h] = 0] /\ secs' = [secs EXCEPT ![h] = 0]
      /\ UNCHANGED <<regs, future, device, destroyed, slept>>
  BY <1>1 DEF ClearCache, Goto, Answer, TypeOK
<1>4. TypeOK'
  <2>1. runs' = runs /\ counters' = counters
    BY <1>3 DEF device
  <2>2. MaxRuns \in Nat
    BY DeviceAssumption
  <2>3. Absent \in Counters
    BY <2>2 DEF Absent, Counters
  <2>4. 0 \in 0 .. Len(runs)
    BY <1>1 DEF Latest
  <2> QED BY <1>1, <1>3, <2>1, <2>3, <2>4 DEF TypeOK, Starting
<1>5. Sequential' /\ ReadsItsOwn' /\ Counted' /\ AllDone' = AllDone /\ Latest' = Latest
  BY <1>1, <1>3, RunsStay DEF device, Sequential
<1>6. StartOK(h)'
  BY <1>1, <1>3, <1>5 DEF StartOK, Starting
<1>7. CountersOfLastRun'
  BY <1>3 DEF CountersOfLastRun
<1> QED BY <1>2, <1>4, <1>5, <1>6, <1>7 DEF IInv

LEMMA WaitCallInv ==
  ASSUME OneHost, IInv, NEW h \in Host, NEW ms \in Timeouts, WaitCall(h, ms)
  PROVE  IInv'
<1>1. /\ TypeOK /\ Sequential /\ StartOK(h) /\ ReadsItsOwn /\ Counted
      /\ Latest \in Nat /\ DOMAIN runs = 1 .. Latest
      /\ pc[h] # "assign" /\ PriorDone => AllDone
      /\ pc[h] \notin Starting => future = Latest
  BY HostFacts
<1>2. \A g \in Host : g = h
  BY DEF OneHost
<1>3. /\ pc[h] = "idle" /\ destroyed = FALSE
      /\ job' = [job EXCEPT ![h] = ms] /\ slept' = [slept EXCEPT ![h] = 0]
      /\ \E v \in {"idle", "wait"} : pc' = [pc EXCEPT ![h] = v]
      /\ \E v \in {"ready", "none"} : ret' = [ret EXCEPT ![h] = v]
      /\ secs' \in {secs, [secs EXCEPT ![h] = ms \div 1000]}
      /\ UNCHANGED <<regs, future, device, cache, peeked, destroyed, old>>
      /\ pc'[h] \in {"idle", "wait"}
  BY <1>1 DEF WaitCall, Open, Goto, TypeOK
<1>4. TypeOK'
  <2>1. runs' = runs /\ counters' = counters
    BY <1>3 DEF device
  <2>2. ms \in Nat /\ ms \div 1000 \in Nat
    BY DeviceAssumption
  <2>3. pc' \in [Host -> Starting \cup {"idle", "wait"}] /\ secs' \in [Host -> Nat]
    <3>1. pc \in [Host -> Starting \cup {"idle", "wait"}] /\ secs \in [Host -> Nat]
      BY <1>1 DEF TypeOK
    <3> QED BY <1>3, <2>2, <3>1
  <2>4. ret' \in [Host -> {"none", "started", "ready", "timeout", "nullopt", "counters"}]
    BY <1>1, <1>3 DEF TypeOK
  <2>5. job' \in [Host -> Param \cup Nat] /\ slept' \in [Host -> Nat]
    BY <1>1, <1>3, <2>2 DEF TypeOK
  <2> QED BY <1>1, <1>3, <2>1, <2>3, <2>4, <2>5 DEF TypeOK
<1>5. Sequential' /\ ReadsItsOwn' /\ Counted' /\ AllDone' = AllDone /\ Latest' = Latest
  BY <1>1, <1>3, RunsStay DEF device, Sequential
<1>6. StartOK(h)'
  BY <1>1, <1>3, <1>5 DEF StartOK, Starting
<1>7. CountersOfLastRun'
  <2>1. CountersOfLastRun
    BY DEF IInv
  <2>2. \A g \in Host : pc[g] \notin Starting
    BY <1>2, <1>3 DEF Starting
  <2>3. \A c \in Core \ (FarCore \cup peeked) :
          cache[c] # Absent => cache[c] = [run |-> future, final |-> TRUE]
    BY <2>1, <2>2 DEF CountersOfLastRun
  <2>4. cache' = cache /\ peeked' = peeked /\ future' = future
    BY <1>3
  <2> QED BY <2>3, <2>4 DEF CountersOfLastRun
<1> QED BY <1>2, <1>4, <1>5, <1>6, <1>7 DEF IInv

LEMMA WaitReadyInv ==
  ASSUME OneHost, IInv, NEW h \in Host, WaitReady(h)
  PROVE  IInv'
<1>1. /\ TypeOK /\ Sequential /\ StartOK(h) /\ ReadsItsOwn /\ Counted
      /\ Latest \in Nat /\ DOMAIN runs = 1 .. Latest
      /\ pc[h] # "assign" /\ PriorDone => AllDone
      /\ pc[h] \notin Starting => future = Latest
  BY HostFacts
<1>2. \A g \in Host : g = h
  BY DEF OneHost
<1>3. /\ pc[h] = "wait" /\ pc' = [pc EXCEPT ![h] = "idle"] /\ pc'[h] = "idle"
      /\ ret' = [ret EXCEPT ![h] = "ready"]
      /\ UNCHANGED <<regs, future, device, cache, peeked, destroyed, locals>>
  BY <1>1 DEF WaitReady, Goto, TypeOK
<1>4. TypeOK'
  BY <1>1, <1>3 DEF TypeOK, device, locals
<1>5. Sequential' /\ ReadsItsOwn' /\ Counted' /\ AllDone' = AllDone /\ Latest' = Latest
  BY <1>1, <1>3, RunsStay DEF device, Sequential
<1>6. StartOK(h)'
  BY <1>1, <1>3, <1>5 DEF StartOK, Starting
<1>7. CountersOfLastRun'
  <2>1. CountersOfLastRun
    BY DEF IInv
  <2>2. \A g \in Host : pc[g] \notin Starting
    BY <1>2, <1>3 DEF Starting
  <2> QED BY <1>3, <2>1, <2>2 DEF CountersOfLastRun
<1> QED BY <1>2, <1>4, <1>5, <1>6, <1>7 DEF IInv

LEMMA WaitSecondInv ==
  ASSUME OneHost, IInv, NEW h \in Host, WaitSecond(h)
  PROVE  IInv'
<1>1. /\ TypeOK /\ Sequential /\ StartOK(h) /\ ReadsItsOwn /\ Counted
      /\ Latest \in Nat /\ DOMAIN runs = 1 .. Latest
      /\ pc[h] # "assign" /\ PriorDone => AllDone
      /\ pc[h] \notin Starting => future = Latest
  BY HostFacts
<1>2. \A g \in Host : g = h
  BY DEF OneHost
<1>3. /\ pc[h] = "wait" /\ pc' \in {pc, [pc EXCEPT ![h] = "idle"]} /\ pc'[h] \in {"wait", "idle"}
      /\ ret' \in {ret, [ret EXCEPT ![h] = "timeout"]}
      /\ slept' = [slept EXCEPT ![h] = @ + 1]
      /\ secs' = secs \/ (secs[h] # 0 /\ secs' = [secs EXCEPT ![h] = @ - 1])
      /\ UNCHANGED <<regs, future, device, cache, peeked, destroyed, job, old>>
  BY <1>1 DEF WaitSecond, Goto, TypeOK
<1>4. TypeOK'
  <2>1. runs' = runs /\ counters' = counters
    BY <1>3 DEF device
  <2>2. pc' \in [Host -> Starting \cup {"idle", "wait"}]
    <3>1. pc \in [Host -> Starting \cup {"idle", "wait"}]
      BY <1>1 DEF TypeOK
    <3> QED BY <1>3, <3>1
  <2>3. ret' \in [Host -> {"none", "started", "ready", "timeout", "nullopt", "counters"}]
    <3>1. ret \in [Host -> {"none", "started", "ready", "timeout", "nullopt", "counters"}]
      BY <1>1 DEF TypeOK
    <3> QED BY <1>3, <3>1
  <2>4. secs' \in [Host -> Nat] /\ slept' \in [Host -> Nat]
    BY <1>1, <1>3 DEF TypeOK
  <2> QED BY <1>1, <1>3, <2>1, <2>2, <2>3, <2>4 DEF TypeOK
<1>5. Sequential' /\ ReadsItsOwn' /\ Counted' /\ AllDone' = AllDone /\ Latest' = Latest
  BY <1>1, <1>3, RunsStay DEF device, Sequential
<1>6. StartOK(h)'
  BY <1>1, <1>3, <1>5 DEF StartOK, Starting
<1>7. CountersOfLastRun'
  <2>1. CountersOfLastRun
    BY DEF IInv
  <2>2. \A g \in Host : pc[g] \notin Starting
    BY <1>2, <1>3 DEF Starting
  <2> QED BY <1>3, <2>1, <2>2 DEF CountersOfLastRun
<1> QED BY <1>2, <1>4, <1>5, <1>6, <1>7 DEF IInv

LEMMA QueryInv ==
  ASSUME OneHost, IInv, NEW h \in Host, NEW c \in Core, Query(h, c)
  PROVE  IInv'
<1>1. /\ TypeOK /\ Sequential /\ StartOK(h) /\ ReadsItsOwn /\ Counted
      /\ Latest \in Nat /\ DOMAIN runs = 1 .. Latest
      /\ pc[h] # "assign" /\ PriorDone => AllDone
      /\ pc[h] \notin Starting => future = Latest
  BY HostFacts
<1>2. \A g \in Host : g = h
  BY DEF OneHost
<1> DEFINE new == IF cache[c] # Absent THEN cache[c] ELSE IF c \in FarCore THEN Zeros ELSE counters
<1>3. /\ pc[h] = "idle" /\ destroyed = FALSE /\ pc' = [pc EXCEPT ![h] = "idle"] /\ pc'[h] = "idle"
      /\ cache' = [cache EXCEPT ![c] = new]
      /\ peeked' = IF cache[c] = Absent /\ ~PriorDone THEN peeked \cup {c} ELSE peeked
      /\ ret' \in {[ret EXCEPT ![h] = "nullopt"], [ret EXCEPT ![h] = "counters"]}
      /\ job' = [job EXCEPT ![h] = 0] /\ old' = [old EXCEPT ![h] = 0]
      /\ secs' = [secs EXCEPT ![h] = 0] /\ slept' = [slept EXCEPT ![h] = 0]
      /\ UNCHANGED <<regs, future, device, destroyed>>
  BY <1>1 DEF Query, Open, Goto, Answer, TypeOK
<1>4. TypeOK'
  <2>1. runs' = runs /\ counters' = counters
    BY <1>3 DEF device
  <2>2. MaxRuns \in Nat
    BY DeviceAssumption
  <2>3. Zeros \in Counters
    BY <2>2 DEF Zeros, Counters
  <2>4. new \in Counters
    BY <1>1, <2>3 DEF TypeOK
  <2>5. 0 \in 0 .. Len(runs)
    BY <1>1 DEF Latest
  <2>6. cache' \in [Core -> Counters] /\ peeked' \subseteq Core
    BY <1>1, <1>3, <2>4 DEF TypeOK
  <2>7. ret' \in [Host -> {"none", "started", "ready", "timeout", "nullopt", "counters"}]
    BY <1>1, <1>3 DEF TypeOK
  <2> QED BY <1>1, <1>3, <2>1, <2>5, <2>6, <2>7 DEF TypeOK
<1>5. Sequential' /\ ReadsItsOwn' /\ Counted' /\ AllDone' = AllDone /\ Latest' = Latest
  BY <1>1, <1>3, RunsStay DEF device, Sequential
<1>6. StartOK(h)'
  BY <1>1, <1>3, <1>5 DEF StartOK, Starting
<1>7. CountersOfLastRun'
  <2>1. \A d \in Core \ (FarCore \cup peeked) :
          cache[d] # Absent => cache[d] = [run |-> future, final |-> TRUE]
    BY <1>2, <1>3 DEF IInv, CountersOfLastRun, Starting
  <2>2. PriorDone => counters = [run |-> future, final |-> TRUE]
    BY <1>1, <1>3 DEF Counted, Starting
  <2>3. \A d \in Core : cache'[d] = IF d = c THEN new ELSE cache[d]
    BY <1>1, <1>3 DEF TypeOK
  <2>4. ASSUME NEW d \in Core \ (FarCore \cup peeked'), cache'[d] # Absent
        PROVE  cache'[d] = [run |-> future, final |-> TRUE]
    <3>1. d \notin peeked /\ (d = c /\ cache[c] = Absent => PriorDone)
      BY <1>3, <2>4
    <3> QED BY <2>1, <2>2, <2>3, <2>4, <3>1
  <2> QED BY <1>3, <2>4 DEF CountersOfLastRun
<1> QED BY <1>2, <1>4, <1>5, <1>6, <1>7 DEF IInv

LEMMA DestroyInv ==
  ASSUME OneHost, IInv, NEW h \in Host, Destroy(h)
  PROVE  IInv'
<1>1. /\ TypeOK /\ Sequential /\ StartOK(h) /\ ReadsItsOwn /\ Counted
      /\ Latest \in Nat /\ DOMAIN runs = 1 .. Latest
      /\ pc[h] # "assign" /\ PriorDone => AllDone
      /\ pc[h] \notin Starting => future = Latest
  BY HostFacts
<1>2. \A g \in Host : g = h
  BY DEF OneHost
<1>3. /\ pc[h] = "idle" /\ destroyed' = TRUE /\ AllDone
      /\ UNCHANGED <<regs, future, device, cache, peeked, pc, locals, ret>>
  BY <1>1 DEF Destroy, Open
<1>4. TypeOK'
  BY <1>1, <1>3 DEF TypeOK, device, locals
<1>5. Sequential' /\ ReadsItsOwn' /\ Counted' /\ AllDone' = AllDone /\ Latest' = Latest
  BY <1>1, <1>3, RunsStay DEF device, Sequential
<1>6. StartOK(h)'
  BY <1>1, <1>3, <1>5 DEF StartOK, Starting
<1>7. CountersOfLastRun'
  <2>1. CountersOfLastRun
    BY DEF IInv
  <2>2. \A g \in Host : pc[g] \notin Starting
    BY <1>2, <1>3 DEF Starting
  <2> QED BY <1>3, <2>1, <2>2 DEF CountersOfLastRun
<1> QED BY <1>2, <1>4, <1>5, <1>6, <1>7 DEF IInv

----------------------------------------------------------------------------
(* The run: it is the latest one, and all others are over.                 *)

\* A step of run r that gives it the record x.
RunTo(r, x) ==
  /\ runs' = [runs EXCEPT ![r] = x]
  /\ UNCHANGED <<regs, future, cache, peeked, destroyed, pc, locals, ret>>

LEMMA RunTyped ==
  ASSUME TypeOK, NEW r \in DOMAIN runs
  PROVE  /\ runs[r] \in RunRecord /\ regs \in [Register -> Values]
         /\ [runs[r] EXCEPT !.state = "done"] \in RunRecord
         /\ [runs[r] EXCEPT !.read = regs, !.state = "running"] \in RunRecord
<1>1. runs[r] \in RunRecord /\ regs \in [Register -> Values]
  BY RunsTyped DEF TypeOK
<1> QED BY <1>1 DEF RunRecord

(***************************************************************************)
(* What such a step keeps, whatever it does to the counters.               *)
(***************************************************************************)
LEMMA RunToInv ==
  ASSUME IInv, NEW r \in DOMAIN runs, runs[r].state # "done",
         NEW x \in RunRecord, RunTo(r, x), counters' \in Counters
  PROVE  /\ TypeOK' /\ Sequential' /\ r = Latest /\ Latest' = Latest /\ ~AllDone
         /\ \A h \in Host : StartOK(h)'
         /\ CountersOfLastRun'
         /\ DOMAIN runs' = DOMAIN runs
         /\ \A q \in DOMAIN runs : runs'[q] = IF q = r THEN x ELSE runs[q]
<1>1. /\ TypeOK /\ Sequential /\ CountersOfLastRun /\ \A h \in Host : StartOK(h)
  BY DEF IInv
<1>2. /\ runs' \in Seq(RunRecord) /\ Latest' = Latest /\ DOMAIN runs' = DOMAIN runs
      /\ \A q \in DOMAIN runs : runs'[q] = IF q = r THEN x ELSE runs[q]
  BY <1>1, RunUpdated DEF RunTo
<1>3. r = Latest /\ ~AllDone /\ destroyed = FALSE
  BY <1>1 DEF Sequential, AllDone, TypeOK
<1>4. Sequential'
  BY <1>1, <1>2, <1>3 DEF Sequential, RunTo
<1>5. TypeOK'
  BY <1>1, <1>2 DEF TypeOK, RunTo, locals, Latest
<1>6. ASSUME NEW h \in Host PROVE StartOK(h)'
  <2>1. StartOK(h) /\ pc[h] \notin {"entry", "args", "table", "launch"}
    BY <1>1, <1>3 DEF StartOK
  <2> QED BY <1>2, <1>3, <2>1 DEF StartOK, RunTo, locals
<1>7. CountersOfLastRun'
  BY <1>1 DEF CountersOfLastRun, RunTo
<1> QED BY <1>2, <1>3, <1>4, <1>5, <1>6, <1>7

LEMMA RunBeginsInv ==
  ASSUME IInv, NEW r \in DOMAIN runs, RunBegins(r)
  PROVE  IInv'
<1> DEFINE x == [runs[r] EXCEPT !.read = regs, !.state = "running"]
<1>1. TypeOK /\ ReadsItsOwn /\ runs[r].state = "launched" /\ counters' = counters
  BY DEF IInv, RunBegins
<1>2. x \in RunRecord /\ counters \in Counters /\ runs[r] \in RunRecord
  BY <1>1, RunTyped DEF TypeOK
<1>3. RunTo(r, x)
  BY <1>2 DEF RunBegins, RunTo, RunRecord
<1>4. /\ TypeOK' /\ Sequential' /\ CountersOfLastRun' /\ \A h \in Host : StartOK(h)'
      /\ DOMAIN runs' = DOMAIN runs
      /\ \A q \in DOMAIN runs : runs'[q] = IF q = r THEN x ELSE runs[q]
  BY <1>1, <1>2, <1>3, RunToInv
<1>5. x.state = "running" /\ x.read = regs /\ x.asked = runs[r].asked
  BY <1>2 DEF RunRecord
<1>6. ReadsItsOwn'
  <2>1. \A p : Whole(p)' = Whole(p)
    BY DEF Whole
  <2>2. regs' = regs /\ regs = Whole(x.asked)
    BY <1>1, <1>3, <1>5 DEF ReadsItsOwn, RunTo
  <2> QED BY <1>1, <1>4, <1>5, <2>1, <2>2 DEF ReadsItsOwn
<1>7. Counted'
  BY <1>4, <1>5 DEF Counted, AllDone
<1> QED BY <1>4, <1>6, <1>7 DEF IInv

LEMMA RunCountsInv ==
  ASSUME IInv, NEW r \in DOMAIN runs, RunCounts(r)
  PROVE  IInv'
<1>1. /\ TypeOK /\ Sequential /\ ReadsItsOwn /\ CountersOfLastRun /\ \A h \in Host : StartOK(h)
      /\ runs[r].state = "running" /\ counters' = [run |-> r, final |-> FALSE]
      /\ UNCHANGED <<regs, future, runs, cache, peeked, destroyed, pc, locals, ret>>
  BY DEF IInv, RunCounts
<1>2. counters' \in Counters
  BY <1>1, RunsTyped, DeviceAssumption DEF Counters, TypeOK, Latest
<1>3. Latest' = Latest /\ AllDone' = AllDone /\ ~AllDone
  BY <1>1 DEF Latest, AllDone
<1>4. TypeOK'
  BY <1>1, <1>2 DEF TypeOK, locals
<1>5. Sequential' /\ ReadsItsOwn' /\ Counted' /\ CountersOfLastRun'
  BY <1>1, <1>3 DEF Sequential, ReadsItsOwn, Counted, CountersOfLastRun, Whole
<1>6. \A h \in Host : StartOK(h)'
  BY <1>1, <1>3 DEF StartOK, locals
<1> QED BY <1>4, <1>5, <1>6 DEF IInv

LEMMA RunEndsInv ==
  ASSUME IInv, NEW r \in DOMAIN runs, RunEnds(r)
  PROVE  IInv'
<1> DEFINE x == [runs[r] EXCEPT !.state = "done"]
<1>1. /\ TypeOK /\ ReadsItsOwn /\ runs[r].state = "running"
      /\ counters' = [run |-> r, final |-> TRUE]
  BY DEF IInv, RunEnds
<1>2. x \in RunRecord /\ runs[r] \in RunRecord
  BY <1>1, RunTyped
<1>3. RunTo(r, x)
  BY <1>2 DEF RunEnds, RunTo, RunRecord
<1>4. counters' \in Counters
  BY <1>1, RunsTyped, DeviceAssumption DEF Counters, TypeOK, Latest
<1>5. /\ TypeOK' /\ Sequential' /\ CountersOfLastRun' /\ \A h \in Host : StartOK(h)'
      /\ r = Latest /\ Latest' = Latest /\ DOMAIN runs' = DOMAIN runs
      /\ \A q \in DOMAIN runs : runs'[q] = IF q = r THEN x ELSE runs[q]
  BY <1>1, <1>2, <1>3, <1>4, RunToInv
<1>6. x.state = "done"
  BY <1>2 DEF RunRecord
<1>7. ReadsItsOwn'
  <2>1. \A p : Whole(p)' = Whole(p)
    BY DEF Whole
  <2>2. regs' = regs
    BY <1>3 DEF RunTo
  <2> QED BY <1>1, <1>5, <1>6, <2>1, <2>2 DEF ReadsItsOwn
<1>8. Counted'
  BY <1>1, <1>5 DEF Counted
<1> QED BY <1>5, <1>7, <1>8 DEF IInv

----------------------------------------------------------------------------
(***************************************************************************)
(* One host thread: IInv is an invariant, for any number of runs, timeouts *)
(* and cores.                                                              *)
(***************************************************************************)
LEMMA NextInv ==
  ASSUME OneHost, IInv, [Next]_vars
  PROVE  IInv'
<1>1. CASE UNCHANGED vars
  <2>1. UNCHANGED <<regs, future, runs, counters, cache, peeked, destroyed, pc, job, old, secs,
                    slept, ret>>
    BY <1>1 DEF vars, device, locals
  <2>2. Latest' = Latest /\ AllDone' = AllDone
    BY <2>1 DEF Latest, AllDone
  <2>3. TypeOK' /\ CountersOfLastRun'
    BY <2>1 DEF IInv, TypeOK, CountersOfLastRun
  <2>4. Sequential' /\ ReadsItsOwn' /\ Counted'
    BY <2>1, <2>2 DEF IInv, Sequential, ReadsItsOwn, Counted, Whole
  <2>5. \A h \in Host : StartOK(h)'
    BY <2>1, <2>2 DEF IInv, StartOK
  <2> QED BY <2>3, <2>4, <2>5 DEF IInv
<1>2. ASSUME NEW h \in Host, NewCall(h) PROVE IInv'
  BY <1>2, StartCallInv, WaitCallInv, QueryInv, DestroyInv DEF NewCall
<1>3. ASSUME NEW h \in Host, Step(h) PROVE IInv'
  BY <1>3, WaitPriorInv, WriteEntryInv, WriteArgsInv, WriteTableInv, LaunchInv, AssignInv,
     ClearCacheInv, WaitReadyInv, WaitSecondInv DEF Step
<1>4. ASSUME NEW r \in DOMAIN runs, Run(r) PROVE IInv'
  BY <1>4, RunBeginsInv, RunCountsInv, RunEndsInv DEF Run
<1> QED BY <1>1, <1>2, <1>3, <1>4 DEF Next

(***************************************************************************)
(* The inductive invariant: whatever is started, waited for and asked, the *)
(* registers and the future are those of the latest run.                   *)
(***************************************************************************)
THEOREM Invariance ==
  ASSUME OneHost
  PROVE  Spec => []IInv
<1>1. Init => IInv
  BY InitInv
<1>2. IInv /\ [Next]_vars => IInv'
  BY NextInv
<1> QED BY <1>1, <1>2, PTL DEF Spec

(***************************************************************************)
(* Types of the registers, the runs, the future and the calls; also that   *)
(* the one host never has more runs than MaxRuns.                          *)
(***************************************************************************)
THEOREM TypeCorrect ==
  ASSUME OneHost
  PROVE  Spec => []TypeOK
<1>1. IInv => TypeOK
  BY DEF IInv
<1> QED BY <1>1, Invariance, PTL

(***************************************************************************)
(* "ensure prior run completed" (start): called from one thread, it does.  *)
(***************************************************************************)
THEOREM OneRunAtATime ==
  ASSUME OneHost
  PROVE  Spec => []OneRun
<1>1. IInv => OneRun
  <2> SUFFICES ASSUME IInv PROVE OneRun
    OBVIOUS
  <2>1. TypeOK /\ Sequential /\ DOMAIN runs = 1 .. Latest /\ Latest \in Nat
    BY RunsTyped DEF IInv
  <2>2. \A r \in Unfinished : r = Latest /\ ~AllDone
    BY <2>1 DEF Unfinished, Done, Sequential, AllDone
  <2>3. \A q, r \in Unfinished : q = r
    BY <2>2
  <2>4. destroyed => Unfinished = {}
    BY <2>1, <2>2 DEF Sequential
  <2> QED BY <2>3, <2>4 DEF OneRun
<1> QED BY <1>1, Invariance, PTL

(***************************************************************************)
(* The counters that mpm_query keeps are those of the last run, unless the *)
(* query came too early or the core lies too far.                          *)
(***************************************************************************)
THEOREM CountersAreOfLastRun ==
  ASSUME OneHost
  PROVE  Spec => []CountersOfLastRun
<1>1. IInv => CountersOfLastRun
  BY DEF IInv
<1> QED BY <1>1, Invariance, PTL

----------------------------------------------------------------------------
(* The refinement of DeviceRuns.                                           *)

\* What DeviceRuns sees, by the state of the latest run
LEMMA Mapping ==
  ASSUME IInv
  PROVE  /\ AllDone => Asked = Blank /\ Running = Blank
         /\ \A r \in DOMAIN runs : runs[r].state = "launched" =>
              /\ Asked = Whole(runs[r].asked) /\ Running = Blank
              /\ runs[r].asked \in Param
         /\ \A r \in DOMAIN runs : runs[r].state = "running" =>
              /\ Running = Whole(runs[r].asked) /\ Asked = Blank
              /\ runs[r].asked \in Param
<1>1. /\ Sequential /\ ReadsItsOwn /\ DOMAIN runs = 1 .. Latest
      /\ \A r \in DOMAIN runs : runs[r] \in RunRecord
  BY RunsTyped DEF IInv
<1>2. ASSUME AllDone PROVE Asked = Blank /\ Running = Blank
  <2>1. In("launched") = {} /\ In("running") = {}
    BY <1>2 DEF In, AllDone
  <2> QED BY <2>1 DEF Asked, Running
<1>3. ASSUME NEW r \in DOMAIN runs, runs[r].state = "launched"
      PROVE  Asked = Whole(runs[r].asked) /\ Running = Blank /\ runs[r].asked \in Param
  <2>1. In("launched") = {r} /\ In("running") = {}
    BY <1>1, <1>3 DEF In, Sequential
  <2> QED BY <1>1, <2>1 DEF Asked, Running, RunRecord
<1>4. ASSUME NEW r \in DOMAIN runs, runs[r].state = "running"
      PROVE  Running = Whole(runs[r].asked) /\ Asked = Blank /\ runs[r].asked \in Param
  <2>1. In("running") = {r} /\ In("launched") = {}
    BY <1>1, <1>4 DEF In, Sequential
  <2>2. runs[r].read = Whole(runs[r].asked)
    BY <1>1, <1>4 DEF ReadsItsOwn
  <2> QED BY <1>1, <2>1, <2>2 DEF Asked, Running, RunRecord
<1> QED BY <1>2, <1>3, <1>4

\* What does not touch the runs is invisible.
LEMMA Stutter ==
  ASSUME runs' = runs
  PROVE  Asked' = Asked /\ Running' = Running
BY DEF Asked, Running, In, Whole, Blank

LEMMA LaunchRefines ==
  ASSUME OneHost, IInv, IInv', NEW h \in Host, Launch(h)
  PROVE  \E p \in {Whole(q) : q \in Param} : DR!Request(p)
<1>1. TypeOK /\ StartOK(h) /\ pc[h] = "launch"
  BY DEF IInv, Launch
<1>2. AllDone /\ job[h] \in Param
  BY <1>1 DEF StartOK, Starting
<1> DEFINE x == [asked |-> job[h], read |-> Blank, state |-> "launched"]
<1>3. /\ DOMAIN runs' = DOMAIN runs \cup {Latest'} /\ runs'[Latest'] = x
      /\ \A q \in DOMAIN runs : runs'[q] = runs[q]
  BY <1>1, <1>2, RunAppended, ParametersTyped DEF Launch
<1>4. x.state = "launched" /\ x.asked = job[h]
  OBVIOUS
<1>5. Asked' = Whole(job[h]) /\ Running' = Blank
  <2>1. In("launched")' = {Latest'} /\ In("running")' = {}
    BY <1>2, <1>3, <1>4 DEF In, AllDone
  <2> QED BY <1>3, <1>4, <2>1 DEF Asked, Running, Whole, Blank
<1>6. Asked = Blank /\ Running = Blank
  BY <1>2, Mapping
<1>7. DR!Request(Whole(job[h]))
  BY <1>5, <1>6 DEF DR!Request
<1> QED BY <1>2, <1>7

LEMMA BeginRefines ==
  ASSUME IInv, NEW r \in DOMAIN runs, RunBegins(r)
  PROVE  DR!Begin
<1> DEFINE x == [runs[r] EXCEPT !.read = regs, !.state = "running"]
<1>1. /\ TypeOK /\ Sequential /\ ReadsItsOwn /\ runs[r].state = "launched"
      /\ DOMAIN runs = 1 .. Latest /\ runs[r] \in RunRecord
  BY RunsTyped DEF IInv, RunBegins
<1>2. x \in RunRecord /\ runs' = [runs EXCEPT ![r] = x]
  BY <1>1, RunTyped DEF RunBegins
<1>3. /\ DOMAIN runs' = DOMAIN runs
      /\ \A q \in DOMAIN runs : runs'[q] = IF q = r THEN x ELSE runs[q]
  BY <1>1, <1>2, RunUpdated
<1>4. x.state = "running" /\ x.read = regs /\ regs = Whole(runs[r].asked) /\ runs[r].asked \in Param
  BY <1>1 DEF RunRecord, ReadsItsOwn
<1>5. Asked' = Blank /\ Running' = Whole(runs[r].asked)
  <2>0. \A q \in DOMAIN runs : q # r => runs[q].state = "done"
    BY <1>1 DEF Sequential
  <2>1. /\ runs'[r].state = "running"
        /\ \A q \in DOMAIN runs : q # r => runs'[q].state = "done"
    BY <1>3, <1>4, <2>0
  <2>2. In("running")' = {r}
    BY <1>3, <2>1 DEF In
  <2>3. In("launched")' = {}
    BY <1>3, <2>1 DEF In
  <2> QED BY <1>3, <1>4, <2>2, <2>3 DEF Asked, Running, Whole, Blank
<1>6. Asked = Whole(runs[r].asked) /\ Running = Blank
  BY <1>1, Mapping
<1>7. Whole(runs[r].asked) # Blank
  BY <1>4, ParametersTyped
<1> QED BY <1>5, <1>6, <1>7 DEF DR!Begin

LEMMA EndRefines ==
  ASSUME IInv, NEW r \in DOMAIN runs, RunEnds(r)
  PROVE  DR!End
<1> DEFINE x == [runs[r] EXCEPT !.state = "done"]
<1>1. /\ TypeOK /\ Sequential /\ runs[r].state = "running"
      /\ DOMAIN runs = 1 .. Latest /\ runs[r] \in RunRecord
  BY RunsTyped DEF IInv, RunEnds
<1>2. x \in RunRecord /\ runs' = [runs EXCEPT ![r] = x]
  BY <1>1, RunTyped DEF RunEnds
<1>3. /\ DOMAIN runs' = DOMAIN runs
      /\ \A q \in DOMAIN runs : runs'[q] = IF q = r THEN x ELSE runs[q]
  BY <1>1, <1>2, RunUpdated
<1>4. x.state = "done"
  BY <1>1 DEF RunRecord
<1>5. Asked' = Blank /\ Running' = Blank
  <2>1. In("running")' = {} /\ In("launched")' = {}
    BY <1>1, <1>3, <1>4 DEF In, Sequential
  <2> QED BY <2>1 DEF Asked, Running, Blank
<1>6. Asked = Blank /\ Running = Whole(runs[r].asked) /\ runs[r].asked \in Param
  BY <1>1, Mapping
<1> QED BY <1>5, <1>6, ParametersTyped DEF DR!End

LEMMA InitRefines == Init => DR!Init
<1> SUFFICES ASSUME Init PROVE DR!Init
  OBVIOUS
<1>1. runs = <<>>
  BY DEF Init
<1>2. In("launched") = {} /\ In("running") = {}
  BY <1>1 DEF In
<1> QED BY <1>2 DEF Asked, Running, DR!Init

LEMMA NextRefines ==
  ASSUME OneHost, IInv, IInv', [Next]_vars
  PROVE  [DR!Next]_<<Asked, Running>>
<1>1. CASE UNCHANGED vars
  BY <1>1, Stutter DEF vars, device
<1>2. ASSUME NEW h \in Host, NewCall(h) PROVE runs' = runs
  BY <1>2 DEF NewCall, StartCall, WaitCall, Query, Destroy, device
<1>3. ASSUME NEW h \in Host, Step(h), ~Launch(h) PROVE runs' = runs
  BY <1>3 DEF Step, WaitPrior, WriteEntry, WriteArgs, WriteTable, Write, Assign, ClearCache,
     WaitReady, WaitSecond, device
<1>4. ASSUME NEW h \in Host, Launch(h) PROVE DR!Next
  BY <1>4, LaunchRefines DEF DR!Next
<1>5. ASSUME NEW r \in DOMAIN runs, Run(r) PROVE DR!Next \/ runs' = runs
  BY <1>5, BeginRefines, EndRefines DEF Run, RunCounts, DR!Next
<1> QED BY <1>1, <1>2, <1>3, <1>4, <1>5, Stutter DEF Next

(***************************************************************************)
(* From one thread, start, the future and the run together implement       *)
(* DeviceRuns: every run has the entry, the arguments and the page table   *)
(* of its own start.                                                       *)
(***************************************************************************)
THEOREM Refinement ==
  ASSUME OneHost
  PROVE  Spec => ImplementsDeviceRuns
<1>1. Init => DR!Init
  BY InitRefines
<1>2. IInv /\ IInv' /\ [Next]_vars => [DR!Next]_<<Asked, Running>>
  BY NextRefines
<1> QED BY <1>1, <1>2, Invariance, PTL DEF Spec, ImplementsDeviceRuns, DR!Spec

----------------------------------------------------------------------------
(***************************************************************************)
(* ready_wait, from any number of threads.  The seconds that are left and  *)
(* the seconds it has waited add up to the timeout, rounded down.          *)
(***************************************************************************)
Answers == {"none", "started", "ready", "timeout", "nullopt", "counters"}

WaitOK(h) ==
  /\ pc[h] = "wait" =>
       job[h] \in Nat /\ ret[h] = "none" /\ slept[h] + secs[h] = job[h] \div 1000
  /\ pc[h] = "idle" /\ ret[h] = "timeout" =>
       job[h] \in Nat /\ slept[h] = job[h] \div 1000 + 1
  /\ pc[h] \in Starting => ret[h] = "none"

WInv ==
  /\ pc \in [Host -> Starting \cup {"idle", "wait"}]
  /\ job \in [Host -> Param \cup Nat] /\ ret \in [Host -> Answers]
  /\ secs \in [Host -> Nat] /\ slept \in [Host -> Nat]
  /\ \A h \in Host : WaitOK(h)

LEMMA WaitInit == Init => WInv
<1> SUFFICES ASSUME Init PROVE WInv
  OBVIOUS
<1>1. /\ pc = [h \in Host |-> "idle"] /\ ret = [h \in Host |-> "none"]
      /\ job = [h \in Host |-> 0] /\ secs = [h \in Host |-> 0] /\ slept = [h \in Host |-> 0]
  BY DEF Init
<1>2. \A h \in Host : WaitOK(h)
  BY <1>1 DEF WaitOK, Starting
<1> QED BY <1>1, <1>2 DEF WInv, Answers

\* A step of thread h gives it new locals and leaves those of the others.
Becomes(h, p, j, a, n, k) ==
  /\ pc' = [pc EXCEPT ![h] = p] /\ job' = [job EXCEPT ![h] = j]
  /\ ret' = [ret EXCEPT ![h] = a] /\ secs' = [secs EXCEPT ![h] = n]
  /\ slept' = [slept EXCEPT ![h] = k]

Fits(p, j, a, n, k) ==
  /\ p \in Starting \cup {"idle", "wait"} /\ j \in Param \cup Nat
  /\ a \in Answers /\ n \in Nat /\ k \in Nat
  /\ p = "wait" => j \in Nat /\ a = "none" /\ k + n = j \div 1000
  /\ p = "idle" /\ a = "timeout" => j \in Nat /\ k = j \div 1000 + 1
  /\ p \in Starting => a = "none"

LEMMA WaitStep ==
  ASSUME WInv, NEW h \in Host, NEW p, NEW j, NEW a, NEW n, NEW k,
         Becomes(h, p, j, a, n, k), Fits(p, j, a, n, k)
  PROVE  WInv'
<1>1. /\ pc \in [Host -> Starting \cup {"idle", "wait"}] /\ job \in [Host -> Param \cup Nat]
      /\ ret \in [Host -> Answers] /\ secs \in [Host -> Nat] /\ slept \in [Host -> Nat]
  BY DEF WInv
<1>2. /\ pc' \in [Host -> Starting \cup {"idle", "wait"}] /\ job' \in [Host -> Param \cup Nat]
      /\ ret' \in [Host -> Answers] /\ secs' \in [Host -> Nat] /\ slept' \in [Host -> Nat]
  BY <1>1 DEF Becomes, Fits
<1>3. /\ pc'[h] = p /\ job'[h] = j /\ ret'[h] = a /\ secs'[h] = n /\ slept'[h] = k
      /\ \A g \in Host : g # h => /\ pc'[g] = pc[g] /\ job'[g] = job[g] /\ ret'[g] = ret[g]
                                  /\ secs'[g] = secs[g] /\ slept'[g] = slept[g]
  BY <1>1 DEF Becomes
<1>4. ASSUME NEW g \in Host PROVE WaitOK(g)'
  <2>1. CASE g = h
    BY <1>3, <2>1 DEF WaitOK, Fits
  <2>2. CASE g # h
    BY <1>3, <2>2 DEF WInv, WaitOK
  <2> QED BY <2>1, <2>2
<1> QED BY <1>2, <1>4 DEF WInv

LEMMA WaitTyped ==
  ASSUME WInv, NEW h \in Host
  PROVE  /\ pc[h] \in Starting \cup {"idle", "wait"} /\ job[h] \in Param \cup Nat
         /\ ret[h] \in Answers /\ secs[h] \in Nat /\ slept[h] \in Nat /\ WaitOK(h)
         /\ pc = [pc EXCEPT ![h] = pc[h]] /\ job = [job EXCEPT ![h] = job[h]]
         /\ ret = [ret EXCEPT ![h] = ret[h]] /\ secs = [secs EXCEPT ![h] = secs[h]]
         /\ slept = [slept EXCEPT ![h] = slept[h]]
BY DEF WInv

\* start, from its first step to the last but one, and its last
LEMMA WaitStarts ==
  ASSUME WInv, NEW h \in Host, NEW p \in Starting,
         pc[h] \in Starting, pc' = [pc EXCEPT ![h] = p], UNCHANGED <<job, secs, slept, ret>>
  PROVE  WInv'
<1>1. /\ job[h] \in Param \cup Nat /\ ret[h] = "none" /\ secs[h] \in Nat /\ slept[h] \in Nat
      /\ job' = [job EXCEPT ![h] = job[h]] /\ ret' = [ret EXCEPT ![h] = ret[h]]
      /\ secs' = [secs EXCEPT ![h] = secs[h]] /\ slept' = [slept EXCEPT ![h] = slept[h]]
      /\ ret[h] \in Answers
  BY WaitTyped DEF WaitOK
<1>2. p # "idle" /\ p # "wait"
  BY DEF Starting
<1>3. Becomes(h, p, job[h], ret[h], secs[h], slept[h])
  BY <1>1 DEF Becomes
<1>4. Fits(p, job[h], ret[h], secs[h], slept[h])
  BY <1>1, <1>2 DEF Fits
<1> QED BY <1>3, <1>4, WaitStep

\* A call that answers anything but "timeout"
LEMMA WaitAnswers ==
  ASSUME WInv, NEW h \in Host, NEW j \in Param \cup Nat, NEW a \in Answers, a # "timeout",
         NEW n \in Nat, NEW k \in Nat, Becomes(h, "idle", j, a, n, k)
  PROVE  WInv'
<1>1. Fits("idle", j, a, n, k)
  BY DEF Fits, Starting
<1> QED BY <1>1, WaitStep

LEMMA StartCallWaits ==
  ASSUME WInv, NEW h \in Host, NEW p \in Param, StartCall(h, p)
  PROVE  WInv'
<1>1. /\ pc' = [pc EXCEPT ![h] = "prior"] /\ job' = [job EXCEPT ![h] = p]
      /\ ret' = [ret EXCEPT ![h] = "none"] /\ slept' = [slept EXCEPT ![h] = 0]
      /\ secs' = secs
  BY DEF StartCall, Goto
<1>2. secs[h] \in Nat /\ secs' = [secs EXCEPT ![h] = secs[h]]
  BY <1>1, WaitTyped
<1>3. Becomes(h, "prior", p, "none", secs[h], 0)
  BY <1>1, <1>2 DEF Becomes
<1>4. Fits("prior", p, "none", secs[h], 0)
  BY <1>2 DEF Fits, Starting, Answers
<1> QED BY <1>3, <1>4, WaitStep

LEMMA WaitCallWaits ==
  ASSUME WInv, NEW h \in Host, NEW ms \in Timeouts, WaitCall(h, ms)
  PROVE  WInv'
<1>1. job' = [job EXCEPT ![h] = ms] /\ slept' = [slept EXCEPT ![h] = 0]
  BY DEF WaitCall
<1>2. ms \in Nat /\ ms \div 1000 \in Nat /\ 0 + ms \div 1000 = ms \div 1000
  BY DeviceAssumption
<1>3. "ready" \in Answers /\ "none" \in Answers /\ "wait" \notin Starting
  BY DEF Answers, Starting
<1>4. CASE future = 0
  <2>1. /\ pc' = [pc EXCEPT ![h] = "idle"] /\ ret' = [ret EXCEPT ![h] = "ready"]
        /\ secs' = secs
    BY <1>4 DEF WaitCall, Goto
  <2>2. secs[h] \in Nat /\ secs' = [secs EXCEPT ![h] = secs[h]]
    BY <2>1, WaitTyped
  <2>3. Becomes(h, "idle", ms, "ready", secs[h], 0)
    BY <1>1, <2>1, <2>2 DEF Becomes
  <2> QED BY <1>2, <1>3, <2>2, <2>3, WaitAnswers
<1>5. CASE future # 0
  <2>1. /\ pc' = [pc EXCEPT ![h] = "wait"] /\ ret' = [ret EXCEPT ![h] = "none"]
        /\ secs' = [secs EXCEPT ![h] = ms \div 1000]
    BY <1>5 DEF WaitCall, Goto
  <2>2. Becomes(h, "wait", ms, "none", ms \div 1000, 0)
    BY <1>1, <2>1 DEF Becomes
  <2>3. Fits("wait", ms, "none", ms \div 1000, 0)
    BY <1>2, <1>3 DEF Fits
  <2> QED BY <2>2, <2>3, WaitStep
<1> QED BY <1>4, <1>5

LEMMA WaitSecondWaits ==
  ASSUME WInv, NEW h \in Host, WaitSecond(h)
  PROVE  WInv'
<1>1. /\ pc[h] = "wait" /\ slept' = [slept EXCEPT ![h] = slept[h] + 1] /\ job' = job
  BY DEF WaitSecond
<1>2. /\ job[h] \in Nat /\ ret[h] = "none" /\ slept[h] + secs[h] = job[h] \div 1000
      /\ secs[h] \in Nat /\ slept[h] \in Nat /\ slept[h] + 1 \in Nat /\ job' = [job EXCEPT ![h] = job[h]]
      /\ ret = [ret EXCEPT ![h] = ret[h]] /\ secs = [secs EXCEPT ![h] = secs[h]]
      /\ pc = [pc EXCEPT ![h] = "wait"]
  BY <1>1, WaitTyped DEF WaitOK
<1>3. "timeout" \in Answers /\ "none" \in Answers /\ "wait" \notin Starting /\ "idle" \notin Starting
  BY DEF Answers, Starting
<1>4. CASE secs[h] = 0
  <2>1. /\ pc' = [pc EXCEPT ![h] = "idle"] /\ ret' = [ret EXCEPT ![h] = "timeout"]
        /\ secs' = [secs EXCEPT ![h] = secs[h]]
    BY <1>2, <1>4 DEF WaitSecond, Goto
  <2>2. slept[h] + 1 = job[h] \div 1000 + 1
    BY <1>2, <1>4
  <2>3. Becomes(h, "idle", job[h], "timeout", secs[h], slept[h] + 1)
    BY <1>1, <1>2, <2>1 DEF Becomes
  <2>4. Fits("idle", job[h], "timeout", secs[h], slept[h] + 1)
    BY <1>2, <1>3, <2>2 DEF Fits
  <2> QED BY <2>3, <2>4, WaitStep
<1>5. CASE secs[h] # 0
  <2>1. /\ pc' = [pc EXCEPT ![h] = "wait"] /\ ret' = [ret EXCEPT ![h] = "none"]
        /\ secs' = [secs EXCEPT ![h] = secs[h] - 1]
    BY <1>2, <1>5 DEF WaitSecond
  <2>2. secs[h] - 1 \in Nat /\ (slept[h] + 1) + (secs[h] - 1) = job[h] \div 1000
    BY <1>2, <1>5
  <2>3. Becomes(h, "wait", job[h], "none", secs[h] - 1, slept[h] + 1)
    BY <1>1, <1>2, <2>1 DEF Becomes
  <2>4. Fits("wait", job[h], "none", secs[h] - 1, slept[h] + 1)
    BY <1>2, <1>3, <2>2 DEF Fits
  <2> QED BY <2>3, <2>4, WaitStep
<1> QED BY <1>4, <1>5

LEMMA WaitNext == WInv /\ [Next]_vars => WInv'
<1> SUFFICES ASSUME WInv, [Next]_vars PROVE WInv'
  OBVIOUS
<1>1. CASE UNCHANGED <<pc, job, ret, secs, slept>>
  BY <1>1 DEF WInv, WaitOK
<1>2. ASSUME NEW h \in Host, NewCall(h) PROVE WInv'
  <2>1. ASSUME NEW c \in Core, Query(h, c) PROVE WInv'
    <3>1. Becomes(h, "idle", 0, "nullopt", 0, 0) \/ Becomes(h, "idle", 0, "counters", 0, 0)
      BY <2>1 DEF Query, Answer, Goto, Becomes
    <3> QED BY <3>1, WaitAnswers DEF Answers
  <2>2. ASSUME Destroy(h) PROVE WInv'
    BY <1>1, <2>2 DEF Destroy, locals
  <2> QED BY <1>2, <2>1, <2>2, StartCallWaits, WaitCallWaits DEF NewCall
<1>3. ASSUME NEW h \in Host, Step(h) PROVE WInv'
  <2>1. CASE WaitPrior(h)
    BY <2>1, WaitStarts DEF WaitPrior, Goto, locals, Starting
  <2>2. CASE WriteEntry(h) \/ WriteArgs(h) \/ WriteTable(h)
    BY <2>2, WaitStarts DEF WriteEntry, WriteArgs, WriteTable, Write, Goto, locals, Starting
  <2>3. CASE Launch(h) \/ Assign(h)
    BY <2>3, WaitStarts DEF Launch, Assign, Goto, Starting
  <2>4. CASE ClearCache(h)
    <3>1. /\ pc' = [pc EXCEPT ![h] = "idle"] /\ job' = [job EXCEPT ![h] = 0]
          /\ secs' = [secs EXCEPT ![h] = 0] /\ slept' = slept
          /\ ret' = [ret EXCEPT ![h] = "started"]
      BY <2>4 DEF ClearCache, Answer, Goto
    <3>2. slept[h] \in Nat /\ slept' = [slept EXCEPT ![h] = slept[h]]
      BY <3>1, WaitTyped
    <3>3. Becomes(h, "idle", 0, "started", 0, slept[h])
      BY <3>1, <3>2 DEF Becomes
    <3> QED BY <3>2, <3>3, WaitAnswers DEF Answers
  <2>5. CASE WaitReady(h)
    <3>1. /\ pc' = [pc EXCEPT ![h] = "idle"] /\ ret' = [ret EXCEPT ![h] = "ready"]
          /\ job' = job /\ secs' = secs /\ slept' = slept
      BY <2>5 DEF WaitReady, Goto, locals
    <3>2. /\ job[h] \in Param \cup Nat /\ secs[h] \in Nat /\ slept[h] \in Nat
          /\ job' = [job EXCEPT ![h] = job[h]] /\ secs' = [secs EXCEPT ![h] = secs[h]]
          /\ slept' = [slept EXCEPT ![h] = slept[h]]
      BY <3>1, WaitTyped
    <3>3. Becomes(h, "idle", job[h], "ready", secs[h], slept[h])
      BY <3>1, <3>2 DEF Becomes
    <3> QED BY <3>2, <3>3, WaitAnswers DEF Answers
  <2>6. CASE WaitSecond(h)
    BY <2>6, WaitSecondWaits
  <2> QED BY <1>3, <2>1, <2>2, <2>3, <2>4, <2>5, <2>6 DEF Step
<1>4. ASSUME NEW r \in DOMAIN runs, Run(r) PROVE WInv'
  BY <1>1, <1>4 DEF Run, RunBegins, RunCounts, RunEnds, locals
<1> QED BY <1>1, <1>2, <1>3, <1>4 DEF Next, vars, locals

LEMMA WaitSound == WInv => Timely
<1> SUFFICES ASSUME WInv, NEW h \in Host, pc[h] = "idle", ret[h] = "timeout"
             PROVE  1000 * slept[h] > job[h] /\ 1000 * (slept[h] - 1) <= job[h]
  BY DEF Timely
<1>1. job[h] \in Nat /\ slept[h] = job[h] \div 1000 + 1
  BY WaitTyped DEF WaitOK
<1>2. ASSUME NEW j \in Nat PROVE 1000 * (j \div 1000 + 1) > j /\ 1000 * (j \div 1000) <= j
  OBVIOUS
<1> QED BY <1>1, <1>2

(***************************************************************************)
(* ready_wait answers -1 only when the timeout has passed, and at most one *)
(* second after it, whatever other threads do.                             *)
(***************************************************************************)
THEOREM TimeoutsAreTimely == Spec => []Timely
<1> QED BY WaitInit, WaitNext, WaitSound, PTL DEF Spec

\* What an answer of 0 promises the one host, until it starts a run.
Ready(h) == pc[h] = "idle" /\ ret[h] = "ready"
ReadyOK  == \A h \in Host : Ready(h) => AllDone

LEMMA ReadyStep ==
  ASSUME OneHost, IInv, ReadyOK, NEW h \in Host, NewCall(h) \/ Step(h)
  PROVE  ReadyOK'
<1>1. /\ \A g \in Host : g = h
      /\ StartOK(h) /\ ReadyOK
      /\ pc \in [Host -> Starting \cup {"idle", "wait"}]
      /\ ret \in [Host -> {"none", "started", "ready", "timeout", "nullopt", "counters"}]
  BY DEF OneHost, IInv, TypeOK
<1> SUFFICES ASSUME Ready(h)' PROVE AllDone'
  BY <1>1 DEF ReadyOK
<1>2. \A p : Goto(h, p) => pc'[h] = p
  BY <1>1 DEF Goto
<1>3. \A a : ret' = [ret EXCEPT ![h] = a] => ret'[h] = a
  BY <1>1
<1>4. ASSUME runs' = runs, AllDone PROVE AllDone'
  BY <1>4 DEF AllDone
<1>5. ASSUME NEW ms \in Timeouts, WaitCall(h, ms) PROVE AllDone'
  <2>1. runs' = runs /\ pc[h] = "idle"
    BY <1>5 DEF WaitCall, device, Open
  <2>2. future = 0
    BY <1>2, <1>5 DEF WaitCall, Ready
  <2>3. Latest = 0 /\ DOMAIN runs = 1 .. Latest
    BY <1>1, <2>1, <2>2, RunsTyped DEF StartOK, IInv
  <2>4. AllDone
    BY <2>3 DEF AllDone
  <2> QED BY <1>4, <2>1, <2>4
<1>6. CASE WaitReady(h)
  <2>1. runs' = runs /\ pc[h] = "wait" /\ PriorDone
    BY <1>6 DEF WaitReady, device
  <2>2. future = Latest /\ DOMAIN runs = 1 .. Latest /\ Latest \in Nat /\ Sequential
    BY <1>1, <2>1, RunsTyped DEF StartOK, IInv
  <2>3. AllDone
    BY <2>1, <2>2 DEF PriorDone, Done, Sequential, AllDone
  <2> QED BY <1>4, <2>1, <2>3
<1>7. CASE Destroy(h)
  <2>1. runs' = runs /\ Ready(h)
    BY <1>7 DEF Destroy, device, Ready
  <2> QED BY <1>1, <1>4, <2>1 DEF ReadyOK
<1>8. ~\E p \in Param : StartCall(h, p)
  BY <1>2 DEF StartCall, Ready
<1>9. ~\E c \in Core : Query(h, c)
  BY <1>3 DEF Query, Answer, Ready
<1>10. ~ClearCache(h) /\ ~WaitSecond(h)
  <2>1. ~ClearCache(h)
    BY <1>3 DEF ClearCache, Answer, Ready
  <2>2. ASSUME WaitSecond(h) PROVE FALSE
    <3>1. CASE secs[h] = 0
      BY <1>3, <2>2, <3>1 DEF WaitSecond, Ready
    <3>2. CASE secs[h] # 0
      BY <2>2, <3>2 DEF WaitSecond, Ready
    <3> QED BY <3>1, <3>2
  <2> QED BY <2>1, <2>2
<1>11. /\ ~WaitPrior(h) /\ ~WriteEntry(h) /\ ~WriteArgs(h) /\ ~WriteTable(h)
       /\ ~Launch(h) /\ ~Assign(h)
  BY <1>2 DEF WaitPrior, WriteEntry, WriteArgs, WriteTable, Write, Launch, Assign, Ready
<1> QED BY <1>5, <1>6, <1>7, <1>8, <1>9, <1>10, <1>11 DEF NewCall, Step

LEMMA ReadyNext ==
  ASSUME OneHost, IInv, ReadyOK, [Next]_vars
  PROVE  ReadyOK'
<1>1. CASE UNCHANGED vars
  BY <1>1 DEF vars, device, ReadyOK, Ready, AllDone
<1>2. ASSUME NEW h \in Host, NewCall(h) \/ Step(h) PROVE ReadyOK'
  BY <1>2, ReadyStep
<1>3. ASSUME NEW r \in DOMAIN runs, Run(r) PROVE ReadyOK'
  <2>1. pc' = pc /\ ret' = ret
    BY <1>3 DEF Run, RunBegins, RunCounts, RunEnds
  <2>2. ~AllDone
    BY <1>3 DEF Run, RunBegins, RunCounts, RunEnds, AllDone
  <2> QED BY <2>1, <2>2 DEF ReadyOK, Ready
<1> QED BY <1>1, <1>2, <1>3 DEF Next

(***************************************************************************)
(* Called from one thread, ready_wait is honest (see WaitHonest): 0 means  *)
(* that the run is over, -1 that the timeout has passed.                   *)
(***************************************************************************)
THEOREM WaitIsHonest ==
  ASSUME OneHost
  PROVE  Spec => []WaitHonest
<1>1. Init => ReadyOK
  BY DEF Init, ReadyOK, Ready
<1>2. IInv /\ ReadyOK /\ [Next]_vars => ReadyOK'
  BY ReadyNext
<1>3. IInv /\ ReadyOK /\ Timely => WaitHonest
  BY DEF IInv, ReadyOK, Ready, WaitHonest, AllDone, Unfinished, Done
<1> QED BY <1>1, <1>2, <1>3, Invariance, TimeoutsAreTimely, PTL DEF Spec
=============================================================================
