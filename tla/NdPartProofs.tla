----------------------------- MODULE NdPartProofs -----------------------------
(***************************************************************************)
(* The parts that stand on their own beside the scheduler.                 *)
(*                                                                         *)
(* Whichever way a thread was left and is entered again, it finds what it  *)
(* left: for every set of threads, every depth of critical sections and    *)
(* each of the architectures.  The receive ring implements a FIFO and its  *)
(* two counts agree, for every size that divides the range of the indices, *)
(* where the waiting thread is not suspended and resumed.  And the timer   *)
(* service, for any timers, any hardware alarm and any range of times, in  *)
(* both modes: what is on the tree, that no callback comes early, and that *)
(* none is forgotten.                                                      *)
(*                                                                         *)
(* The intrusive lists, for any heads and nodes: the pointers are the      *)
(* sequences that the other modules have for them.  Last, the heap, for    *)
(* any pool: its two lists, the marks and the count of free bytes agree.   *)
(***************************************************************************)
EXTENDS NdContext, UartRing, NdTimer, NdList, NdMemHeap, SeqLemmas, FiniteSetTheorems

-----------------------------------------------------------------------------
(* Frames and stacks *)

Mark == (Task \cup {Nobody}) \X {0, 1}
FrameType == {"voluntary", "preempt", "scratch"}
Place == {"thread", "restoring"}
FrameSet ==
  [type : FrameType, masked : BOOLEAN, at : Place, kept : Mark, scratch : Mark, fore : BOOLEAN]
CpuSet ==
  [masked : BOOLEAN, at : Place \cup {"boot", "handler"},
   kept : Mark, scratch : Mark, fore : BOOLEAN]

CtxTypeOK ==
  /\ arch \in Archs
  /\ cur \in Task \cup {Nobody}
  /\ cpu \in CpuSet
  /\ stk \in [Task -> Seq(FrameSet)]
  /\ irqs \in [Task -> Seq(BOOLEAN)]
  /\ pend \in Task \cup {Nobody}
  /\ mine \in [Task -> [kept : Mark, scratch : Mark]]

\* The outermost critical section found interrupts on, those inside it found them off.
Nested(s) == \A i \in 1..Len(s) : s[i] <=> i > 1

\* A thread that goes on with these registers does not notice that it was away.
GoesOn(t, r) ==
  /\ Promised(r.kept, mine[t].kept) /\ Promised(r.scratch, mine[t].scratch)
  /\ r.masked <=> irqs[t] # <<>>
  /\ r.fore

\* A frame from which it goes on; a voluntary one holds no scratch registers.
Resumes(t, f) ==
  /\ f.at = "thread"
  /\ GoesOn(t, f)
  /\ \/ f.type = "preempt"
     \/ f.type = "voluntary" /\ arch # "m" /\ mine[t].scratch = Unspoken

\* RV32: the frame of an interrupt that came while f was being loaded.
Reenters(t, f) ==
  f.type = "preempt" /\ f.at = "restoring" /\ ~f.masked /\ irqs[t] = <<>> /\ f.fore

\* A stack of frames s from which t can go on.
Waits(t, s) ==
  \/ \E f \in FrameSet : s = <<f>> /\ Resumes(t, f)
  \/ /\ arch = "rv32"
     /\ \E f, p \in FrameSet :
          s = <<f, p>> /\ Resumes(t, f) /\ f.type = "voluntary" /\ Reenters(t, p)

Resumable(t) == Waits(t, stk[t])

\* Where the processor is, and the stack of the thread it belongs to.
BootOK ==
  cpu.at = "boot" =>
    /\ cur = Nobody /\ cpu.fore
    /\ \A t \in Task : irqs[t] = <<>> /\ Resumable(t) /\ mine[t].kept = Unspoken

ThreadOK == cpu.at = "thread" => cur \in Task /\ stk[cur] = <<>> /\ GoesOn(cur, cpu)

RestoringOK ==
  cpu.at = "restoring" =>
    /\ arch = "rv32" /\ cur \in Task /\ cpu.fore
    /\ cpu.masked <=> irqs[cur] # <<>>
    /\ \E f \in FrameSet : stk[cur] = <<f>> /\ Resumes(cur, f) /\ f.type = "voluntary"

HandlerOK ==
  cpu.at = "handler" =>
    /\ cur \in Task
    /\ arch # "m" => Resumable(cur)
    /\ arch = "a9" => cpu.fore
    /\ arch = "m" =>
         /\ ~cpu.masked /\ irqs[cur] = <<>> /\ cpu.fore /\ Promised(cpu.kept, mine[cur].kept)
         /\ \E f \in FrameSet : stk[cur] = <<f>> /\ Promised(f.scratch, mine[cur].scratch)

CtxInv ==
  /\ CtxTypeOK
  /\ \A t \in Task : Nested(irqs[t])
  /\ \A t \in Task \ {cur} : Resumable(t)
  /\ BootOK /\ ThreadOK /\ RestoringOK /\ HandlerOK

-----------------------------------------------------------------------------

\* What the stack operators do to the stacks of one and two frames there are.
LEMMA ShortStacks ==
  ASSUME NEW S, NEW f \in S, NEW p \in S
  PROVE  /\ <<f>> \in Seq(S) /\ <<f>> # <<>> /\ Last(<<f>>) = f /\ Front(<<f>>) = <<>>
         /\ <<f, p>> \in Seq(S) /\ <<f, p>> # <<>> /\ Last(<<f, p>>) = p
         /\ Front(<<f, p>>) = <<f>>
         /\ Append(<<>>, f) = <<f>> /\ Append(<<f>>, p) = <<f, p>>
         /\ <<>> \in Seq(S)
<1>1. /\ <<>> \in Seq(S) /\ <<f>> \in Seq(S) /\ <<f, p>> \in Seq(S)
      /\ Len(<<>>) = 0 /\ Len(<<f>>) = 1 /\ Len(<<f, p>>) = 2
      /\ <<f>>[1] = f /\ <<f, p>>[1] = f /\ <<f, p>>[2] = p
  OBVIOUS
<1>2. <<f>> # <<>> /\ <<f, p>> # <<>>
  BY <1>1
<1>3. Last(<<f>>) = f /\ Last(<<f, p>>) = p
  BY <1>1 DEF Last
<1>4. Front(<<f>>) = <<>>
  BY <1>1, SubSeqEmpty DEF Front
<1>5. Front(<<f, p>>) = <<f>>
  <2>1. /\ SubSeq(<<f, p>>, 1, 1) \in Seq(S) /\ Len(SubSeq(<<f, p>>, 1, 1)) = 1
        /\ SubSeq(<<f, p>>, 1, 1)[1] = f
    <3>1. \A i \in 1..1 : <<f, p>>[i] \in S
      BY <1>1
    <3> QED
      BY <3>1, <1>1, SubSeqProperties
  <2>2. Front(<<f, p>>) = SubSeq(<<f, p>>, 1, 1)
    BY <1>1 DEF Front
  <2>3. \A i \in 1..1 : SubSeq(<<f, p>>, 1, 1)[i] = <<f>>[i]
    BY <2>1, <1>1
  <2> QED
    BY <2>1, <2>2, <2>3, <1>1, SeqEqual
<1>6. Append(<<>>, f) = <<f>>
  BY <1>1, AppendProperties, SeqEqual
<1>7. Append(<<f>>, p) = <<f, p>>
  <2>1. /\ Append(<<f>>, p) \in Seq(S) /\ Len(Append(<<f>>, p)) = 2
        /\ Append(<<f>>, p)[1] = f /\ Append(<<f>>, p)[2] = p
    BY <1>1, AppendProperties
  <2>2. \A i \in 1..2 : Append(<<f>>, p)[i] = <<f, p>>[i]
    BY <2>1, <1>1
  <2> QED
    BY <2>1, <2>2, <1>1, SeqEqual
<1> QED
  BY <1>1, <1>2, <1>3, <1>4, <1>5, <1>6, <1>7

\* What Append and Front do to the results of the open critical sections.
LEMMA Sections ==
  ASSUME NEW s \in Seq(BOOLEAN), Nested(s), NEW e \in BOOLEAN, e <=> s # <<>>
  PROVE  /\ Append(s, e) \in Seq(BOOLEAN) /\ Nested(Append(s, e)) /\ Append(s, e) # <<>>
         /\ s # <<>> => /\ Front(s) \in Seq(BOOLEAN) /\ Nested(Front(s))
                        /\ Last(s) \in BOOLEAN /\ (Last(s) <=> Front(s) # <<>>)
<1>1. Append(s, e) \in Seq(BOOLEAN) /\ Nested(Append(s, e)) /\ Append(s, e) # <<>>
  <2>1. (e <=> Len(s) > 0) /\ Len(s) \in Nat
    BY EmptySeq, LenProperties
  <2>2. /\ Append(s, e) \in Seq(BOOLEAN) /\ Len(Append(s, e)) = Len(s) + 1
        /\ \A i \in 1..Len(s) : Append(s, e)[i] = s[i]
        /\ Append(s, e)[Len(s) + 1] = e
    BY <2>1, AppendProperties
  <2>3. \A i \in 1..Len(s) + 1 : Append(s, e)[i] <=> i > 1
    BY <2>1, <2>2 DEF Nested
  <2> QED
    BY <2>1, <2>2, <2>3, AppendProperties DEF Nested
<1>2. ASSUME s # <<>>
      PROVE  /\ Front(s) \in Seq(BOOLEAN) /\ Nested(Front(s))
             /\ Last(s) \in BOOLEAN /\ (Last(s) <=> Front(s) # <<>>)
  <2>1. Len(s) \in Nat \ {0} /\ Last(s) = s[Len(s)]
    BY <1>2 DEF Last
  <2>2. /\ Front(s) \in Seq(BOOLEAN) /\ Len(Front(s)) = Len(s) - 1
        /\ \A i \in 1..Len(s) - 1 : Front(s)[i] = s[i]
    <3>1. \A i \in 1..Len(s) - 1 : s[i] \in BOOLEAN
      BY <2>1
    <3> DEFINE n == Len(s) - 1
    <3>2. n \in Int /\ 1 \in Int /\ n >= 0 /\ \A i \in 1..n : s[i] \in BOOLEAN
      BY <3>1, <2>1
    <3> HIDE DEF n
    <3>3. /\ SubSeq(s, 1, n) \in Seq(BOOLEAN)
          /\ Len(SubSeq(s, 1, n)) = IF 1 <= n THEN n - 1 + 1 ELSE 0
          /\ \A i \in 1..(n - 1 + 1) : SubSeq(s, 1, n)[i] = s[1 + i - 1]
      BY <3>2, SubSeqProperties
    <3>4. /\ SubSeq(s, 1, n) \in Seq(BOOLEAN) /\ Len(SubSeq(s, 1, n)) = n
          /\ \A i \in 1..n : SubSeq(s, 1, n)[i] = s[i]
      BY <3>2, <3>3
    <3> QED
      BY <3>4 DEF Front, n
  <2> QED
    BY <2>1, <2>2 DEF Nested
<1> QED
  BY <1>1, <1>2

\* A thread whose stack and promises a step leaves alone can go on as before.
LEMMA LeftAlone ==
  ASSUME NEW t \in Task, arch' = arch, stk'[t] = stk[t], irqs'[t] = irqs[t],
         mine'[t] = mine[t], Resumable(t)
  PROVE  Resumable(t)'
BY DEF Resumable, Waits, Resumes, Reenters, GoesOn, Promised

\* The same of a stack that the step is to leave.
LEMMA StillWaits ==
  ASSUME NEW t \in Task, NEW s, arch' = arch, irqs'[t] = irqs[t], mine'[t] = mine[t],
         Waits(t, s)
  PROVE  Waits(t, s)'
BY DEF Waits, Resumes, Reenters, GoesOn, Promised

\* Every stack a thread waits with has a frame on it.
LEMMA WaitsNonEmpty ==
  ASSUME NEW t \in Task, NEW s, Waits(t, s)
  PROVE  s # <<>>
BY ShortStacks DEF Waits

\* Restoring by the type on the stack leaves a thread that goes on, on the spot, after
\* its registers are loaded, or with the rest of the loading that was interrupted.
LEMMA Dispatch ==
  ASSUME NEW n \in Task, NEW s \in [Task -> Seq(FrameSet)],
         arch \in {"rv32", "a9"}, arch' = arch, cur' = n,
         cpu \in CpuSet, arch = "a9" => cpu.fore,
         restore_dispatch(s, n), \A t \in Task : Waits(t, s[t])'
  PROVE  /\ BootOK' /\ ThreadOK' /\ RestoringOK' /\ HandlerOK'
         /\ cpu' \in CpuSet /\ stk' \in [Task -> Seq(FrameSet)]
         /\ \A t \in Task \ {n} : Resumable(t)'
<1> SUFFICES /\ BootOK' /\ ThreadOK' /\ RestoringOK' /\ HandlerOK'
             /\ cpu' \in CpuSet /\ stk' \in [Task -> Seq(FrameSet)]
             /\ \A t \in Task \ {n} : stk'[t] = s[t]
  BY DEF Resumable, Waits, Resumes, Reenters, GoesOn
<1>1. Junk \in Mark
  BY DEF Junk, Mark
<1>2. CASE \E f \in FrameSet : s[n] = <<f>> /\ Resumes(n, f)'
  <2>1. PICK f \in FrameSet : s[n] = <<f>> /\ Resumes(n, f)'
    BY <1>2
  <2>2. Last(s[n]) = f /\ Front(s[n]) = <<>> /\ <<>> \in Seq(FrameSet)
    <3>1. Last(<<f>>) = f /\ Front(<<f>>) = <<>> /\ <<>> \in Seq(FrameSet)
      BY ShortStacks
    <3> QED
      BY <3>1, <2>1
  <2>3. /\ f.masked \in BOOLEAN /\ f.kept \in Mark /\ f.scratch \in Mark /\ f.fore \in BOOLEAN
        /\ f.at = "thread" /\ f.fore
        /\ f.masked <=> irqs'[n] # <<>>
        /\ Promised(f.kept, mine'[n].kept) /\ Promised(f.scratch, mine'[n].scratch)
        /\ f.type = "preempt" \/ (f.type = "voluntary" /\ mine'[n].scratch = Unspoken)
    BY <2>1 DEF Resumes, GoesOn, FrameSet
  <2>4. CASE f.type = "preempt"
    <3>1. /\ cpu' = [masked |-> f.masked, at |-> f.at, kept |-> f.kept,
                      scratch |-> f.scratch, fore |-> f.fore]
          /\ stk' = [s EXCEPT ![n] = <<>>]
      BY <2>2, <2>4 DEF restore_dispatch, RestorePreempted
    <3>2. cpu' \in CpuSet /\ cpu'.at = "thread"
      BY <3>1, <2>3 DEF CpuSet, Place
    <3>3. stk' \in [Task -> Seq(FrameSet)] /\ stk'[n] = <<>> /\ \A t \in Task \ {n} : stk'[t] = s[t]
      BY <3>1, <2>2
    <3>4. GoesOn(n, cpu)'
      BY <3>1, <2>3 DEF GoesOn
    <3> QED
      BY <3>2, <3>3, <3>4 DEF BootOK, ThreadOK, RestoringOK, HandlerOK
  <2>5. CASE f.type = "voluntary" /\ arch = "rv32"
    <3>1. /\ cpu' = [masked |-> f.masked, at |-> "restoring",
                      kept |-> Junk, scratch |-> Junk, fore |-> TRUE]
          /\ stk' = s
      BY <2>2, <2>5 DEF restore_dispatch, RvRestoreVoluntary
    <3>2. cpu' \in CpuSet /\ cpu'.at = "restoring" /\ cpu'.fore /\ cpu'.masked = f.masked
      BY <3>1, <2>3, <1>1 DEF CpuSet, Place
    <3>3. RestoringOK'
      BY <3>1, <3>2, <2>1, <2>3, <2>5 DEF RestoringOK
    <3> QED
      BY <3>1, <3>2, <3>3 DEF BootOK, ThreadOK, HandlerOK
  <2>6. CASE f.type = "voluntary" /\ arch = "a9"
    <3>1. /\ cpu' = [masked |-> f.masked, at |-> "thread", kept |-> f.kept,
                      scratch |-> Junk, fore |-> cpu.fore]
          /\ stk' = [s EXCEPT ![n] = <<>>]
      BY <2>2, <2>6 DEF restore_dispatch, A9RestoreVoluntary
    <3>2. cpu' \in CpuSet /\ cpu'.at = "thread"
      BY <3>1, <2>3, <1>1 DEF CpuSet, Place
    <3>3. stk' \in [Task -> Seq(FrameSet)] /\ stk'[n] = <<>> /\ \A t \in Task \ {n} : stk'[t] = s[t]
      BY <3>1, <2>2
    <3>4. GoesOn(n, cpu)'
      BY <3>1, <2>3, <2>6 DEF GoesOn, Promised
    <3> QED
      BY <3>2, <3>3, <3>4 DEF BootOK, ThreadOK, RestoringOK, HandlerOK
  <2> QED
    BY <2>3, <2>4, <2>5, <2>6
<1>3. CASE arch = "rv32" /\ \E f, p \in FrameSet :
             s[n] = <<f, p>> /\ Resumes(n, f)' /\ f.type = "voluntary" /\ Reenters(n, p)'
  <2>1. PICK f \in FrameSet, p \in FrameSet :
             s[n] = <<f, p>> /\ Resumes(n, f)' /\ f.type = "voluntary" /\ Reenters(n, p)'
    BY <1>3
  <2>2. Last(s[n]) = p /\ Front(s[n]) = <<f>> /\ <<f>> \in Seq(FrameSet)
    <3>1. Last(<<f, p>>) = p /\ Front(<<f, p>>) = <<f>> /\ <<f>> \in Seq(FrameSet)
      <4>1. Last(<<f, p>>) = p
        BY ONLY f \in FrameSet, p \in FrameSet, ShortStacks
      <4>2. Front(<<f, p>>) = <<f>>
        BY ONLY f \in FrameSet, p \in FrameSet, ShortStacks
      <4>3. <<f>> \in Seq(FrameSet)
        BY ONLY f \in FrameSet, p \in FrameSet, ShortStacks
      <4> QED
        BY <4>1, <4>2, <4>3
    <3> QED
      BY <3>1, <2>1
  <2>3. /\ p.kept \in Mark /\ p.scratch \in Mark
        /\ p.type = "preempt" /\ p.at = "restoring" /\ p.fore \in BOOLEAN /\ p.fore
        /\ p.masked \in BOOLEAN /\ ~p.masked /\ irqs'[n] = <<>>
    BY <2>1 DEF Reenters, FrameSet
  <2>4. /\ cpu' = [masked |-> p.masked, at |-> p.at, kept |-> p.kept,
                    scratch |-> p.scratch, fore |-> p.fore]
        /\ stk' = [s EXCEPT ![n] = <<f>>]
    BY <2>2, <2>3 DEF restore_dispatch, RestorePreempted
  <2>5. cpu' \in CpuSet /\ cpu'.at = "restoring" /\ cpu'.fore /\ ~cpu'.masked
    BY <2>4, <2>3 DEF CpuSet, Place
  <2>6. /\ stk' \in [Task -> Seq(FrameSet)] /\ stk'[n] = <<f>>
        /\ \A t \in Task \ {n} : stk'[t] = s[t]
    BY <2>4, <2>2
  <2>7. RestoringOK'
    BY <2>5, <2>6, <2>1, <2>3, <1>3 DEF RestoringOK
  <2> QED
    BY <2>5, <2>6, <2>7 DEF BootOK, ThreadOK, HandlerOK
<1> QED
  BY <1>2, <1>3 DEF Waits

-----------------------------------------------------------------------------

\* Before the scheduler starts each stack holds what nd_hw_stack_init put there.
LEMMA CtxStart == CtxInit => CtxInv
<1> SUFFICES ASSUME CtxInit PROVE CtxInv
  OBVIOUS
<1>1. /\ Junk \in Mark /\ Unspoken \in Mark /\ Junk # Unspoken
      /\ \A t \in Task : <<t, 0>> \in Mark
  BY DEF Junk, Unspoken, Mark
<1>2. \A t \in Task : nd_hw_stack_init(arch, t) \in FrameSet
  BY <1>1 DEF nd_hw_stack_init, Frame, FrameSet, FrameType, Place
<1>3. \A f \in FrameSet : <<f>> \in Seq(FrameSet)
  BY ShortStacks
<1>4. /\ \A t \in Task : stk[t] = <<nd_hw_stack_init(arch, t)>> /\ irqs[t] = <<>>
      /\ \A t \in Task : mine[t].kept = Unspoken
      /\ cur = Nobody /\ cpu.at = "boot" /\ cpu.fore
  BY DEF CtxInit
<1>5. \A t \in Task : Resumes(t, nd_hw_stack_init(arch, t))
  <2> SUFFICES ASSUME NEW t \in Task PROVE Resumes(t, nd_hw_stack_init(arch, t))
    OBVIOUS
  <2>1. mine[t].scratch = IF arch = "rv32" THEN Unspoken ELSE <<t, 0>>
    BY DEF CtxInit
  <2> QED
    BY <1>4, <2>1 DEF Resumes, GoesOn, Promised, nd_hw_stack_init, Frame
<1>6. \A t \in Task : Resumable(t)
  BY <1>2, <1>4, <1>5 DEF Resumable, Waits
<1>7. CtxTypeOK
  <2>1. cpu \in CpuSet
    BY <1>1 DEF CtxInit, CpuSet
  <2>2. stk \in [Task -> Seq(FrameSet)] /\ irqs \in [Task -> Seq(BOOLEAN)]
    BY <1>2, <1>3, EmptySeq DEF CtxInit
  <2>3. mine \in [Task -> [kept : Mark, scratch : Mark]]
    BY <1>1 DEF CtxInit
  <2> QED
    BY <2>1, <2>2, <2>3 DEF CtxInit, CtxTypeOK
<1>8. \A t \in Task : Nested(irqs[t])
  BY <1>4, EmptySeq DEF Nested
<1>9. BootOK /\ ThreadOK /\ RestoringOK /\ HandlerOK
  BY <1>4, <1>6 DEF BootOK, ThreadOK, RestoringOK, HandlerOK
<1> QED
  BY <1>6, <1>7, <1>8, <1>9 DEF CtxInv

\* A step of the running thread that stays where it is.
LEMMA RunStep ==
  ASSUME CtxInv, Work \/ nd_hw_irq_save \/ nd_hw_irq_restore \/ \E n \in Task : SwitchLater(n)
  PROVE  CtxInv'
<1> USE DEF CtxInv
<1>1. /\ irqs \in [Task -> Seq(BOOLEAN)] /\ mine \in [Task -> [kept : Mark, scratch : Mark]]
      /\ cpu \in CpuSet /\ stk \in [Task -> Seq(FrameSet)]
  BY DEF CtxTypeOK
<1>2. CASE Work
  <2>1. /\ cur \in Task /\ stk[cur] = <<>> /\ GoesOn(cur, cpu)
    BY <1>2 DEF Work, ThreadOK
  <2>2. PICK v \in {0, 1} :
          /\ cpu' = [cpu EXCEPT !.kept = <<cur, v>>, !.scratch = <<cur, v>>]
          /\ mine' = [mine EXCEPT ![cur] = [kept |-> <<cur, v>>, scratch |-> <<cur, v>>]]
    BY <1>2 DEF Work
  <2>3. <<cur, v>> \in Mark
    BY <2>1 DEF Mark
  <2>4. CtxTypeOK'
    BY <1>1, <1>2, <2>1, <2>2, <2>3 DEF CtxTypeOK, Work, CpuSet
  <2>5. \A t \in Task \ {cur} : Resumable(t)'
    BY <1>1, <1>2, <2>2, LeftAlone DEF Work
  <2>6. ThreadOK'
    BY <1>1, <1>2, <2>1, <2>2 DEF Work, ThreadOK, GoesOn, Promised, CpuSet
  <2>7. cpu'.at = "thread"
    BY <1>1, <1>2, <2>2 DEF Work, CpuSet
  <2> QED
    BY <1>2, <2>4, <2>5, <2>6, <2>7 DEF Work, BootOK, RestoringOK, HandlerOK
<1>3. CASE nd_hw_irq_save
  <2>1. /\ cur \in Task /\ stk[cur] = <<>> /\ GoesOn(cur, cpu) /\ cpu.at = "thread"
        /\ cpu' = [cpu EXCEPT !.masked = TRUE] /\ irqs' = [irqs EXCEPT ![cur] = Append(@, cpu.masked)]
        /\ UNCHANGED <<arch, cur, stk, pend, mine>>
    BY <1>3 DEF nd_hw_irq_save, ThreadOK
  <2>2. irqs'[cur] \in Seq(BOOLEAN) /\ Nested(irqs'[cur]) /\ irqs'[cur] # <<>>
    BY <1>1, <2>1, Sections DEF GoesOn, CpuSet
  <2>3. CtxTypeOK'
    BY <1>1, <2>1, <2>2 DEF CtxTypeOK, CpuSet
  <2>4. \A t \in Task \ {cur} : Resumable(t)' /\ irqs'[t] = irqs[t]
    BY <1>1, <2>1, LeftAlone
  <2>5. cpu'.at = "thread" /\ GoesOn(cur, cpu)'
    BY <1>1, <2>1, <2>2 DEF GoesOn, CpuSet
  <2> QED
    BY <2>1, <2>2, <2>3, <2>4, <2>5 DEF BootOK, ThreadOK, RestoringOK, HandlerOK
<1>4. CASE nd_hw_irq_restore
  <2>1. /\ cur \in Task /\ stk[cur] = <<>> /\ GoesOn(cur, cpu) /\ cpu.at = "thread"
        /\ irqs[cur] # <<>>
        /\ cpu' = [cpu EXCEPT !.masked = Last(irqs[cur])]
        /\ irqs' = [irqs EXCEPT ![cur] = Front(@)]
        /\ UNCHANGED <<arch, cur, stk, pend, mine>>
    BY <1>4 DEF nd_hw_irq_restore, ThreadOK
  <2>2. /\ irqs'[cur] \in Seq(BOOLEAN) /\ Nested(irqs'[cur])
        /\ Last(irqs[cur]) \in BOOLEAN /\ (Last(irqs[cur]) <=> irqs'[cur] # <<>>)
    <3>1. irqs[cur] \in Seq(BOOLEAN) /\ Nested(irqs[cur]) /\ TRUE \in BOOLEAN
      BY <1>1, <2>1
    <3>2. irqs'[cur] = Front(irqs[cur])
      BY <1>1, <2>1
    <3> QED
      BY <3>1, <3>2, <2>1, Sections
  <2>3. CtxTypeOK'
    BY <1>1, <2>1, <2>2 DEF CtxTypeOK, CpuSet
  <2>4. \A t \in Task \ {cur} : Resumable(t)' /\ irqs'[t] = irqs[t]
    BY <1>1, <2>1, LeftAlone
  <2>5. cpu'.at = "thread" /\ GoesOn(cur, cpu)'
    BY <1>1, <2>1, <2>2 DEF GoesOn, CpuSet
  <2> QED
    BY <2>1, <2>2, <2>3, <2>4, <2>5 DEF BootOK, ThreadOK, RestoringOK, HandlerOK
<1>5. CASE \E n \in Task : SwitchLater(n)
  <2>1. /\ arch = "m" /\ pend' \in Task /\ UNCHANGED <<arch, cur, cpu, stk, irqs>>
        /\ \/ cpu.at = "thread" /\ mine' = [mine EXCEPT ![cur].scratch = Unspoken]
           \/ cpu.at = "handler" /\ mine' = mine
    BY <1>5 DEF SwitchLater
  <2>2. CASE cpu.at = "handler" /\ mine' = mine
    <3>1. \A t \in Task \ {cur} : Resumable(t)'
      BY <2>1, <2>2, LeftAlone
    <3> QED
      BY <2>1, <2>2, <3>1 DEF CtxTypeOK, BootOK, ThreadOK, RestoringOK, HandlerOK
  <2>3. CASE cpu.at = "thread" /\ mine' = [mine EXCEPT ![cur].scratch = Unspoken]
    <3>1. cur \in Task /\ stk[cur] = <<>> /\ GoesOn(cur, cpu)
      BY <2>3 DEF ThreadOK
    <3>2. Unspoken \in Mark
      BY DEF Unspoken, Mark
    <3>3. \A t \in Task \ {cur} : Resumable(t)'
      BY <1>1, <2>1, <2>3, LeftAlone
    <3>4. CtxTypeOK'
      BY <1>1, <2>1, <2>3, <3>1, <3>2 DEF CtxTypeOK
    <3>5. GoesOn(cur, cpu)'
      BY <1>1, <2>1, <2>3, <3>1 DEF GoesOn, Promised
    <3> QED
      BY <2>1, <2>3, <3>1, <3>3, <3>4, <3>5 DEF BootOK, ThreadOK, RestoringOK, HandlerOK
  <2> QED
    BY <2>1, <2>2, <2>3
<1> QED
  BY <1>2, <1>3, <1>4, <1>5

\* RV32 and the Cortex-A9: leaving a thread in a call, at the start and after a handler.
LEMMA SwitchStep ==
  ASSUME CtxInv, NEW n \in Task, SwitchNow(n) \/ StartNow(n) \/ TrapReturns(n)
  PROVE  CtxInv'
<1> USE DEF CtxInv
<1>1. /\ irqs \in [Task -> Seq(BOOLEAN)] /\ mine \in [Task -> [kept : Mark, scratch : Mark]]
      /\ cpu \in CpuSet /\ stk \in [Task -> Seq(FrameSet)] /\ arch \in Archs
  BY DEF CtxTypeOK
<1>2. arch \in {"rv32", "a9"} /\ arch' = arch /\ cur' = n /\ irqs' = irqs /\ pend' = pend
  BY <1>1, ContextAssumption DEF SwitchNow, StartNow, TrapReturns, AllArchs
<1>3. ASSUME NEW s \in [Task -> Seq(FrameSet)], restore_dispatch(s, n),
             \A t \in Task : Waits(t, s[t])', arch = "a9" => cpu.fore,
             mine' \in [Task -> [kept : Mark, scratch : Mark]]
      PROVE  CtxInv'
  <2>1. /\ BootOK' /\ ThreadOK' /\ RestoringOK' /\ HandlerOK'
        /\ cpu' \in CpuSet /\ stk' \in [Task -> Seq(FrameSet)]
        /\ \A t \in Task \ {n} : Resumable(t)'
    BY <1>1, <1>2, <1>3, Dispatch
  <2>2. CtxTypeOK'
    BY <1>1, <1>2, <1>3, <2>1 DEF CtxTypeOK
  <2> QED
    BY <1>2, <2>1, <2>2
<1>4. CASE SwitchNow(n)
  <2> DEFINE f == Frame("voluntary", cpu.masked, "thread", cpu.kept, Junk, TRUE)
  <2>1. /\ cur \in Task /\ stk[cur] = <<>> /\ GoesOn(cur, cpu)
        /\ restore_dispatch(Push(cur, f), n)
        /\ mine' = [mine EXCEPT ![cur].scratch = Unspoken]
    BY <1>4 DEF SwitchNow, ThreadOK
  <2>2. Junk \in Mark /\ Unspoken \in Mark
    BY DEF Junk, Unspoken, Mark
  <2>3. f \in FrameSet
    BY <1>1, <2>2 DEF Frame, FrameSet, FrameType, Place, CpuSet
  <2>4. PICK s, u, g : s = Push(cur, f) /\ u = cur /\ g = f
    OBVIOUS
  <2>5. /\ s \in [Task -> Seq(FrameSet)] /\ s[u] = <<g>> /\ u \in Task
        /\ \A t \in Task \ {u} : s[t] = stk[t]
        /\ g \in FrameSet /\ g.type = "voluntary" /\ g.at = "thread" /\ g.fore
        /\ g.masked = cpu.masked /\ g.kept = cpu.kept
    <3>1. g \in FrameSet
      BY <2>3, <2>4
    <3>2. Append(<<>>, g) = <<g>> /\ <<g>> \in Seq(FrameSet)
      BY <3>1, ShortStacks
    <3>3. s = [stk EXCEPT ![u] = Append(@, g)]
      BY <2>4 DEF Push
    <3>4. /\ g.type = "voluntary" /\ g.at = "thread" /\ g.fore
          /\ g.masked = cpu.masked /\ g.kept = cpu.kept
      BY <2>4 DEF Frame
    <3>5. u \in Task /\ stk[u] = <<>>
      BY <2>1, <2>4
    <3>6. s[u] = <<g>> /\ s \in [Task -> Seq(FrameSet)]
      BY <1>1, <3>2, <3>3, <3>5
    <3>7. \A t \in Task \ {u} : s[t] = stk[t]
      BY <1>1, <3>3
    <3> QED
      BY <3>1, <3>4, <3>5, <3>6, <3>7
  <2>6. \A t \in Task \ {u} : Waits(t, s[t])'
    <3> SUFFICES ASSUME NEW t \in Task \ {u} PROVE Waits(t, s[t])'
      OBVIOUS
    <3>1. Waits(t, s[t])
      BY <2>4, <2>5 DEF Resumable
    <3>2. mine'[t] = mine[t] /\ irqs'[t] = irqs[t]
      BY <1>1, <1>2, <2>1, <2>4
    <3> QED
      BY <1>2, <3>1, <3>2, StillWaits
  <2>7. Waits(u, s[u])'
    <3>1. /\ mine'[u].scratch = Unspoken /\ mine'[u].kept = mine[u].kept
          /\ irqs'[u] = irqs[u]
      BY <1>1, <1>2, <2>1, <2>4
    <3>2. Resumes(u, g)'
      <4>1. GoesOn(u, cpu) /\ arch' = arch /\ arch # "m"
        BY <1>2, <2>1, <2>4
      <4>2. GoesOn(u, g)'
        BY <2>5, <3>1, <4>1 DEF GoesOn, Promised
      <4> QED
        BY <2>5, <3>1, <4>1, <4>2 DEF Resumes
    <3> QED
      BY <2>5, <3>2 DEF Waits
  <2>8. mine' \in [Task -> [kept : Mark, scratch : Mark]]
    BY <1>1, <2>1, <2>2
  <2>9. arch = "a9" => cpu.fore
    BY <2>1 DEF GoesOn
  <2> QED
    <3>1. \A t \in Task : Waits(t, s[t])'
      BY <2>6, <2>7
    <3> QED
      BY <1>3, <2>1, <2>4, <2>5, <2>8, <2>9, <3>1
<1>5. CASE StartNow(n) \/ TrapReturns(n)
  <2>1. restore_dispatch(stk, n) /\ mine' = mine
    BY <1>5 DEF StartNow, TrapReturns
  <2>2. \A t \in Task : Resumable(t)
    BY <1>2, <1>5 DEF StartNow, TrapReturns, BootOK, HandlerOK
  <2>3. arch = "a9" => cpu.fore
    BY <1>5 DEF StartNow, TrapReturns, BootOK, HandlerOK
  <2>4. PICK s : s = stk
    OBVIOUS
  <2>5. \A t \in Task : Waits(t, s[t])'
    <3> SUFFICES ASSUME NEW t \in Task PROVE Waits(t, s[t])'
      OBVIOUS
    <3>1. Waits(t, s[t])
      BY <2>2, <2>4 DEF Resumable
    <3> QED
      BY <1>2, <2>1, <3>1, StillWaits
  <2> QED
    BY <1>1, <1>3, <2>1, <2>3, <2>4, <2>5
<1> QED
  BY <1>4, <1>5

\* An interrupt on RV32 or the Cortex-A9.
LEMMA TrapStep ==
  ASSUME CtxInv, riscv_trap_entry \/ vector_irq
  PROVE  CtxInv'
<1> USE DEF CtxInv
<1>1. /\ irqs \in [Task -> Seq(BOOLEAN)] /\ cpu \in CpuSet /\ stk \in [Task -> Seq(FrameSet)]
  BY DEF CtxTypeOK
<1>2. /\ arch \in {"rv32", "a9"} /\ UNCHANGED <<arch, cur, irqs, pend, mine>>
      /\ cpu.at \in {"thread", "restoring"} /\ ~cpu.masked
      /\ stk' = Push(cur, PreemptFrame)
      /\ cpu' = [masked |-> TRUE, at |-> "handler", kept |-> Junk, scratch |-> Junk,
                 fore |-> IF arch = "a9" THEN cpu.fore ELSE FALSE]
  BY DEF riscv_trap_entry, vector_irq, CanInterrupt, InHandlerNow
<1>3. cur \in Task
  BY <1>2 DEF ThreadOK, RestoringOK
<1>4. PICK p : p = PreemptFrame
  OBVIOUS
<1>5. /\ p.type = "preempt" /\ ~p.masked /\ p.at = cpu.at /\ p.kept = cpu.kept
      /\ p.scratch = cpu.scratch /\ p.fore = cpu.fore
      /\ p \in FrameSet
  BY <1>1, <1>2, <1>4 DEF PreemptFrame, Frame, FrameSet, FrameType, Place, CpuSet
<1>6. stk' = [stk EXCEPT ![cur] = Append(@, p)]
  BY <1>2, <1>4 DEF Push
<1>7. stk'[cur] \in Seq(FrameSet) /\ Resumable(cur)'
  <2>1. CASE cpu.at = "thread"
    <3>1. stk[cur] = <<>> /\ GoesOn(cur, cpu)
      BY <2>1 DEF ThreadOK
    <3>2. Append(<<>>, p) = <<p>> /\ <<p>> \in Seq(FrameSet)
      BY <1>5, ShortStacks
    <3>3. stk'[cur] = <<p>> /\ stk'[cur] \in Seq(FrameSet)
      BY <1>1, <1>3, <1>6, <3>1, <3>2
    <3>4. Resumes(cur, p)'
      BY <1>1, <1>2, <1>5, <2>1, <3>1 DEF Resumes, GoesOn, CpuSet
    <3> QED
      BY <1>2, <1>5, <3>3, <3>4 DEF Resumable, Waits
  <2>2. CASE cpu.at = "restoring"
    <3>1. PICK f \in FrameSet : stk[cur] = <<f>> /\ Resumes(cur, f) /\ f.type = "voluntary"
      BY <2>2 DEF RestoringOK
    <3>2. Append(<<f>>, p) = <<f, p>> /\ <<f, p>> \in Seq(FrameSet)
      BY <1>5, ShortStacks
    <3>3. stk'[cur] = <<f, p>> /\ stk'[cur] \in Seq(FrameSet)
      BY <1>1, <1>3, <1>6, <3>1, <3>2
    <3>4. Resumes(cur, f)'
      BY <1>2, <3>1 DEF Resumes, GoesOn, Promised
    <3>5. arch = "rv32" /\ irqs[cur] = <<>> /\ cpu.fore
      BY <1>2, <2>2 DEF RestoringOK
    <3>6. Reenters(cur, p)'
      BY <1>2, <1>5, <2>2, <3>5 DEF Reenters
    <3> QED
      BY <1>2, <1>5, <3>1, <3>3, <3>4, <3>5, <3>6 DEF Resumable, Waits
  <2> QED
    BY <1>2, <2>1, <2>2
<1>8. \A t \in Task \ {cur} : Resumable(t)'
  BY <1>1, <1>2, <1>6, LeftAlone
<1>9. CtxTypeOK'
  <2>1. Junk \in Mark
    BY DEF Junk, Mark
  <2>2. cpu' \in CpuSet
    BY <1>1, <1>2, <2>1 DEF CpuSet
  <2>3. stk' \in [Task -> Seq(FrameSet)]
    BY <1>1, <1>3, <1>6, <1>7
  <2> QED
    BY <1>2, <2>2, <2>3 DEF CtxTypeOK
<1>10. HandlerOK'
  <2>1. arch = "a9" => cpu.fore
    BY <1>2 DEF ThreadOK, RestoringOK, GoesOn
  <2> QED
    BY <1>2, <1>3, <1>7, <2>1 DEF HandlerOK
<1> QED
  BY <1>2, <1>8, <1>9, <1>10 DEF BootOK, ThreadOK, RestoringOK

\* RV32 loads the registers of a thread that left in a call.
LEMMA LoadStep ==
  ASSUME CtxInv, RvLoad
  PROVE  CtxInv'
<1> USE DEF CtxInv
<1>1. /\ irqs \in [Task -> Seq(BOOLEAN)] /\ cpu \in CpuSet /\ stk \in [Task -> Seq(FrameSet)]
  BY DEF CtxTypeOK
<1>2. PICK f \in FrameSet : stk[cur] = <<f>> /\ Resumes(cur, f) /\ f.type = "voluntary"
  BY DEF RvLoad, RestoringOK
<1>3. Last(<<f>>) = f /\ Front(<<f>>) = <<>> /\ <<>> \in Seq(FrameSet)
  BY ShortStacks
<1>4. /\ cur \in Task /\ (cpu.masked <=> irqs[cur] # <<>>) /\ cpu.fore
      /\ cpu' = [cpu EXCEPT !.at = "thread", !.kept = f.kept]
      /\ stk' = [stk EXCEPT ![cur] = <<>>]
      /\ UNCHANGED <<arch, cur, irqs, pend, mine>>
  BY <1>2, <1>3 DEF RvLoad, RestoringOK
<1>5. CtxTypeOK'
  <2>1. f.kept \in Mark
    BY DEF FrameSet
  <2>2. cpu' \in CpuSet
    BY <1>1, <1>4, <2>1 DEF CpuSet, Place
  <2>3. stk' \in [Task -> Seq(FrameSet)]
    BY <1>1, <1>3, <1>4
  <2> QED
    BY <1>4, <2>2, <2>3 DEF CtxTypeOK
<1>6. \A t \in Task \ {cur} : Resumable(t)'
  BY <1>1, <1>4, LeftAlone
<1>7. /\ cpu'.at = "thread" /\ cpu'.kept = f.kept /\ cpu'.masked = cpu.masked
      /\ cpu'.fore = cpu.fore
  BY <1>1, <1>4 DEF CpuSet
<1>8. GoesOn(cur, cpu)'
  BY <1>2, <1>4, <1>7 DEF GoesOn, Resumes, Promised
<1>9. stk'[cur] = <<>>
  BY <1>1, <1>4
<1> QED
  BY <1>4, <1>5, <1>6, <1>7, <1>8, <1>9 DEF BootOK, ThreadOK, RestoringOK, HandlerOK

\* Cortex-M: the start, handlers and PendSV.
LEMMA CortexMStep ==
  ASSUME CtxInv,
         \/ \E n \in Task : StartByPendSV(n)
         \/ ExceptionEntry \/ ExceptionReturn \/ isr_pendsv_frames
  PROVE  CtxInv'
<1> USE DEF CtxInv
<1>1. /\ irqs \in [Task -> Seq(BOOLEAN)] /\ cpu \in CpuSet /\ stk \in [Task -> Seq(FrameSet)]
      /\ pend \in Task \cup {Nobody} /\ <<>> \in Seq(FrameSet)
  BY EmptySeq DEF CtxTypeOK
<1>2. arch = "m" /\ arch' = arch /\ irqs' = irqs /\ mine' = mine
  BY DEF StartByPendSV, ExceptionEntry, ExceptionReturn, isr_pendsv_frames
<1>3. Junk \in Mark
  BY DEF Junk, Mark
<1>4. CASE \E n \in Task : StartByPendSV(n)
  <2>1. PICK n \in Task : StartByPendSV(n)
    BY <1>4
  <2>2. /\ cpu.at = "boot" /\ cur' = n /\ pend' = pend
        /\ cpu' = [cpu EXCEPT !.masked = FALSE, !.at = "thread", !.scratch = stk[n][1].scratch]
        /\ stk' = [stk EXCEPT ![n] = <<>>]
    BY <2>1 DEF StartByPendSV
  <2>3. /\ cpu.fore /\ mine[n].kept = Unspoken /\ irqs[n] = <<>>
        /\ \A t \in Task : Resumable(t)
    BY <2>2 DEF BootOK
  <2>4. PICK f \in FrameSet : stk[n] = <<f>> /\ Resumes(n, f)
    BY <1>2, <2>3 DEF Resumable, Waits
  <2>5. stk[n][1].scratch = f.scratch /\ f.scratch \in Mark /\ Promised(f.scratch, mine[n].scratch)
    BY <2>4 DEF Resumes, GoesOn, FrameSet
  <2>6. /\ cpu' \in CpuSet /\ cpu'.at = "thread" /\ ~cpu'.masked /\ cpu'.fore
        /\ cpu'.scratch = f.scratch
    BY <1>1, <2>2, <2>3, <2>5 DEF CpuSet, Place
  <2>7. stk' \in [Task -> Seq(FrameSet)] /\ stk'[n] = <<>>
    BY <1>1, <2>2
  <2>8. GoesOn(n, cpu)'
    BY <1>2, <2>3, <2>5, <2>6 DEF GoesOn, Promised
  <2>9. \A t \in Task \ {n} : Resumable(t)'
    BY <1>1, <1>2, <2>2, <2>3, LeftAlone
  <2>10. CtxTypeOK'
    BY <1>2, <2>2, <2>6, <2>7 DEF CtxTypeOK
  <2> QED
    BY <1>2, <2>2, <2>6, <2>7, <2>8, <2>9, <2>10 DEF BootOK, ThreadOK, RestoringOK, HandlerOK
<1>5. CASE ExceptionEntry
  <2> DEFINE f == Frame("scratch", FALSE, "thread", Junk, cpu.scratch, TRUE)
  <2>1. /\ cpu.at = "thread" /\ ~cpu.masked /\ cur' = cur /\ pend' = pend
        /\ stk' = [stk EXCEPT ![cur] = Append(@, f)]
        /\ cpu' = [cpu EXCEPT !.at = "handler", !.scratch = Junk]
    BY <1>2, <1>5 DEF ExceptionEntry, CanInterrupt, RestoringOK, Push
  <2>2. cur \in Task /\ stk[cur] = <<>> /\ GoesOn(cur, cpu)
    BY <2>1 DEF ThreadOK
  <2>3. f \in FrameSet /\ f.scratch = cpu.scratch
    BY <1>1, <1>3 DEF Frame, FrameSet, FrameType, Place, CpuSet
  <2> HIDE DEF f
  <2>4. Append(<<>>, f) = <<f>> /\ <<f>> \in Seq(FrameSet)
    BY <2>3, ShortStacks
  <2>5. stk' \in [Task -> Seq(FrameSet)] /\ stk'[cur] = <<f>>
    BY <1>1, <2>1, <2>2, <2>4
  <2>6. /\ cpu' \in CpuSet /\ cpu'.at = "handler" /\ cpu'.masked = cpu.masked
        /\ cpu'.fore = cpu.fore /\ cpu'.kept = cpu.kept
    BY <1>1, <1>3, <2>1 DEF CpuSet
  <2>7. HandlerOK'
    BY <1>2, <2>1, <2>2, <2>3, <2>5, <2>6 DEF HandlerOK, GoesOn, Promised
  <2>8. \A t \in Task \ {cur} : Resumable(t)'
    BY <1>1, <1>2, <2>1, LeftAlone
  <2>9. CtxTypeOK'
    BY <1>2, <2>1, <2>5, <2>6 DEF CtxTypeOK
  <2> QED
    BY <1>2, <2>1, <2>6, <2>7, <2>8, <2>9 DEF BootOK, ThreadOK, RestoringOK
<1>6. CASE ExceptionReturn
  <2>1. /\ cpu.at = "handler" /\ cur' = cur /\ pend' = pend
        /\ cpu' = [cpu EXCEPT !.at = "thread", !.scratch = Last(stk[cur]).scratch]
        /\ stk' = [stk EXCEPT ![cur] = Front(@)]
    BY <1>6 DEF ExceptionReturn
  <2>2. /\ cur \in Task /\ ~cpu.masked /\ irqs[cur] = <<>> /\ cpu.fore
        /\ Promised(cpu.kept, mine[cur].kept)
    BY <1>2, <2>1 DEF HandlerOK
  <2>3. PICK f \in FrameSet : stk[cur] = <<f>> /\ Promised(f.scratch, mine[cur].scratch)
    BY <1>2, <2>1 DEF HandlerOK
  <2>4. Last(<<f>>) = f /\ Front(<<f>>) = <<>> /\ f.scratch \in Mark
    <3>1. f.scratch \in Mark
      BY DEF FrameSet
    <3> QED
      BY <3>1, ShortStacks
  <2>5. stk' \in [Task -> Seq(FrameSet)] /\ stk'[cur] = <<>>
    BY <1>1, <2>1, <2>2, <2>3, <2>4
  <2>6. cpu' = [cpu EXCEPT !.at = "thread", !.scratch = f.scratch]
    BY <2>1, <2>3, <2>4
  <2>7. /\ cpu' \in CpuSet /\ cpu'.at = "thread" /\ cpu'.masked = cpu.masked
        /\ cpu'.fore = cpu.fore /\ cpu'.kept = cpu.kept /\ cpu'.scratch = f.scratch
    BY <1>1, <2>4, <2>6 DEF CpuSet, Place
  <2>8. GoesOn(cur, cpu)'
    BY <1>2, <2>1, <2>2, <2>3, <2>7 DEF GoesOn, Promised
  <2>9. \A t \in Task \ {cur} : Resumable(t)'
    BY <1>1, <1>2, <2>1, LeftAlone
  <2>10. CtxTypeOK'
    BY <1>2, <2>1, <2>5, <2>7 DEF CtxTypeOK
  <2> QED
    BY <1>2, <2>1, <2>2, <2>5, <2>7, <2>8, <2>9, <2>10
    DEF BootOK, ThreadOK, RestoringOK, HandlerOK
<1>7. CASE isr_pendsv_frames
  <2>1. /\ cpu.at = "thread" /\ ~cpu.masked /\ pend \in Task /\ cur' = pend /\ pend' = Nobody
        /\ RestorePreempted(Push(cur, PreemptFrame), pend)
    BY <1>1, <1>2, <1>7 DEF isr_pendsv_frames, CanInterrupt, RestoringOK
  <2>2. cur \in Task /\ stk[cur] = <<>> /\ GoesOn(cur, cpu)
    BY <2>1 DEF ThreadOK
  <2>3. PICK s, g, u, n : s = Push(cur, PreemptFrame) /\ g = PreemptFrame /\ u = cur /\ n = pend
    OBVIOUS
  <2>4. /\ g \in FrameSet /\ g.type = "preempt" /\ ~g.masked /\ g.at = "thread"
        /\ g.kept = cpu.kept /\ g.scratch = cpu.scratch /\ g.fore = cpu.fore
    BY <1>1, <2>1, <2>3 DEF PreemptFrame, Frame, FrameSet, FrameType, Place, CpuSet
  <2>5. /\ s \in [Task -> Seq(FrameSet)] /\ s[u] = <<g>> /\ u \in Task /\ n \in Task
        /\ \A t \in Task \ {u} : s[t] = stk[t]
    <3>1. Append(<<>>, g) = <<g>> /\ <<g>> \in Seq(FrameSet)
      BY <2>4, ShortStacks
    <3>2. s = [stk EXCEPT ![u] = Append(@, g)] /\ u \in Task /\ n \in Task /\ stk[u] = <<>>
      BY <2>1, <2>2, <2>3 DEF Push
    <3>3. s[u] = <<g>> /\ s \in [Task -> Seq(FrameSet)]
      BY <1>1, <3>1, <3>2
    <3>4. \A t \in Task \ {u} : s[t] = stk[t]
      BY <1>1, <3>2
    <3> QED
      BY <3>2, <3>3, <3>4
  <2>6. Resumes(u, g)
    BY <1>1, <2>1, <2>2, <2>3, <2>4 DEF Resumes, GoesOn, CpuSet
  <2>7. \A t \in Task : Waits(t, s[t])
    BY <2>3, <2>4, <2>5, <2>6 DEF Resumable, Waits
  <2>8. PICK f \in FrameSet : s[n] = <<f>> /\ Resumes(n, f)
    BY <1>2, <2>5, <2>7 DEF Waits
  <2>9. Last(<<f>>) = f /\ Front(<<f>>) = <<>>
    BY ShortStacks
  <2>10. /\ f.at = "thread" /\ GoesOn(n, f)
         /\ f.masked \in BOOLEAN /\ f.kept \in Mark /\ f.scratch \in Mark /\ f.fore \in BOOLEAN
    BY <2>8 DEF Resumes, FrameSet
  <2>11. /\ cpu' = [masked |-> f.masked, at |-> f.at, kept |-> f.kept, scratch |-> f.scratch,
                    fore |-> f.fore]
         /\ stk' = [s EXCEPT ![n] = <<>>] /\ cur' = n
    BY <2>1, <2>3, <2>8, <2>9 DEF RestorePreempted
  <2>12. cpu' \in CpuSet /\ cpu'.at = "thread"
    BY <2>10, <2>11 DEF CpuSet, Place
  <2>13. /\ stk' \in [Task -> Seq(FrameSet)] /\ stk'[n] = <<>>
         /\ \A t \in Task \ {n} : stk'[t] = s[t]
    BY <1>1, <2>5, <2>11
  <2>14. GoesOn(n, cpu)'
    BY <1>2, <2>10, <2>11 DEF GoesOn, Promised
  <2>15. \A t \in Task \ {n} : Resumable(t)'
    <3> SUFFICES ASSUME NEW t \in Task \ {n} PROVE Resumable(t)'
      OBVIOUS
    <3>1. Waits(t, s[t])'
      BY <1>2, <2>7, StillWaits
    <3> QED
      BY <2>13, <3>1 DEF Resumable, Waits, Resumes, Reenters, GoesOn
  <2>16. CtxTypeOK'
    BY <1>2, <2>1, <2>12, <2>13 DEF CtxTypeOK
  <2> QED
    BY <1>2, <2>5, <2>11, <2>12, <2>13, <2>14, <2>15, <2>16
    DEF BootOK, ThreadOK, RestoringOK, HandlerOK
<1> QED
  BY <1>4, <1>5, <1>6, <1>7

-----------------------------------------------------------------------------

\* The invariant of the frames: for each architecture every thread that does not run has
\* a stack from which it can be entered, whichever thread the scheduler chooses.
THEOREM ContextInvariant == CtxSpec => []CtxInv
<1>1. CtxInv /\ [CtxNext]_ctxVars => CtxInv'
  <2> SUFFICES ASSUME CtxInv, [CtxNext]_ctxVars PROVE CtxInv'
    OBVIOUS
  <2>1. CASE UNCHANGED ctxVars
    BY <2>1 DEF ctxVars, CtxInv, CtxTypeOK, BootOK, ThreadOK, RestoringOK, HandlerOK,
                Resumable, Waits, Resumes, Reenters, GoesOn, Promised
  <2>2. CASE CtxNext
    BY <2>2, RunStep, SwitchStep, TrapStep, LoadStep, CortexMStep DEF CtxNext
  <2> QED
    BY <2>1, <2>2
<1> QED
  BY <1>1, CtxStart, PTL DEF CtxSpec

\* ContextKept: a thread that goes on finds its registers, its interrupt mask, its level
\* and its stack (context.S, trap.S, nd_hw_stack_init).
THEOREM ContextIsKept == CtxSpec => []ContextKept
<1>1. CtxInv => ContextKept
  <2> SUFFICES ASSUME CtxInv PROVE ContextKept
    OBVIOUS
  <2>1. cpu.at = "thread" =>
          /\ Promised(cpu.kept, mine[cur].kept) /\ Promised(cpu.scratch, mine[cur].scratch)
          /\ cpu.masked <=> irqs[cur] # <<>>
          /\ cpu.fore
          /\ stk[cur] = <<>>
    BY DEF CtxInv, ThreadOK, GoesOn
  <2>2. \A t \in Task \ {cur} : stk[t] # <<>>
    BY WaitsNonEmpty DEF CtxInv, Resumable
  <2> QED
    BY <2>1, <2>2 DEF ContextKept
<1> QED
  BY <1>1, ContextInvariant, PTL

-----------------------------------------------------------------------------
(* The receive ring *)

RingTyped ==
  /\ port \in {"counts", "looks_ahead"}
  /\ rx_buf \in [buf : [Under(BUF_SIZE) -> Byte \cup {NUL}],
                head : Under(IndexRange), tail : Under(IndexRange)]
  /\ rx_sem \in Nat
  /\ getc \in [at : {"take", "read", "advance", "return"}, c : Byte \cup {NUL}]

\* No slot of the bytes in the ring is one that was never written.
Written == \A i \in 1..Inside : Bytes[i] \in Byte

RingInv == RingTyped /\ Written /\ BytesCounted

\* The sizes are those of a ring.
LEMMA SizesLemma == RingSizes(BUF_SIZE, IndexRange)
  BY RingAssumption DEF RingSizes

\* The bytes of the ring, and what they become when a byte comes and when one goes.
LEMMA RingLemma ==
  ASSUME RingTyped, Inside <= BUF_SIZE
  PROVE  /\ Inside \in Nat /\ Inside + 1 < IndexRange
         /\ rx_buf.head = Rem(rx_buf.tail + Inside, IndexRange)
         /\ Rem(Rem(rx_buf.head + 1, IndexRange) - rx_buf.tail, IndexRange) = Inside + 1
         /\ Inside > 0 => Rem(rx_buf.head - Rem(rx_buf.tail + 1, IndexRange), IndexRange) = Inside - 1
         /\ Bytes = Content(rx_buf.buf, BUF_SIZE, rx_buf.tail, Inside)
         /\ Bytes \in Seq(Byte \cup {NUL}) /\ Len(Bytes) = Inside
         /\ Full(rx_buf) <=> Inside >= BUF_SIZE
<1> DEFINE h == rx_buf.head
           t == rx_buf.tail
           b == rx_buf.buf
           n == Inside
<1>1. /\ h \in Under(IndexRange) /\ t \in Under(IndexRange) /\ n = Rem(h - t, IndexRange)
      /\ b \in [Under(BUF_SIZE) -> Byte \cup {NUL}]
  BY DEF RingTyped, Inside, Wrapped, Rem
<1>2. BUF_SIZE \in Nat /\ IndexRange \in Nat /\ IndexRange > BUF_SIZE + 1
  BY RingAssumption
<1>3. port \in {"counts", "looks_ahead"} /\ n <= BUF_SIZE
  BY DEF RingTyped
<1>4. Bytes = Content(b, BUF_SIZE, t, n)
  BY DEF Bytes, Content, Slot, Rem
<1>5. Full(rx_buf) <=> IF port = "counts" THEN Rem(h - t, IndexRange) >= BUF_SIZE
                       ELSE ~(Rem(h + 1 - t, IndexRange) <= BUF_SIZE)
  BY DEF Full, Wrapped, Rem
<1> HIDE DEF h, t, b, n
<1>6. /\ n \in Under(IndexRange) /\ h = Rem(t + n, IndexRange)
      /\ n + 1 < IndexRange => /\ Rem(Rem(h + 1, IndexRange) - t, IndexRange) = n + 1
                               /\ Rem(h + 1 - t, IndexRange) = n + 1
      /\ n > 0 => Rem(h - Rem(t + 1, IndexRange), IndexRange) = n - 1
  BY ONLY SizesLemma, <1>1, DistanceLemma
<1>7. n \in Nat /\ n + 1 < IndexRange
  BY <1>2, <1>3, <1>6 DEF Under
<1>8. Content(b, BUF_SIZE, t, n) \in Seq(Byte \cup {NUL}) /\ Len(Content(b, BUF_SIZE, t, n)) = n
  <2>1. BUF_SIZE \in Nat \ {0} /\ t \in Int
    BY <1>1, RingAssumption DEF Under
  <2>2. IsContent(Content(b, BUF_SIZE, t, n), b, BUF_SIZE, t, n, Byte \cup {NUL})
    BY <1>1, <1>7, <2>1, ContentLemma
  <2> QED
    BY <2>2 DEF IsContent
<1>9. Full(rx_buf) <=> n >= BUF_SIZE
  BY <1>1, <1>2, <1>3, <1>5, <1>6, <1>7
<1> QED
  BY <1>4, <1>6, <1>7, <1>8, <1>9 DEF h, t, b, n

\* A byte for which there is room is appended.
LEMMA ReceiveLemma ==
  ASSUME RingTyped, Inside <= BUF_SIZE, NEW c \in Byte, uart_rx_isr(c), ~Full(rx_buf)
  PROVE  RingTyped' /\ Inside' = Inside + 1 /\ Bytes' = Append(Bytes, c)
<1> DEFINE h == rx_buf.head
           t == rx_buf.tail
           b == rx_buf.buf
           n == Inside
           S == Byte \cup {NUL}
           s == Rem(h, BUF_SIZE)
           new == [b EXCEPT ![s] = c]
<1>1. h \in Under(IndexRange) /\ t \in Under(IndexRange) /\ b \in [Under(BUF_SIZE) -> S] /\ c \in S
  BY DEF RingTyped
<1>2. rx_buf' = [buf |-> new, head |-> Rem(h + 1, IndexRange), tail |-> t] /\ rx_sem' = rx_sem + 1
      /\ port' = port /\ getc' = getc
  BY DEF uart_rx_isr, Receive, RingTyped, Slot, Wrapped, Rem
<1>3. /\ n \in Nat /\ n < BUF_SIZE /\ h = Rem(t + n, IndexRange)
      /\ Rem(Rem(h + 1, IndexRange) - t, IndexRange) = n + 1 /\ Bytes = Content(b, BUF_SIZE, t, n)
  BY RingLemma, RingAssumption
<1>4. Inside' = Rem(Rem(h + 1, IndexRange) - t, IndexRange)
  BY <1>2 DEF Inside, Wrapped, Rem
<1>5. Bytes' = Content(new, BUF_SIZE, t, Inside')
  BY <1>2 DEF Bytes, Content, Slot, Rem
<1>6. Rem(h + 1, IndexRange) \in Under(IndexRange)
  BY SizesLemma, <1>1, NextIndex
<1>x. s = Rem(t + n, BUF_SIZE)
  <2> DEFINE a == t + n
  <2>1. a \in Int /\ h = Rem(a, IndexRange)
    BY <1>1, <1>3, RingAssumption DEF Under
  <2> HIDE DEF a, h
  <2>2. Rem(h, BUF_SIZE) = Rem(a, BUF_SIZE)
    BY SizesLemma, <2>1, SlotLemma
  <2> QED
    BY <2>2 DEF a
<1> HIDE DEF h, t, b, n, S
<1> DEFINE m == Inside'
<1>m. m = n + 1 /\ StoredBehind(new, b, BUF_SIZE, t, n, m, c)
  BY <1>3, <1>4, <1>x DEF StoredBehind
<1> HIDE DEF new, s, m
<1>7. new \in [Under(BUF_SIZE) -> S] /\ OneMore(new, b, BUF_SIZE, t, n, m, c)
  <2>1. StoredBehind(new, b, BUF_SIZE, t, n, m, c) /\ n \in Nat /\ n < BUF_SIZE
    BY <1>3, <1>m
  <2> QED
    BY ONLY SizesLemma, <1>1, <2>1, StoreLemma
<1>8. RingTyped'
  BY <1>1, <1>2, <1>6, <1>7 DEF RingTyped, S
<1> QED
  BY <1>3, <1>5, <1>7, <1>8, <1>m DEF n, m, OneMore

\* The byte at tail is taken away.
LEMMA AdvanceLemma ==
  ASSUME RingTyped, Inside <= BUF_SIZE, Inside > 0, GetcAdvances
  PROVE  RingTyped' /\ Inside' = Inside - 1 /\ Bytes' = Tail(Bytes)
<1> DEFINE h == rx_buf.head
           t == rx_buf.tail
           b == rx_buf.buf
           n == Inside
           S == Byte \cup {NUL}
           new == Rem(t + 1, IndexRange)
<1>1. h \in Under(IndexRange) /\ t \in Under(IndexRange) /\ b \in [Under(BUF_SIZE) -> S]
  BY DEF RingTyped
<1>2. rx_buf' = [buf |-> b, head |-> h, tail |-> new] /\ rx_sem' = rx_sem /\ port' = port
      /\ getc' = [getc EXCEPT !.at = "return"]
  BY DEF GetcAdvances, RingTyped, Wrapped, Rem
<1>3. n \in Nat /\ n > 0 /\ Rem(h - new, IndexRange) = n - 1 /\ Bytes = Content(b, BUF_SIZE, t, n)
  BY RingLemma
<1>4. Inside' = Rem(h - new, IndexRange)
  BY <1>2 DEF Inside, Wrapped, Rem
<1>5. Bytes' = Content(b, BUF_SIZE, new, Inside')
  BY <1>2 DEF Bytes, Content, Slot, Rem
<1>6. new \in Under(IndexRange)
  BY SizesLemma, <1>1, NextIndex
<1> HIDE DEF h, t, b, n, S
<1>7. Content(b, BUF_SIZE, new, n - 1) = Tail(Content(b, BUF_SIZE, t, n))
  <2>1. RingSizes(BUF_SIZE, IndexRange)
    BY SizesLemma
  <2>2. b \in [Under(BUF_SIZE) -> S] /\ t \in Under(IndexRange) /\ n \in Nat /\ n > 0
    BY <1>1, <1>3
  <2>3. Content(b, BUF_SIZE, Rem(t + 1, IndexRange), n - 1) = Tail(Content(b, BUF_SIZE, t, n))
    BY ONLY <2>1, <2>2, DropLemma, Zenon
  <2> QED
    BY <2>3 DEF new
<1> HIDE DEF new
<1>8. RingTyped'
  BY <1>1, <1>2, <1>6 DEF RingTyped, S
<1> QED
  BY <1>3, <1>4, <1>5, <1>7, <1>8 DEF n

-----------------------------------------------------------------------------
(* Every step of the ring *)

\* What a step is to the FIFO.
FifoStep == Fifo!FifoSend \/ Fifo!FifoRecv \/ Bytes' = Bytes

\* The ring is empty at the start.
LEMMA RingInitLemma ==
  ASSUME RingInit
  PROVE  RingInv /\ Bytes = <<>>
<1>1. BUF_SIZE \in Nat \ {0} /\ IndexRange \in Nat \ {0} /\ 0 \in Under(IndexRange)
      /\ Ports \subseteq {"counts", "looks_ahead"}
  BY RingAssumption DEF Under
<1>2. RingTyped
  BY <1>1 DEF RingInit, RingTyped, Under
<1>3. Inside = 0
  <2>1. rx_buf.head - rx_buf.tail = 0
    BY DEF RingInit
  <2>2. 0 \in Int /\ 0 \in 0..(IndexRange - 1)
    BY <1>1
  <2>3. 0 % IndexRange = 0
    BY <1>1, <2>2, ModLemma
  <2> QED
    BY <2>1, <2>3 DEF Inside, Wrapped
<1>4. Bytes = <<>>
  <2>1. Inside <= BUF_SIZE
    BY <1>1, <1>3
  <2>2. Bytes \in Seq(Byte \cup {NUL}) /\ Len(Bytes) = 0
    BY <1>2, <1>3, <2>1, RingLemma
  <2> QED
    BY <2>2
<1>5. BytesCounted
  BY <1>1, <1>3 DEF BytesCounted, RingInit
<1>6. Written
  BY <1>3 DEF Written
<1> QED
  BY <1>2, <1>4, <1>5, <1>6 DEF RingInv

\* The handler keeps the counts together and appends to the FIFO, or drops the byte.
LEMMA IsrStep ==
  ASSUME RingInv, NEW c \in Byte, uart_rx_isr(c)
  PROVE  RingInv' /\ FifoStep
<1>1. /\ RingTyped /\ Inside <= BUF_SIZE /\ Bytes \in Seq(Byte \cup {NUL}) /\ Len(Bytes) = Inside
      /\ Inside \in Nat /\ (Full(rx_buf) <=> Inside >= BUF_SIZE) /\ rx_sem \in Nat
      /\ Inside = rx_sem + (IF getc.at \in {"read", "advance"} THEN 1 ELSE 0)
      /\ getc.at = "advance" => getc.c = Bytes[1]
      /\ \A i \in 1..Inside : Bytes[i] \in Byte
  BY RingLemma DEF RingInv, BytesCounted, RingTyped, Written
<1>b. BUF_SIZE \in Nat
  BY RingAssumption
<1>2. CASE Full(rx_buf)
  <2>1. UNCHANGED ringVars
    BY <1>2 DEF uart_rx_isr, ringVars
  <2>2. Bytes' = Bytes /\ Inside' = Inside
    BY <2>1 DEF ringVars, Bytes, Inside
  <2> QED
    BY <2>1, <2>2 DEF ringVars, RingInv, RingTyped, BytesCounted, Written, FifoStep
<1>3. CASE ~Full(rx_buf)
  <2>1. RingTyped' /\ Inside' = Inside + 1 /\ Bytes' = Append(Bytes, c)
    BY <1>1, <1>3, ReceiveLemma
  <2>2. rx_sem' = rx_sem + 1 /\ getc' = getc
    BY <1>3 DEF uart_rx_isr, Receive
  <2> DEFINE n == Inside
             old == Bytes
             new == Bytes'
  <2>3. \A i \in 1..n + 1 : new[i] = IF i = n + 1 THEN c ELSE old[i]
    <3>1. old \in Seq(Byte \cup {NUL}) /\ Len(old) = n /\ new = Append(old, c) /\ n \in Nat
      BY <1>1, <2>1
    <3> HIDE DEF n, old, new
    <3> QED
      BY <3>1
  <2>4. Written'
    <3>1. Inside' = n + 1 /\ n \in Nat /\ c \in Byte /\ \A i \in 1..n : old[i] \in Byte
      BY <1>1, <2>1
    <3>2. Written' <=> \A i \in 1..Inside' : new[i] \in Byte
      BY DEF Written
    <3> HIDE DEF n, old, new
    <3>3. ASSUME NEW i \in 1..(n + 1) PROVE new[i] \in Byte
      <4>1. i = n + 1 \/ i \in 1..n
        BY <3>1
      <4>2. new[i] = IF i = n + 1 THEN c ELSE old[i]
        BY <2>3
      <4> QED
        BY <3>1, <4>1, <4>2
    <3> QED
      BY <3>1, <3>2, <3>3
  <2>5. getc.at = "advance" => getc.c = new[1]
    <3>1. getc.at = "advance" => n \in Nat /\ n > 0 /\ getc.c = old[1]
      BY <1>1
    <3> HIDE DEF n, old, new
    <3>2. n \in Nat /\ n > 0 => new[1] = old[1]
      BY <2>3
    <3> QED
      BY <3>1, <3>2
  <2>6. BytesCounted'
    <3>1. /\ Inside' <= BUF_SIZE
          /\ Inside' = rx_sem' + (IF getc'.at \in {"read", "advance"} THEN 1 ELSE 0)
      BY <1>1, <1>3, <1>b, <2>1, <2>2
    <3> QED
      BY <2>2, <2>5, <3>1 DEF BytesCounted
  <2>7. Fifo!FifoSend
    <3>1. Len(Bytes) < BUF_SIZE
      BY <1>1, <1>3, <1>b
    <3> QED
      BY <2>1, <3>1 DEF Fifo!FifoSend
  <2> QED
    BY <2>1, <2>4, <2>6, <2>7 DEF RingInv, FifoStep
<1> QED
  BY <1>2, <1>3

\* shell_getc takes the unit of a byte, and that byte.
LEMMA GetcStep ==
  ASSUME ~Forced, RingInv, GetcTakes \/ GetcReads \/ GetcAdvances \/ GetcCalled
  PROVE  RingInv' /\ FifoStep
<1>1. /\ RingTyped /\ Inside <= BUF_SIZE /\ Bytes \in Seq(Byte \cup {NUL}) /\ Len(Bytes) = Inside
      /\ Inside \in Nat /\ rx_sem \in Nat
      /\ Inside = rx_sem + (IF getc.at \in {"read", "advance"} THEN 1 ELSE 0)
      /\ getc.at = "advance" => getc.c = Bytes[1]
      /\ \A i \in 1..Inside : Bytes[i] \in Byte
  BY RingLemma DEF RingInv, BytesCounted, RingTyped, Written
<1>b. BUF_SIZE \in Nat
  BY RingAssumption
<1>2. CASE rx_buf' = rx_buf /\ port' = port
  <2>1. Bytes' = Bytes /\ Inside' = Inside
    BY <1>2 DEF Bytes, Inside
  <2>2. Written' /\ FifoStep
    BY <1>1, <2>1 DEF Written, FifoStep
  <2>3. CASE GetcTakes
    <3>1. getc.at = "take" /\ rx_sem > 0 /\ rx_sem' = rx_sem - 1 /\ getc' = [getc EXCEPT !.at = "read"]
      BY <2>3 DEF GetcTakes
    <3>2. getc' \in [at : {"take", "read", "advance", "return"}, c : Byte \cup {NUL}]
          /\ getc'.at = "read"
      BY <1>1, <3>1 DEF RingTyped
    <3>3. RingTyped'
      BY <1>1, <1>2, <3>1, <3>2 DEF RingTyped
    <3>4. Inside = rx_sem' + 1
      BY <1>1, <3>1
    <3> QED
      BY <1>1, <2>1, <2>2, <3>2, <3>3, <3>4 DEF RingInv, BytesCounted
  <2>4. CASE GetcReads
    <3>1. getc.at = "read" /\ rx_sem' = rx_sem
          /\ getc' = [at |-> "advance", c |-> rx_buf.buf[Slot(rx_buf.tail)]]
      BY <2>4 DEF GetcReads
    <3>2. Inside > 0 /\ rx_buf.tail \in Int
      BY <1>1, <3>1, RingAssumption DEF RingTyped, Under
    <3>3. Bytes[1] = rx_buf.buf[Slot(rx_buf.tail)]
      <4>1. rx_buf.tail + 1 - 1 = rx_buf.tail /\ 1 \in 1..Inside
        BY <1>1, <3>2
      <4> QED
        BY <4>1 DEF Bytes
    <3>4. Bytes[1] \in Byte
      BY <1>1, <3>2
    <3>5. RingTyped'
      BY <1>1, <1>2, <3>1, <3>3, <3>4 DEF RingTyped
    <3> QED
      BY <1>1, <2>1, <2>2, <3>1, <3>3, <3>5 DEF RingInv, BytesCounted
  <2>5. CASE GetcCalled
    <3>1. getc.at = "return" /\ rx_sem' = rx_sem /\ getc' = [at |-> "take", c |-> NUL]
      BY <2>5 DEF GetcCalled
    <3>2. RingTyped'
      BY <1>1, <1>2, <3>1 DEF RingTyped
    <3> QED
      BY <1>1, <2>1, <2>2, <3>1, <3>2 DEF RingInv, BytesCounted
  <2>6. CASE GetcAdvances
    <3>1. Inside' = Inside - 1
      BY <1>1, <2>6, AdvanceLemma DEF GetcAdvances
    <3> QED
      BY <1>1, <2>1, <3>1
  <2> QED
    BY <2>3, <2>4, <2>5, <2>6
<1>3. CASE GetcAdvances
  <2>1. getc.at = "advance" /\ rx_sem' = rx_sem /\ getc' = [getc EXCEPT !.at = "return"]
    BY <1>3 DEF GetcAdvances
  <2>2. Inside > 0
    BY <1>1, <2>1
  <2>3. RingTyped' /\ Inside' = Inside - 1 /\ Bytes' = Tail(Bytes)
    BY <1>1, <1>3, <2>2, AdvanceLemma
  <2>4. getc'.at = "return"
    BY <1>1, <2>1 DEF RingTyped
  <2>5. BytesCounted'
    BY <1>1, <1>b, <2>1, <2>3, <2>4 DEF BytesCounted
  <2> DEFINE n == Inside
             old == Bytes
             new == Bytes'
  <2>6. Written'
    <3>1. /\ old \in Seq(Byte \cup {NUL}) /\ Len(old) = n /\ new = Tail(old) /\ n \in Nat /\ n > 0
          /\ Inside' = n - 1 /\ \A i \in 1..n : old[i] \in Byte
      BY <1>1, <2>2, <2>3
    <3>2. Written' <=> \A i \in 1..Inside' : new[i] \in Byte
      BY DEF Written
    <3> HIDE DEF n, old, new
    <3>3. \A i \in 1..(n - 1) : new[i] = old[i + 1] /\ i + 1 \in 1..n
      BY <3>1
    <3> QED
      BY <3>1, <3>2, <3>3
  <2>7. Fifo!FifoRecv
    <3>1. Bytes # <<>>
      BY <1>1, <2>2
    <3> QED
      BY <2>3, <3>1 DEF Fifo!FifoRecv
  <2> QED
    BY <2>3, <2>5, <2>6, <2>7 DEF RingInv, FifoStep
<1> QED
  BY <1>2, <1>3 DEF GetcTakes, GetcReads, GetcAdvances, GetcCalled

\* The invariant is inductive, and a step of the ring is one of the FIFO or none.
LEMMA RingStep ==
  ASSUME ~Forced, RingInv, [RingNext]_ringVars
  PROVE  RingInv' /\ FifoStep
<1>1. CASE UNCHANGED ringVars
  <2>1. Bytes' = Bytes /\ Inside' = Inside
    BY <1>1 DEF ringVars, Bytes, Inside
  <2> QED
    BY <1>1, <2>1 DEF ringVars, RingInv, RingTyped, BytesCounted, Written, FifoStep
<1>2. CASE \E c \in Byte : uart_rx_isr(c)
  BY <1>2, IsrStep
<1>3. CASE GetcTakes \/ GetcReads \/ GetcAdvances \/ GetcCalled
  BY <1>3, GetcStep
<1> QED
  BY <1>1, <1>2, <1>3 DEF RingNext

\* The two counts of the ring agree at every point of shell_getc, whatever the handler
\* does in between and however often the indices wrap (uart_rx_isr and shell_getc).
\* A thread suspended and resumed inside the take claims a byte without a unit.
THEOREM CountsAgree ==
  ASSUME ~Forced
  PROVE  RingSpec => []BytesCounted
<1>1. RingInit => RingInv
  BY RingInitLemma
<1>2. RingInv /\ [RingNext]_ringVars => RingInv'
  BY RingStep
<1>3. RingInv => BytesCounted
  BY DEF RingInv
<1> QED
  BY <1>1, <1>2, <1>3, PTL DEF RingSpec

\* What the handler accepts comes out in order, each byte once: the ring of any size that
\* divides the range of the indices implements the FIFO of that capacity.
THEOREM RingImplements ==
  ASSUME ~Forced
  PROVE  RingSpec => RingIsFifo
<1>1. RingInit => RingInv /\ Bytes = <<>>
  BY RingInitLemma
<1>2. RingInv /\ [RingNext]_ringVars => RingInv'
  BY RingStep
<1>3. RingInv /\ [RingNext]_ringVars => [Fifo!FifoSend \/ Fifo!FifoRecv]_Bytes
  BY RingStep DEF FifoStep
<1> QED
  BY <1>1, <1>2, <1>3, PTL DEF RingSpec, RingIsFifo, Fifo!FifoAbstract

-----------------------------------------------------------------------------
(* The timer service: the tree and the alarm *)

QState == [tickless : BOOLEAN, armed : Seq(Timer), expire_time : [Timer -> 0..TimeMax],
           alarm : 0..TimeMax \cup {None}, irq : BOOLEAN]

\* Only the alarm and its interrupt differ.
SameTree(r, s) ==
  r.tickless = s.tickless /\ r.armed = s.armed /\ r.expire_time = s.expire_time

\* The tree is in the order in which the timers expire.
Sorted(s) ==
  \A i, j \in DOMAIN s.armed : i < j => s.expire_time[s.armed[i]] <= s.expire_time[s.armed[j]]

\* The interrupt is pending, or the alarm rings before t is late.
Covers(s, t) ==
  s.irq \/ (s.alarm # None /\ (s.alarm <= now \/ s.alarm <= s.expire_time[t]))

CoversAll(s) == \A t \in Timer : Armed(s, t) => Covers(s, t)

-----------------------------------------------------------------------------
(* The operations on the tree and on the alarm *)

\* A timer on the tree: the first one is on it too, and in a sorted tree no later.
LEMMA FirstLemma ==
  ASSUME NEW s \in QState, NEW t, Armed(s, t)
  PROVE  /\ t \in Timer /\ s.armed # <<>>
         /\ First(s) \in Timer /\ Armed(s, First(s))
         /\ Sorted(s) => s.expire_time[First(s)] <= s.expire_time[t]
<1>1. PICK i \in 1..Len(s.armed) : s.armed[i] = t
  BY DEF Armed, Contains, QState
<1>2. s.armed \in Seq(Timer) /\ Len(s.armed) \in Nat /\ 1 \in 1..Len(s.armed)
  BY <1>1 DEF QState
<1>3. t \in Timer /\ s.armed # <<>> /\ First(s) \in Timer /\ Armed(s, First(s))
  BY <1>1, <1>2 DEF First, Armed, Contains
<1>4. ASSUME Sorted(s) PROVE s.expire_time[First(s)] <= s.expire_time[t]
  <2>1. s.expire_time[t] \in Int
    BY <1>3 DEF QState
  <2>2. CASE i = 1
    BY <1>1, <2>1, <2>2 DEF First
  <2>3. CASE i # 1
    BY <1>1, <1>2, <1>4, <2>3 DEF First, Sorted
  <2> QED
    BY <2>2, <2>3
<1> QED
  BY <1>3, <1>4

\* The other way round: a tree that is not empty has a first timer.
LEMMA NonEmptyLemma ==
  ASSUME NEW s \in QState, s.armed # <<>>
  PROVE  First(s) \in Timer /\ Armed(s, First(s))
<1>1. s.armed \in Seq(Timer) /\ 1 \in 1..Len(s.armed)
  BY EmptySeq DEF QState
<1> QED
  BY <1>1 DEF First, Armed, Contains

\* Programming, triggering and clearing the alarm do not touch the tree.
LEMMA AlarmLemma ==
  ASSUME NEW s \in QState, now \in 0..MaxNow
  PROVE  /\ \A e \in 0..TimeMax : /\ nd_hw_hrtimer_set_expire(s, e) \in QState
                                  /\ SameTree(nd_hw_hrtimer_set_expire(s, e), s)
         /\ nd_hw_hrtimer_trigger(s) \in QState /\ SameTree(nd_hw_hrtimer_trigger(s), s)
         /\ nd_hw_hrtimer_trigger_clear(s) \in QState
         /\ SameTree(nd_hw_hrtimer_trigger_clear(s), s)
         /\ TriggerIfDue(s) \in QState /\ SameTree(TriggerIfDue(s), s)
<1>1. now \in 0..TimeMax /\ now \in Int /\ Reach \in Nat /\ TimeMax \in Nat
  BY TimerAssumption
<1>2. ASSUME NEW a \in 0..TimeMax \cup {None}
      PROVE  [s EXCEPT !.alarm = a] \in QState /\ SameTree([s EXCEPT !.alarm = a], s)
  BY DEF QState, SameTree
<1>3. [s EXCEPT !.irq = TRUE] \in QState /\ SameTree([s EXCEPT !.irq = TRUE], s)
  BY DEF QState, SameTree
<1>4. ASSUME NEW e \in 0..TimeMax
      PROVE  /\ nd_hw_hrtimer_set_expire(s, e) \in QState
             /\ SameTree(nd_hw_hrtimer_set_expire(s, e), s)
  <2>1. CASE e <= now
    BY <1>1, <1>2, <2>1 DEF nd_hw_hrtimer_set_expire, SetPast
  <2>2. CASE ~(e <= now)
    <3>1. (IF e - now > Reach THEN now + Reach ELSE e) \in 0..TimeMax
      BY <1>1, <2>2
    <3> QED
      BY <1>2, <2>2, <3>1 DEF nd_hw_hrtimer_set_expire
  <2> QED
    BY <2>1, <2>2
<1>5. nd_hw_hrtimer_trigger(s) \in QState /\ SameTree(nd_hw_hrtimer_trigger(s), s)
  BY <1>1, <1>2, <1>3 DEF nd_hw_hrtimer_trigger
<1>6. nd_hw_hrtimer_trigger_clear(s) \in QState /\ SameTree(nd_hw_hrtimer_trigger_clear(s), s)
  BY <1>2 DEF nd_hw_hrtimer_trigger_clear
<1>7. TriggerIfDue(s) \in QState /\ SameTree(TriggerIfDue(s), s)
  BY <1>5 DEF TriggerIfDue, SameTree
<1> QED
  BY <1>4, <1>5, <1>6, <1>7

\* Where a target in the past rings at once, a triggered alarm covers every timer, and
\* one programmed for the first timer of a sorted tree does.
LEMMA CoverLemma ==
  ASSUME NEW s \in QState, now \in 0..MaxNow, ~PastFails
  PROVE  /\ \A t \in Timer : Covers(nd_hw_hrtimer_trigger(s), t)
         /\ \A t \in Timer : Covers(s, t) => Covers(TriggerIfDue(s), t)
         /\ Sorted(s) /\ s.armed # <<>> =>
              CoversAll(nd_hw_hrtimer_set_expire(s, s.expire_time[First(s)]))
<1>1. now \in Nat /\ Reach \in Nat /\ TimeMax \in Nat /\ None \notin Nat
  BY TimerAssumption
<1>2. \A t \in Timer : Covers(nd_hw_hrtimer_trigger(s), t)
  BY <1>1 DEF Covers, nd_hw_hrtimer_trigger, QState
<1>3. \A t \in Timer : Covers(s, t) => Covers(TriggerIfDue(s), t)
  BY <1>2 DEF TriggerIfDue
<1>4. ASSUME Sorted(s), s.armed # <<>>
      PROVE  CoversAll(nd_hw_hrtimer_set_expire(s, s.expire_time[First(s)]))
  <2> DEFINE e == s.expire_time[First(s)]
             r == nd_hw_hrtimer_set_expire(s, e)
  <2>1. e \in 0..TimeMax
    BY <1>4, NonEmptyLemma DEF QState
  <2>2. r \in QState /\ SameTree(r, s)
    BY <2>1, AlarmLemma
  <2>3. r.alarm # None /\ r.alarm \in Nat /\ (r.alarm <= now \/ r.alarm <= e)
    <3> HIDE DEF e
    <3>1. r.alarm = IF e <= now THEN now ELSE IF e - now > Reach THEN now + Reach ELSE e
      BY DEF nd_hw_hrtimer_set_expire, SetPast, QState
    <3>2. e \in Nat
      BY <2>1, <1>1
    <3> HIDE DEF r
    <3> QED
      BY <3>1, <3>2, <1>1
  <2>4. ASSUME NEW t \in Timer, Armed(r, t) PROVE Covers(r, t)
    <3>1. Armed(s, t) /\ r.expire_time[t] = s.expire_time[t]
      BY <2>2, <2>4 DEF SameTree, Armed
    <3>2. e <= s.expire_time[t]
      BY <3>1, <1>4, FirstLemma
    <3>3. s.expire_time[t] \in Int /\ e \in Int
      BY <2>1 DEF QState
    <3> HIDE DEF e, r
    <3>4. r.alarm <= now \/ r.alarm <= r.expire_time[t]
      BY <2>3, <3>1, <3>2, <3>3
    <3> QED
      BY <2>3, <3>4 DEF Covers
  <2> QED
    BY <2>4 DEF CoversAll
<1> QED
  BY <1>2, <1>3, <1>4

\* Taking a timer off the tree.
LEMMA EraseLemma ==
  ASSUME NEW s \in QState, IsInjective(s.armed), NEW t
  PROVE  /\ Erase(s, t) \in QState /\ IsInjective(Erase(s, t).armed)
         /\ Erase(s, t) = [s EXCEPT !.armed = Erase(s, t).armed]
         /\ \A u : Armed(Erase(s, t), u) <=> Armed(s, u) /\ u # t
         /\ Sorted(s) => Sorted(Erase(s, t))
<1> DEFINE a == RemoveFirst(s.armed, t)
<1>1. s.armed \in Seq(Timer)
  BY DEF QState
<1>2. /\ a \in Seq(Timer) /\ IsInjective(a)
      /\ \A u : Contains(a, u) <=> Contains(s.armed, u) /\ u # t
  BY <1>1, RemoveFirstLemma
<1>3. \A i, j \in DOMAIN a : i < j =>
        \E m, n \in DOMAIN s.armed : m < n /\ a[i] = s.armed[m] /\ a[j] = s.armed[n]
  BY <1>1, RemoveFirstOrder
<1>4. Erase(s, t) = [s EXCEPT !.armed = a]
  BY DEF Erase
<1> HIDE DEF a
<1>5. Erase(s, t) \in QState /\ Erase(s, t).armed = a /\ Erase(s, t).expire_time = s.expire_time
  BY <1>2, <1>4 DEF QState
<1>6. Sorted(s) => Sorted(Erase(s, t))
  BY <1>3, <1>5 DEF Sorted
<1> QED
  BY <1>2, <1>4, <1>5, <1>6 DEF Armed

\* Putting a timer on the tree.
LEMMA InsertLemma ==
  ASSUME NEW s \in QState, IsInjective(s.armed), NEW t \in Timer, ~Armed(s, t)
  PROVE  LET r == timer_node_insert(s, t)
         IN /\ r \in QState /\ IsInjective(r.armed)
            /\ r = [s EXCEPT !.armed = r.armed]
            /\ \A u : Armed(r, u) <=> Armed(s, u) \/ u = t
            /\ Sorted(s) => Sorted(r)
<1> DEFINE l == s.armed
           x(u) == s.expire_time[u]
           later == {i \in DOMAIN l : s.expire_time[l[i]] > s.expire_time[t]}
           a == IF later = {} THEN Append(l, t) ELSE InsertAt(l, Min(later), t)
           At(n) == \A i \in 1..(Len(l) + 1) :
                      a[i] = IF i < n THEN l[i] ELSE IF i = n THEN t ELSE l[i - 1]
           Suits(n) == /\ \A i \in 1..Len(l) : i < n => x(l[i]) <= x(t)
                       /\ n \in 1..Len(l) => x(l[n]) > x(t)
<1>1. l \in Seq(Timer) /\ DOMAIN l = 1..Len(l) /\ Len(l) \in Nat
  BY DEF QState
<1>2. \A u \in Timer : x(u) \in Int
  BY DEF QState
<1>3. ~Contains(l, t) /\ IsInjective(l)
  BY DEF Armed
<1>4. /\ a \in Seq(Timer) /\ Len(a) = Len(l) + 1 /\ IsInjective(a)
      /\ \A u : Contains(a, u) <=> Contains(l, u) \/ u = t
      /\ \E n \in 1..(Len(l) + 1) : At(n) /\ Suits(n)
  <2>1. CASE later = {}
    <3>1. a = Append(l, t)
      BY <2>1
    <3>5. Suits(Len(l) + 1)
      BY <1>1, <1>2, <2>1
    <3> HIDE DEF l, later, a, Suits
    <3>2. IsInjective(a) /\ \A u : Contains(a, u) <=> Contains(l, u) \/ u = t
      BY <1>1, <1>3, <3>1, AppendLemma
    <3>3. /\ a \in Seq(Timer) /\ Len(a) = Len(l) + 1
          /\ \A i \in 1..(Len(l) + 1) : a[i] = IF i < Len(l) + 1 THEN l[i] ELSE t
      BY <1>1, <3>1
    <3>4. At(Len(l) + 1) /\ Len(l) + 1 \in 1..(Len(l) + 1)
      BY <1>1, <3>3
    <3> HIDE DEF At
    <3> QED
      BY <3>2, <3>3, <3>4, <3>5
  <2>2. CASE later # {}
    <3> DEFINE m == Min(later)
    <3>1. later \subseteq Nat
      BY <1>1
    <3>2. m \in later /\ \A i \in later : m <= i
      BY <2>2, <3>1, MinIsLeast
    <3>3. a = InsertAt(l, m, t)
      BY <2>2
    <3>4. m \in 1..Len(l) /\ m \in 1..(Len(l) + 1)
      BY <1>1, <3>2
    <3> HIDE DEF m, l
    <3>5. Suits(m)
      BY <1>1, <1>2, <3>2, <3>4
    <3> HIDE DEF Suits, a, later
    <3>6. /\ a \in Seq(Timer) /\ Len(a) = Len(l) + 1 /\ IsInjective(a)
          /\ \A u : Contains(a, u) <=> Contains(l, u) \/ u = t
      BY <1>1, <1>3, <3>3, <3>4, InsertAtLemma
    <3>7. t \in Timer /\ l \in Seq(Timer)
      BY <1>1
    <3>8. At(m)
      BY ONLY <3>3, <3>4, <3>7, InsertAtLemma
    <3> HIDE DEF At
    <3> QED
      BY <3>4, <3>5, <3>6, <3>8
  <2> QED
    BY <2>1, <2>2
<1>5. timer_node_insert(s, t) = [s EXCEPT !.armed = a]
  BY DEF timer_node_insert
<1>6. PICK n \in 1..(Len(l) + 1) : At(n) /\ Suits(n)
  BY <1>4
<1>7. ASSUME Sorted(s), NEW i \in 1..Len(a), NEW j \in 1..Len(a), i < j
      PROVE  x(a[i]) <= x(a[j])
  <2>1. \A m, o \in 1..Len(l) : m < o => x(l[m]) <= x(l[o])
    BY <1>1, <1>7 DEF Sorted
  <2>2. \A m \in 1..Len(l) : x(l[m]) \in Int
    BY <1>1, <1>2
  <2>3. x(t) \in Int
    BY <1>2
  <2>4. \A m \in 1..Len(l) : m >= n => x(t) < x(l[m])
    <3> HIDE DEF a, l, x, At
    <3>1. n \in Nat
      BY <1>6
    <3> QED
      BY <1>1, <1>6, <2>1, <2>2, <2>3, <3>1
  <2>5. \A m \in 1..Len(l) : m < n => x(l[m]) <= x(t)
    BY <1>6
  <2>6. i \in 1..(Len(l) + 1) /\ j \in 1..(Len(l) + 1)
    BY <1>4
  <2>7. /\ a[i] = IF i < n THEN l[i] ELSE IF i = n THEN t ELSE l[i - 1]
        /\ a[j] = IF j < n THEN l[j] ELSE IF j = n THEN t ELSE l[j - 1]
    BY <1>6, <2>6
  <2> HIDE DEF a, l, x, At, Suits
  <2>8. CASE j < n
    BY <1>1, <1>7, <2>1, <2>6, <2>7, <2>8
  <2>9. CASE j = n
    BY <1>1, <1>7, <2>5, <2>6, <2>7, <2>9
  <2>10. CASE n < j
    <3>1. j - 1 \in 1..Len(l) /\ n <= j - 1 /\ a[j] = l[j - 1]
      BY <1>1, <2>6, <2>7, <2>10
    <3>2. x(t) < x(l[j - 1])
      BY <2>4, <3>1
    <3>3. CASE i < n
      <4>1. i \in 1..Len(l) /\ a[i] = l[i] /\ i < j - 1
        BY <1>1, <2>6, <2>7, <3>1, <3>3
      <4> QED
        BY <2>1, <3>1, <4>1
    <3>4. CASE i = n
      BY <2>2, <2>3, <2>7, <3>1, <3>2, <3>4
    <3>5. CASE n < i
      <4>1. i - 1 \in 1..Len(l) /\ a[i] = l[i - 1] /\ i - 1 < j - 1
        BY <1>1, <1>7, <2>6, <2>7, <3>5
      <4> QED
        BY <2>1, <3>1, <4>1
    <3> QED
      BY <2>6, <3>3, <3>4, <3>5
  <2> QED
    BY <2>6, <2>8, <2>9, <2>10
<1> HIDE DEF a
<1>8. /\ timer_node_insert(s, t) \in QState /\ timer_node_insert(s, t).armed = a
      /\ timer_node_insert(s, t).expire_time = s.expire_time
  BY <1>4, <1>5 DEF QState
<1>9. Sorted(s) => Sorted(timer_node_insert(s, t))
  <2>1. DOMAIN a = 1..Len(a)
    BY <1>4
  <2> QED
    BY <1>7, <1>8, <2>1 DEF Sorted
<1> QED
  BY <1>4, <1>5, <1>8, <1>9 DEF Armed

\* The tree is r's without the times, and r covers what s does, but for t.
Without(r, s, t) ==
  /\ r \in QState /\ IsInjective(r.armed)
  /\ r.tickless = s.tickless /\ r.expire_time = s.expire_time
  /\ \A u : Armed(r, u) <=> Armed(s, u) /\ u # t
  /\ Sorted(s) => Sorted(r)

\* After the tree has changed the alarm is programmed again or, without a timer, cleared.
LEMMA ProgramLemma ==
  ASSUME NEW s \in QState, now \in 0..MaxNow
  PROVE  /\ Program(s) \in QState /\ SameTree(Program(s), s)
         /\ ~PastFails /\ Sorted(s) => CoversAll(Program(s))
<1>1. CASE s.armed = <<>>
  <2>1. Program(s) = nd_hw_hrtimer_trigger_clear(s)
    BY <1>1 DEF Program
  <2>2. Program(s) \in QState /\ SameTree(Program(s), s)
    BY <2>1, AlarmLemma
  <2>3. \A t \in Timer : ~Armed(s, t)
    BY <1>1, FirstLemma
  <2>4. \A t \in Timer : ~Armed(Program(s), t)
    BY <2>2, <2>3 DEF SameTree, Armed
  <2> QED
    BY <2>2, <2>4 DEF CoversAll
<1>2. CASE s.armed # <<>>
  <2> DEFINE r == nd_hw_hrtimer_set_expire(s, s.expire_time[First(s)])
  <2>1. Program(s) = TriggerIfDue(r)
    BY <1>2 DEF Program
  <2>2. s.expire_time[First(s)] \in 0..TimeMax
    BY <1>2, NonEmptyLemma DEF QState
  <2>3. r \in QState /\ SameTree(r, s)
    BY <2>2, AlarmLemma
  <2>4. ~PastFails /\ Sorted(s) => CoversAll(r)
    BY <1>2, CoverLemma
  <2> HIDE DEF r
  <2>5. TriggerIfDue(r) \in QState /\ SameTree(TriggerIfDue(r), r)
    BY <2>3, AlarmLemma
  <2>6. ~PastFails => \A t \in Timer : Covers(r, t) => Covers(TriggerIfDue(r), t)
    BY <2>3, CoverLemma
  <2>7. \A t \in Timer : Armed(TriggerIfDue(r), t) <=> Armed(r, t)
    BY <2>5 DEF SameTree, Armed
  <2>8. SameTree(TriggerIfDue(r), s)
    BY <2>3, <2>5 DEF SameTree
  <2> QED
    BY <2>1, <2>4, <2>5, <2>6, <2>7, <2>8 DEF CoversAll
<1> QED
  BY <1>1, <1>2

\* timer_remove: t is off the tree, and the timers left are covered as they were.
LEMMA RemoveLemma ==
  ASSUME NEW s \in QState, IsInjective(s.armed), NEW t \in Timer, now \in 0..MaxNow
  PROVE  /\ Without(timer_remove(s, t), s, t)
         /\ ~PastFails /\ Sorted(s) =>
              \A u \in Timer : Armed(s, u) /\ u # t /\ Covers(s, u) => Covers(timer_remove(s, t), u)
<1> DEFINE w == Erase(s, t)
           r == timer_remove(s, t)
<1>1. /\ w \in QState /\ IsInjective(w.armed) /\ w = [s EXCEPT !.armed = w.armed]
      /\ \A u : Armed(w, u) <=> Armed(s, u) /\ u # t
      /\ Sorted(s) => Sorted(w)
  BY EraseLemma
<1>2. w.tickless = s.tickless /\ w.expire_time = s.expire_time
      /\ w.alarm = s.alarm /\ w.irq = s.irq
  <2> DEFINE a == w.armed
  <2>1. w = [s EXCEPT !.armed = a]
    BY <1>1
  <2> HIDE DEF a, w
  <2> QED
    BY <2>1 DEF QState
<1>3. \A u \in Timer : Covers(s, u) => Covers(w, u)
  BY <1>2 DEF Covers
<1>4. \/ r = s /\ ~Armed(s, t)
      \/ r = w \/ r = Program(w) \/ r = TriggerIfDue(w)
  BY DEF timer_remove
<1> HIDE DEF w, r
<1>5. CASE r = s /\ ~Armed(s, t)
  BY <1>5 DEF Without, r
<1>6. CASE r = w
  BY <1>1, <1>2, <1>3, <1>6 DEF Without, r
<1>7. CASE r = Program(w) \/ r = TriggerIfDue(w)
  <2>1. r \in QState /\ SameTree(r, w)
    BY <1>1, <1>7, ProgramLemma, AlarmLemma
  <2>2. \A u : Armed(r, u) <=> Armed(w, u)
    BY <2>1 DEF SameTree, Armed
  <2>3. Sorted(w) => Sorted(r)
    BY <2>1 DEF SameTree, Sorted
  <2>4. Without(r, s, t)
    BY <1>1, <1>2, <2>1, <2>2, <2>3 DEF Without, SameTree
  <2>5. ASSUME ~PastFails, Sorted(s), NEW u \in Timer, Armed(s, u), u # t, Covers(s, u)
        PROVE  Covers(r, u)
    <3>1. CASE r = Program(w)
      <4>1. CoversAll(r)
        BY <1>1, <2>5, <3>1, ProgramLemma
      <4>2. Armed(r, u)
        BY <1>1, <2>2, <2>5
      <4> QED
        BY <4>1, <4>2 DEF CoversAll
    <3>2. CASE r = TriggerIfDue(w)
      BY <1>1, <1>3, <2>5, <3>2, CoverLemma
    <3> QED
      BY <1>7, <3>1, <3>2
  <2> QED
    BY <2>4, <2>5 DEF r
<1> QED
  BY <1>4, <1>5, <1>6, <1>7

\* A timer off the tree gets a new time and goes onto it: every other one has the time
\* it had, and is covered as it was.
Placed(r, s, t, e) ==
  /\ r \in QState /\ IsInjective(r.armed) /\ r.tickless = s.tickless
  /\ \A u : Armed(r, u) <=> Armed(s, u) \/ u = t
  /\ r.expire_time = [s.expire_time EXCEPT ![t] = e]
  /\ Sorted(s) => Sorted(r)

\* The insertion by nd_timer_start and by the loop of timer_expired.
LEMMA PlaceLemma ==
  ASSUME NEW w \in QState, IsInjective(w.armed), NEW t \in Timer, ~Armed(w, t),
         NEW e \in 0..TimeMax, NEW r,
         r = timer_node_insert([w EXCEPT !.expire_time[t] = e], t)
  PROVE  /\ Placed(r, w, t, e)
         /\ \A u \in Timer : u # t /\ Covers(w, u) => Covers(r, u)
<1> DEFINE m == [w EXCEPT !.expire_time[t] = e]
<1>1. /\ m \in QState /\ m.armed = w.armed /\ m.tickless = w.tickless
      /\ m.expire_time = [w.expire_time EXCEPT ![t] = e] /\ m.alarm = w.alarm /\ m.irq = w.irq
  BY DEF QState
<1>2. r = timer_node_insert(m, t)
  OBVIOUS
<1> HIDE DEF m
<1>3. IsInjective(m.armed) /\ (\A u : Armed(m, u) <=> Armed(w, u))
  BY <1>1 DEF Armed
<1>4. Sorted(w) => Sorted(m)
  <2> DEFINE l == w.armed
  <2>1. l \in Seq(Timer) /\ DOMAIN l = 1..Len(l) /\ ~Contains(l, t)
    BY DEF QState, Armed
  <2>2. \A i \in DOMAIN l : l[i] \in Timer /\ l[i] # t
    <3> HIDE DEF l
    <3> QED
      BY <2>1 DEF Contains
  <2>3. \A i \in DOMAIN l : m.expire_time[l[i]] = w.expire_time[l[i]]
    BY <1>1, <2>2 DEF QState
  <2> QED
    BY <1>1, <2>3 DEF Sorted
<1>5. /\ r \in QState /\ IsInjective(r.armed) /\ r = [m EXCEPT !.armed = r.armed]
      /\ \A u : Armed(r, u) <=> Armed(m, u) \/ u = t
      /\ Sorted(m) => Sorted(r)
  <2>1. m \in QState /\ IsInjective(m.armed) /\ ~Armed(m, t) /\ t \in Timer
    BY <1>1, <1>3
  <2> QED
    BY ONLY <1>2, <2>1, InsertLemma
<1>6. r.tickless = m.tickless /\ r.expire_time = m.expire_time
      /\ r.alarm = m.alarm /\ r.irq = m.irq
  <2> DEFINE a == r.armed
  <2>1. r = [m EXCEPT !.armed = a]
    BY <1>5
  <2> HIDE DEF a
  <2> QED
    BY ONLY <2>1, <1>1 DEF QState
<1>7. Placed(r, w, t, e)
  BY <1>1, <1>3, <1>4, <1>5, <1>6 DEF Placed
<1>8. ASSUME NEW u \in Timer, u # t, Covers(w, u) PROVE Covers(r, u)
  <2>1. r.expire_time[u] = w.expire_time[u]
    BY <1>1, <1>6, <1>8 DEF QState
  <2> QED
    BY <1>1, <1>6, <1>8, <2>1 DEF Covers
<1> QED
  BY <1>7, <1>8

\* nd_timer_start removes and inserts.
LEMMA StartLemma ==
  ASSUME NEW s \in QState, IsInjective(s.armed), NEW t \in Timer, now \in 0..MaxNow,
         NEW e \in 0..TimeMax, NEW r,
         r = timer_node_insert([timer_remove(s, t) EXCEPT !.expire_time[t] = e], t)
  PROVE  /\ Placed(r, s, t, e)
         /\ ~PastFails /\ Sorted(s) =>
              \A u \in Timer : Armed(s, u) /\ u # t /\ Covers(s, u) => Covers(r, u)
<1> DEFINE w == timer_remove(s, t)
<1>1. /\ Without(w, s, t)
      /\ ~PastFails /\ Sorted(s) =>
           \A u \in Timer : Armed(s, u) /\ u # t /\ Covers(s, u) => Covers(w, u)
  BY RemoveLemma
<1>2. r = timer_node_insert([w EXCEPT !.expire_time[t] = e], t)
  OBVIOUS
<1> HIDE DEF w
<1>3. w \in QState /\ IsInjective(w.armed) /\ ~Armed(w, t)
  BY <1>1 DEF Without
<1>4. /\ Placed(r, w, t, e)
      /\ \A u \in Timer : u # t /\ Covers(w, u) => Covers(r, u)
  BY <1>2, <1>3, PlaceLemma
<1> QED
  BY <1>1, <1>4 DEF Without, Placed

\* A round of the loop: the first timer leaves the tree, or comes back one timeout later.
Expired(r, s, f) ==
  /\ f \in Timer /\ Armed(s, f)
  /\ r \in QState /\ IsInjective(r.armed) /\ r.tickless = s.tickless
  /\ \A u : Armed(r, u) <=> Armed(s, u) /\ (u # f \/ type[f] = "periodic")
  /\ r.expire_time =
       IF type[f] = "periodic"
       THEN [s.expire_time EXCEPT ![f] = (s.expire_time[f] + timeout[f]) % (TimeMax + 1)]
       ELSE s.expire_time
  /\ Sorted(s) => Sorted(r)

\* That is what taking off and rearming do.
LEMMA ExpireLemma ==
  ASSUME NEW s \in QState, IsInjective(s.armed), s.armed # <<>>,
         timeout \in [Timer -> 1..TimeMax], type \in [Timer -> Types]
  PROVE  Expired(Rearm(Erase(s, First(s)), First(s)), s, First(s))
<1> DEFINE f == First(s)
           r == Rearm(Erase(s, f), f)
<1> SUFFICES Expired(r, s, f)
  OBVIOUS
<1> DEFINE w == Erase(s, f)
           e == (w.expire_time[f] + timeout[f]) % (TimeMax + 1)
<1>1. f \in Timer /\ Armed(s, f)
  BY NonEmptyLemma
<1> HIDE DEF f
<1>2. /\ w \in QState /\ IsInjective(w.armed) /\ w = [s EXCEPT !.armed = w.armed]
      /\ \A u : Armed(w, u) <=> Armed(s, u) /\ u # f
      /\ Sorted(s) => Sorted(w)
  BY EraseLemma
<1>3. w.tickless = s.tickless /\ w.expire_time = s.expire_time
  <2> DEFINE a == w.armed
  <2>1. w = [s EXCEPT !.armed = a]
    BY <1>2
  <2> HIDE DEF a, w
  <2> QED
    BY <2>1 DEF QState
<1>4. r = IF type[f] = "one_shot" THEN w
          ELSE timer_node_insert([w EXCEPT !.expire_time[f] = e], f)
  <2>1. [w EXCEPT !.expire_time[f] = (@ + timeout[f]) % (TimeMax + 1)]
          = [w EXCEPT !.expire_time[f] = e]
    BY <1>1, <1>2 DEF QState
  <2> QED
    BY <2>1 DEF Rearm
<1> HIDE DEF w, r
<1>5. CASE type[f] = "one_shot"
  BY <1>1, <1>2, <1>3, <1>4, <1>5 DEF Expired
<1>6. CASE type[f] = "periodic"
  <2>1. e \in 0..TimeMax
    <3>1. w.expire_time[f] \in Nat
      BY <1>1, <1>2 DEF QState
    <3>2. timeout[f] \in Nat
      BY <1>1
    <3>3. TimeMax \in Nat
      BY TimerAssumption
    <3>4. PICK due : due = w.expire_time[f] + timeout[f]
      OBVIOUS
    <3>5. due \in Nat /\ e = due % (TimeMax + 1)
      BY <3>1, <3>2, <3>4
    <3> HIDE DEF e
    <3> QED
      BY <3>3, <3>5
  <2>2. r = timer_node_insert([w EXCEPT !.expire_time[f] = e], f)
    BY <1>4, <1>6
  <2>3. e = (s.expire_time[f] + timeout[f]) % (TimeMax + 1)
    BY <1>3
  <2> HIDE DEF e
  <2>4. ~Armed(w, f)
    BY <1>2
  <2>5. Placed(r, w, f, e)
    BY <1>1, <1>2, <2>1, <2>2, <2>4, PlaceLemma
  <2> QED
    BY <1>1, <1>2, <1>3, <1>6, <2>3, <2>5 DEF Placed, Expired
<1> QED
  BY <1>1, <1>5, <1>6 DEF Types

-----------------------------------------------------------------------------
(* What is on the tree *)

\* The type invariant and who is on the tree, with what an nd_timer_start that has not
\* programmed the alarm yet relies on: its timer stays on the tree, and the loop of
\* timer_expired does not run.
TimerIInv ==
  /\ TimerTypeOK /\ q \in QState /\ ArmedAgrees
  /\ \A t \in Timer : timeout[t] \in Timeouts[q.tickless]
  /\ starting # None => q.tickless /\ phase # "loop" /\ Armed(q, starting.timer)

\* When the timer on the tree is due: one with the longest timeouts never is.
DueTime(t) ==
  IF q.tickless /\ timeout[t] >= TimeMax \div 2 THEN TimeMax ELSE NextDue(t)

Dated ==
  /\ NeverEarly
  /\ \A t \in Timer : Armed(q, t) => q.expire_time[t] = DueTime(t)

\* The steps that leave the tree alone.
Idle ==
  \/ StartEnds \/ Tick \/ Advance \/ AlarmRings \/ AlarmInterrupt
  \/ nd_timer_process \/ CallbackReturns \/ LoopEnds

\* A step that neither arms, unlinks nor fires a timer leaves the tree and the
\* periods as they are; the clock only goes on.
LEMMA IdleLemma ==
  ASSUME TimerIInv, Idle
  PROVE  /\ q' \in QState /\ SameTree(q', q) /\ now' \in now..MaxNow
         /\ UNCHANGED <<type, timeout, since, fires>>
         /\ phase' \in {"free", "ticked", "loop", "callback"}
         /\ starting' \in {None, starting} /\ (starting' # None => phase' # "loop")
<1>1. /\ q \in QState /\ now \in 0..MaxNow /\ now \in now..MaxNow /\ SameTree(q, q)
      /\ phase \in {"free", "ticked", "loop", "callback"} /\ MaxNow \in Int
      /\ starting # None => phase # "loop"
  BY TimerAssumption DEF TimerIInv, TimerTypeOK, SameTree
<1>2. CASE StartEnds
  <2>1. q.armed # <<>> /\ First(q) \in Timer
    BY <1>1, <1>2, FirstLemma DEF TimerIInv, StartEnds
  <2> DEFINE s == IF First(q) = starting.timer
                  THEN nd_hw_hrtimer_set_expire(q, q.expire_time[First(q)]) ELSE q
  <2>2. s \in QState /\ SameTree(s, q)
    <3>1. q.expire_time[First(q)] \in 0..TimeMax
      BY <1>1, <2>1 DEF QState
    <3> QED
      BY <1>1, <3>1, AlarmLemma
  <2>3. q' = s \/ q' = nd_hw_hrtimer_trigger(s)
    BY <1>2 DEF StartEnds
  <2> HIDE DEF s
  <2>4. q' \in QState /\ SameTree(q', s)
    BY <1>1, <2>2, <2>3, AlarmLemma DEF SameTree
  <2>5. SameTree(q', q)
    BY <2>2, <2>4 DEF SameTree
  <2> QED
    BY <1>1, <1>2, <2>4, <2>5 DEF StartEnds
<1>3. CASE Tick \/ Advance
  <2>1. now' \in now..MaxNow
    BY <1>1, <1>3 DEF Tick, Advance
  <2>2. q' \in QState /\ SameTree(q', q)
    BY <1>1, <1>3 DEF Tick, Advance
  <2> QED
    BY <1>1, <1>3, <2>1, <2>2 DEF Tick, Advance
<1>4. CASE AlarmRings \/ AlarmInterrupt
  <2>1. q' \in QState /\ SameTree(q', q)
    BY <1>1, <1>4 DEF AlarmRings, AlarmInterrupt, QState, SameTree
  <2> QED
    BY <1>1, <1>4, <2>1 DEF AlarmRings, AlarmInterrupt
<1>5. CASE nd_timer_process \/ CallbackReturns
  <2>1. q' \in QState /\ SameTree(q', q)
    BY <1>1, <1>5 DEF nd_timer_process, CallbackReturns
  <2> QED
    BY <1>1, <1>5, <2>1 DEF nd_timer_process, CallbackReturns
<1>6. CASE LoopEnds
  <2>1. q' \in QState /\ SameTree(q', q)
    BY <1>1, <1>6, ProgramLemma DEF LoopEnds
  <2> QED
    BY <1>1, <1>6, <2>1 DEF LoopEnds
<1> QED
  BY <1>2, <1>3, <1>4, <1>5, <1>6 DEF Idle

\* Such a step keeps types and tree, due times, and the order of the tree.
LEMMA IdleKeeps ==
  ASSUME TimerIInv, Idle
  PROVE  TimerIInv' /\ (Dated => Dated') /\ (Sorted(q) => Sorted(q'))
<1>1. /\ q' \in QState /\ SameTree(q', q) /\ now' \in now..MaxNow
      /\ UNCHANGED <<type, timeout, since, fires>>
      /\ phase' \in {"free", "ticked", "loop", "callback"}
      /\ starting' \in {None, starting} /\ (starting' # None => phase' # "loop")
  BY IdleLemma
<1>2. now \in 0..MaxNow /\ MaxNow \in Int
  BY TimerAssumption DEF TimerIInv, TimerTypeOK
<1>3. \A t : Armed(q', t) <=> Armed(q, t)
  BY <1>1 DEF SameTree, Armed
<1>4. TimerTypeOK'
  <2>1. now' \in 0..MaxNow
    BY <1>1, <1>2
  <2>2. q'.armed = q.armed /\ q'.tickless = q.tickless
    BY <1>1 DEF SameTree
  <2> QED
    BY <1>1, <2>1, <2>2 DEF TimerIInv, TimerTypeOK, QState
<1>5. ArmedAgrees'
  BY <1>1, <1>3 DEF TimerIInv, ArmedAgrees
<1>6. TimerIInv'
  BY <1>1, <1>3, <1>4, <1>5 DEF TimerIInv, SameTree
<1>7. ASSUME Dated PROVE Dated'
  <2>1. ASSUME NEW t \in Timer, since[t] # None
        PROVE  since[t] + fires[t] * timeout[t] <= now'
    <3> DEFINE m == fires[t] * timeout[t]
    <3>1. m \in Int /\ since[t] \in Int
      BY <2>1, TimesLemma DEF TimerIInv, TimerTypeOK
    <3>2. since[t] + m <= now
      BY <1>7, <2>1 DEF Dated, NeverEarly
    <3> HIDE DEF m
    <3>3. since[t] + m <= now'
      BY <1>1, <1>2, <3>1, <3>2
    <3> QED
      BY <3>3 DEF m
  <2>2. NeverEarly'
    BY <1>1, <2>1 DEF NeverEarly
  <2>3. \A t \in Timer : DueTime(t)' = DueTime(t)
    BY <1>1 DEF DueTime, NextDue, SameTree
  <2> QED
    BY <1>1, <1>3, <1>7, <2>2, <2>3 DEF Dated, SameTree
<1>8. Sorted(q) => Sorted(q')
  BY <1>1 DEF Sorted, SameTree
<1> QED
  BY <1>6, <1>7, <1>8

\* nd_timer_system_init leaves an empty tree, no alarm and a clock at 0.
LEMMA TimerIInvInit ==
  ASSUME TimerInit
  PROVE  TimerIInv
<1>1. PICK mode \in Modes : \E d \in Timeouts[mode] :
        /\ timeout = [t \in Timer |-> d]
        /\ q = [tickless |-> mode, armed |-> <<>>, expire_time |-> [t \in Timer |-> 0],
                alarm |-> None, irq |-> FALSE]
  BY DEF TimerInit
<1>2. PICK d \in Timeouts[mode] :
        /\ timeout = [t \in Timer |-> d]
        /\ q = [tickless |-> mode, armed |-> <<>>, expire_time |-> [t \in Timer |-> 0],
                alarm |-> None, irq |-> FALSE]
  BY <1>1
<1>3. d \in 1..TimeMax /\ mode \in BOOLEAN /\ 0 \in 0..TimeMax /\ 0 \in 0..MaxNow
  BY TimerAssumption
<1>4. q \in QState /\ IsInjective(q.armed) /\ \A t : ~Armed(q, t)
  <2>1. <<>> \in Seq(Timer) /\ IsInjective(<<>>) /\ \A t : ~Contains(<<>>, t)
    BY DEF IsInjective, Contains
  <2>2. [t \in Timer |-> 0] \in [Timer -> 0..TimeMax]
    BY <1>3
  <2> QED
    BY <1>2, <1>3, <2>1, <2>2 DEF QState, Armed
<1>5. TimerTypeOK
  <2>1. type \in [Timer -> Types] /\ timeout \in [Timer -> 1..TimeMax]
    BY <1>2, <1>3 DEF TimerInit, Types
  <2>2. since \in [Timer -> 0..MaxNow \cup {None}] /\ fires \in [Timer -> Nat]
    BY DEF TimerInit
  <2> QED
    BY <1>2, <1>3, <1>4, <2>1, <2>2 DEF TimerInit, TimerTypeOK, QState
<1>6. ArmedAgrees
  BY <1>4 DEF TimerInit, ArmedAgrees
<1> QED
  BY <1>2, <1>4, <1>5, <1>6 DEF TimerInit, TimerIInv

\* The times nd_timer_start and the loop compute.
LEMMA ExpireTimeLemma ==
  ASSUME TimerIInv, NEW t \in Timer
  PROVE  ExpireTime(t) \in 0..TimeMax
<1>1. now \in 0..MaxNow /\ timeout[t] \in 1..TimeMax
  BY DEF TimerIInv, TimerTypeOK
<1>2. TimeMax \in Nat /\ MaxNow \in 0..(TimeMax \div 2 - 1)
  BY TimerAssumption
<1> DEFINE d == timeout[t]
           m == TimeMax + 1
           a == now + d
<1>3. a \in Nat /\ m \in Nat \ {0}
  BY <1>1, <1>2
<1>4. a % m \in 0..(m - 1)
  <2> HIDE DEF a, m
  <2> QED
    BY <1>3, ModLemma
<1>5. d >= TimeMax \div 2 \/ d + now \in 0..TimeMax
  BY <1>1, <1>2
<1> QED
  BY <1>1, <1>2, <1>4, <1>5 DEF ExpireTime

\* Every call, callback, tick and alarm keeps the types and the tree.
LEMMA TimerIInvStep ==
  ASSUME TimerIInv, [TimerNext]_timerVars
  PROVE  TimerIInv'
<1>1. CASE UNCHANGED timerVars
  BY <1>1 DEF timerVars, TimerIInv, TimerTypeOK, ArmedAgrees
<1>2. CASE Idle
  BY <1>2, IdleKeeps
<1>0. /\ q \in QState /\ IsInjective(q.armed) /\ now \in 0..MaxNow /\ now # None
      /\ type \in [Timer -> Types] /\ timeout \in [Timer -> 1..TimeMax]
      /\ since \in [Timer -> 0..MaxNow \cup {None}] /\ fires \in [Timer -> Nat]
  BY TimerAssumption DEF TimerIInv, TimerTypeOK
<1>3. ASSUME NEW t \in Timer, NEW y \in Types, NEW d \in Timeouts[q.tickless],
             nd_timer_init(t, y, d)
      PROVE  TimerIInv'
  <2>1. d \in 1..TimeMax
    BY TimerAssumption DEF TimerIInv, TimerTypeOK
  <2>2. TimerTypeOK'
    BY <1>0, <1>3, <2>1 DEF TimerIInv, TimerTypeOK, nd_timer_init
  <2>3. ArmedAgrees'
    BY <1>0, <1>3 DEF TimerIInv, ArmedAgrees, nd_timer_init
  <2>4. \A u \in Timer : timeout'[u] \in Timeouts[q'.tickless]
    BY <1>0, <1>3 DEF TimerIInv, nd_timer_init
  <2> QED
    BY <1>3, <2>2, <2>3, <2>4 DEF TimerIInv, nd_timer_init, CanCall
<1>4. ASSUME NEW t \in Timer, nd_timer_start(t)
      PROVE  TimerIInv'
  <2>1. Placed(q', q, t, ExpireTime(t))
    BY <1>0, <1>4, ExpireTimeLemma, StartLemma DEF nd_timer_start
  <2>2. TimerTypeOK'
    BY <1>0, <1>4, <2>1 DEF TimerIInv, TimerTypeOK, nd_timer_start, Placed, QState
  <2>3. ArmedAgrees'
    BY <1>0, <1>4, <2>1 DEF TimerIInv, ArmedAgrees, nd_timer_start, Placed
  <2>4. starting' # None => q'.tickless /\ phase' # "loop" /\ Armed(q', starting'.timer)
    BY <1>4, <2>1 DEF nd_timer_start, Placed, CanCall
  <2> QED
    BY <1>4, <2>1, <2>2, <2>3, <2>4 DEF TimerIInv, nd_timer_start, Placed
<1>5. ASSUME NEW t \in Timer, nd_timer_stop(t)
      PROVE  TimerIInv'
  <2>1. Without(q', q, t)
    BY <1>0, <1>5, RemoveLemma DEF nd_timer_stop
  <2>2. TimerTypeOK'
    BY <1>0, <1>5, <2>1 DEF TimerIInv, TimerTypeOK, nd_timer_stop, Without, QState
  <2>3. ArmedAgrees'
    BY <1>0, <1>5, <2>1 DEF TimerIInv, ArmedAgrees, nd_timer_stop, Without
  <2> QED
    BY <1>5, <2>1, <2>2, <2>3 DEF TimerIInv, nd_timer_stop, Without, CanCall
<1>6. CASE Expire
  <2> DEFINE f == First(q)
  <2>1. q.armed # <<>> /\ q' = Rearm(Erase(q, First(q)), First(q))
    BY <1>6 DEF Expire, Due
  <2>2. Expired(q', q, f)
    BY <1>0, <2>1, ExpireLemma
  <2> HIDE DEF f
  <2>3. fires' = [fires EXCEPT ![f] = @ + 1] /\ UNCHANGED <<type, since, timeout, starting, now>>
        /\ phase' = "callback" /\ phase = "loop"
    BY <1>6 DEF Expire, f
  <2>4. TimerTypeOK'
    BY <1>0, <2>2, <2>3 DEF TimerIInv, TimerTypeOK, QState, Expired
  <2>5. ASSUME NEW u \in Timer
        PROVE  Armed(q', u) <=> since'[u] # None /\ (type'[u] = "periodic" \/ fires'[u] = 0)
    <3>1. Armed(q, u) <=> since[u] # None /\ (type[u] = "periodic" \/ fires[u] = 0)
      BY DEF TimerIInv, ArmedAgrees
    <3>2. CASE u = f
      <4>1. fires'[u] # 0
        BY <1>0, <2>2, <2>3, <3>2
      <4> QED
        BY <2>2, <2>3, <3>1, <3>2, <4>1 DEF Expired
    <3>3. CASE u # f
      BY <1>0, <2>2, <2>3, <3>1, <3>3 DEF Expired
    <3> QED
      BY <3>2, <3>3
  <2>6. ArmedAgrees'
    BY <2>5 DEF ArmedAgrees
  <2> QED
    BY <2>2, <2>3, <2>4, <2>6 DEF TimerIInv, Expired
<1> QED
  BY <1>1, <1>2, <1>3, <1>4, <1>5, <1>6 DEF TimerNext, Call, Idle

\* Each timer is at most once on the tree, and on it exactly from its start until it is
\* stopped or, being one-shot, has fired: nd_timer_start removes a timer that is armed
\* before it inserts it, and the loop takes the timer off before the callback runs.
THEOREM TimersOnTree == TimerSpec => []TimerInv
<1>1. TimerInit => TimerIInv
  BY TimerIInvInit
<1>2. TimerIInv /\ [TimerNext]_timerVars => TimerIInv'
  BY TimerIInvStep
<1>3. TimerIInv => TimerInv
  BY DEF TimerIInv, TimerInv
<1> QED
  BY <1>1, <1>2, <1>3, PTL DEF TimerSpec

-----------------------------------------------------------------------------
(* When callbacks come *)

\* Without ticks nd_timer_start cuts what is beyond the range of times; with ticks it
\* adds, and the sum must not wrap: timeouts below 2^64 less the uptime.
NoWrap == FALSE \in Modes => \A d \in Timeouts[FALSE] : d + MaxNow <= TimeMax

\* One more callback, one more timeout.
LEMMA LapLemma ==
  ASSUME NEW n \in Nat, NEW d \in Nat
  PROVE  n * d \in Nat /\ (n + 1) * d = n * d + d /\ 0 * d = 0 /\ (0 + 1) * d = d
<1>1. n * d \in Nat
  OBVIOUS
<1>2. (n + 1) * d = n * d + d
  OBVIOUS
<1>3. 0 * d = 0 /\ (0 + 1) * d = d
  OBVIOUS
<1> QED
  BY <1>1, <1>2, <1>3

\* A timer that is due is one that counts its timeouts, and the one that counts next is
\* within the range of times.
LEMMA DueLemma ==
  ASSUME NoWrap, TimerIInv, Dated, NEW f \in Timer, Armed(q, f), q.expire_time[f] <= now
  PROVE  /\ q.expire_time[f] = NextDue(f)
         /\ ~(q.tickless /\ timeout[f] >= TimeMax \div 2)
         /\ (q.expire_time[f] + timeout[f]) % (TimeMax + 1) = q.expire_time[f] + timeout[f]
<1>1. /\ TimeMax \in Nat /\ MaxNow \in 0..(TimeMax \div 2 - 1)
      /\ now \in 0..MaxNow /\ q.expire_time[f] \in 0..TimeMax
  BY TimerAssumption DEF TimerIInv, TimerTypeOK, QState
<1>2. ~(q.tickless /\ timeout[f] >= TimeMax \div 2)
  BY <1>1 DEF Dated, DueTime
<1>3. q.expire_time[f] = NextDue(f)
  BY <1>2 DEF Dated, DueTime
<1>4. timeout[f] \in 1..TimeMax
  BY DEF TimerIInv, TimerTypeOK
<1>5. ~q.tickless => timeout[f] + MaxNow <= TimeMax
  <2>1. ~q.tickless => timeout[f] \in Timeouts[FALSE] /\ FALSE \in Modes
    BY DEF TimerIInv, TimerTypeOK, QState
  <2> QED
    BY <2>1 DEF NoWrap
<1> DEFINE a == q.expire_time[f] + timeout[f]
           m == TimeMax + 1
<1>6. a \in 0..(m - 1) /\ m \in Nat \ {0} /\ a \in Int
  BY <1>1, <1>2, <1>4, <1>5
<1> HIDE DEF a, m
<1>7. a % m = a
  BY <1>6, ModLemma
<1> QED
  BY <1>2, <1>3, <1>7 DEF a, m

\* With ticks the time nd_timer_start computes is ahead.
LEMMA TickTimeLemma ==
  ASSUME NoWrap, TimerIInv, NEW t \in Timer, ~q.tickless
  PROVE  (now + timeout[t]) % (TimeMax + 1) = now + timeout[t] /\ now < now + timeout[t]
<1> DEFINE a == now + timeout[t]
           m == TimeMax + 1
<1>1. /\ now \in 0..MaxNow /\ timeout[t] \in 1..TimeMax
      /\ TimeMax \in Nat /\ MaxNow \in 0..(TimeMax \div 2 - 1)
  BY TimerAssumption DEF TimerIInv, TimerTypeOK
<1>2. timeout[t] \in Timeouts[FALSE] /\ FALSE \in Modes
  BY DEF TimerIInv, TimerTypeOK, QState
<1>3. timeout[t] + MaxNow <= TimeMax
  BY <1>2 DEF NoWrap
<1>4. a \in 0..(m - 1) /\ m \in Nat \ {0} /\ a \in Int /\ now < a
  BY <1>1, <1>3
<1> HIDE DEF a, m
<1>5. a % m = a
  BY <1>4, ModLemma
<1> QED
  BY <1>4, <1>5 DEF a, m

\* What NeverEarly says of one timer.
Early(t) == since[t] # None => since[t] + fires[t] * timeout[t] <= now
DatedTimer(t) == Early(t) /\ (Armed(q, t) => q.expire_time[t] = DueTime(t))

\* Every step keeps the due time of an armed timer at the start time and as many
\* periods as it has fired, and one period more.
LEMMA DatedStep ==
  ASSUME NoWrap, TimerIInv, Dated, [TimerNext]_timerVars
  PROVE  Dated'
<1>0. /\ q \in QState /\ IsInjective(q.armed) /\ now \in 0..MaxNow
      /\ type \in [Timer -> Types] /\ timeout \in [Timer -> 1..TimeMax]
      /\ since \in [Timer -> 0..MaxNow \cup {None}] /\ fires \in [Timer -> Nat]
      /\ TimeMax \in Nat /\ MaxNow \in 0..(TimeMax \div 2 - 1) /\ None \notin Nat
  BY TimerAssumption DEF TimerIInv, TimerTypeOK
<1>1. CASE UNCHANGED timerVars
  BY <1>1 DEF timerVars, Dated, NeverEarly, DueTime, NextDue
<1>2. CASE Idle
  BY <1>2, IdleKeeps
<1>a. Dated' <=> \A u \in Timer : DatedTimer(u)'
  BY DEF Dated, NeverEarly, DatedTimer, Early
<1>b. \A u \in Timer : DatedTimer(u)
  BY DEF Dated, NeverEarly, DatedTimer, Early
\* A timer the step does not touch.
<1>c. ASSUME NEW u \in Timer, UNCHANGED <<since[u], fires[u], timeout[u], now>>,
             Armed(q', u) => Armed(q, u), q'.tickless = q.tickless,
             q'.expire_time[u] = q.expire_time[u]
      PROVE  DatedTimer(u)'
  BY <1>b, <1>c DEF DatedTimer, Early, DueTime, NextDue
<1>3. ASSUME NEW t \in Timer, NEW y \in Types, NEW d \in Timeouts[q.tickless],
             nd_timer_init(t, y, d)
      PROVE  Dated'
  <2>1. DatedTimer(t)'
    BY <1>0, <1>3 DEF nd_timer_init, DatedTimer, Early
  <2>2. ASSUME NEW u \in Timer, u # t PROVE DatedTimer(u)'
    <3>1. /\ UNCHANGED <<since[u], fires[u], timeout[u], now>> /\ q' = q
      BY <1>0, <1>3, <2>2 DEF nd_timer_init
    <3> QED
      BY <1>c, <3>1
  <2> QED
    BY <1>a, <2>1, <2>2
<1>4. ASSUME NEW t \in Timer, nd_timer_start(t)
      PROVE  Dated'
  <2>1. Placed(q', q, t, ExpireTime(t))
    BY <1>0, <1>4, ExpireTimeLemma, StartLemma DEF nd_timer_start
  <2>2. DatedTimer(t)'
    <3>1. /\ now' = now /\ timeout' = timeout /\ since'[t] = now /\ fires'[t] = 0
          /\ q'.tickless = q.tickless /\ q'.expire_time[t] = ExpireTime(t)
      BY <1>0, <1>4, <2>1 DEF nd_timer_start, Placed, QState
    <3>2. 0 * timeout[t] = 0 /\ (0 + 1) * timeout[t] = timeout[t] /\ timeout[t] \in 1..TimeMax
      BY <1>0, LapLemma
    <3>4. Early(t)'
      BY <1>0, <3>1, <3>2 DEF Early
    <3>5. DueTime(t)' = IF q.tickless /\ timeout[t] >= TimeMax \div 2 THEN TimeMax
                        ELSE now + timeout[t]
      BY <3>1, <3>2 DEF DueTime, NextDue
    <3>6. ExpireTime(t) = IF q.tickless /\ timeout[t] >= TimeMax \div 2 THEN TimeMax
                          ELSE now + timeout[t]
      BY <1>0, <3>2, TickTimeLemma DEF ExpireTime
    <3> QED
      BY <3>1, <3>4, <3>5, <3>6 DEF DatedTimer
  <2>3. ASSUME NEW u \in Timer, u # t PROVE DatedTimer(u)'
    <3>1. UNCHANGED <<since[u], fires[u], timeout[u], now>>
      BY <1>0, <1>4, <2>3 DEF nd_timer_start
    <3>2. /\ Armed(q', u) => Armed(q, u)
          /\ q'.tickless = q.tickless /\ q'.expire_time[u] = q.expire_time[u]
      BY <1>0, <2>1, <2>3 DEF Placed, QState
    <3> QED
      BY <1>c, <3>1, <3>2
  <2> QED
    BY <1>a, <2>2, <2>3
<1>5. ASSUME NEW t \in Timer, nd_timer_stop(t)
      PROVE  Dated'
  <2>1. Without(q', q, t)
    BY <1>0, <1>5, RemoveLemma DEF nd_timer_stop
  <2>2. DatedTimer(t)'
    BY <1>0, <1>5, <2>1 DEF nd_timer_stop, Without, DatedTimer, Early
  <2>3. ASSUME NEW u \in Timer, u # t PROVE DatedTimer(u)'
    <3>1. UNCHANGED <<since[u], fires[u], timeout[u], now>>
      BY <1>0, <1>5, <2>3 DEF nd_timer_stop
    <3> QED
      BY <1>c, <2>1, <3>1 DEF Without
  <2> QED
    BY <1>a, <2>2, <2>3
<1>6. CASE Expire
  <2>0. PICK f : f = First(q)
    OBVIOUS
  <2>1. q.armed # <<>> /\ q' = Rearm(Erase(q, First(q)), First(q))
    BY <1>6 DEF Expire, Due
  <2>2. Expired(q', q, f)
    BY <1>0, <2>0, <2>1, ExpireLemma
  <2>3. fires' = [fires EXCEPT ![f] = @ + 1] /\ UNCHANGED <<type, since, timeout, now>>
    BY <1>6, <2>0 DEF Expire
  <2>4. q.expire_time[f] <= now
    <3>1. now >= q.expire_time[f] /\ f \in Timer
      BY <1>6, <2>0, <2>2 DEF Expire, Due, Expired
    <3> QED
      BY <1>0, <3>1 DEF QState
  <2>5. f \in Timer /\ Armed(q, f) /\ since[f] # None
    BY <2>2 DEF Expired, TimerIInv, ArmedAgrees
  <2>6. /\ q.expire_time[f] = NextDue(f)
        /\ ~(q.tickless /\ timeout[f] >= TimeMax \div 2)
        /\ (q.expire_time[f] + timeout[f]) % (TimeMax + 1) = q.expire_time[f] + timeout[f]
    BY <2>4, <2>5, DueLemma
  <2>a. PICK n, d, b : n = fires[f] /\ d = timeout[f] /\ b = since[f]
    OBVIOUS
  <2>7. n \in Nat /\ d \in Nat /\ b \in Nat
    BY <1>0, <2>5, <2>a
  <2>8. fires'[f] = n + 1 /\ timeout'[f] = d /\ since'[f] = b /\ now' = now
    BY <1>0, <2>3, <2>5, <2>a
  <2>9. NextDue(f) = b + (n + 1) * d /\ NextDue(f)' = b + (n + 1 + 1) * d
    BY <2>8, <2>a DEF NextDue
  <2>10. Early(f)'
    BY <2>4, <2>6, <2>8, <2>9 DEF Early
  <2>11. NextDue(f)' = NextDue(f) + d
    <3> DEFINE x == (n + 1) * d
               y == (n + 1 + 1) * d
    <3>1. y = x + d /\ x \in Nat
      BY <2>7, LapLemma
    <3> HIDE DEF x, y
    <3> QED
      BY <2>7, <2>9, <3>1 DEF x, y
  <2>12. DatedTimer(f)'
    <3>1. Armed(q', f) => type[f] = "periodic"
      BY <2>2 DEF Expired
    <3>2. type[f] = "periodic" => q'.expire_time[f] = NextDue(f) + d
      BY <1>0, <2>2, <2>5, <2>6, <2>a DEF Expired, QState
    <3>3. DueTime(f)' = NextDue(f)'
      BY <2>2, <2>6, <2>8, <2>a DEF DueTime, Expired
    <3> QED
      BY <2>10, <2>11, <3>1, <3>2, <3>3 DEF DatedTimer
  <2>13. ASSUME NEW u \in Timer, u # f PROVE DatedTimer(u)'
    <3>1. UNCHANGED <<since[u], fires[u], timeout[u], now>>
      BY <1>0, <2>3, <2>13
    <3>2. /\ Armed(q', u) => Armed(q, u)
          /\ q'.tickless = q.tickless /\ q'.expire_time[u] = q.expire_time[u]
      BY <1>0, <2>2, <2>13 DEF Expired, QState
    <3> QED
      BY <1>c, <3>1, <3>2
  <2> QED
    BY <1>a, <2>12, <2>13
<1> QED
  BY <1>1, <1>2, <1>3, <1>4, <1>5, <1>6 DEF TimerNext, Call, Idle

\* Nothing is armed at the start.
LEMMA DatedInit ==
  ASSUME TimerInit
  PROVE  Dated
<1>1. \A t : ~Contains(<<>>, t)
  BY DEF Contains
<1>2. q.armed = <<>> /\ since = [t \in Timer |-> None]
  BY DEF TimerInit
<1> QED
  BY <1>1, <1>2 DEF Dated, NeverEarly, Armed

\* The k-th callback comes no earlier than k timeouts after the start, whatever was late,
\* stopped or restarted: each new time is the previous one and a timeout, not the time
\* at which the loop came to it.
THEOREM CallbacksOnTime == ASSUME NoWrap PROVE TimerSpec => []NeverEarly
<1>1. TimerInit => TimerIInv /\ Dated
  BY TimerIInvInit, DatedInit
<1>2. TimerIInv /\ Dated /\ [TimerNext]_timerVars => TimerIInv' /\ Dated'
  BY TimerIInvStep, DatedStep
<1>3. Dated => NeverEarly
  BY DEF Dated
<1> QED
  BY <1>1, <1>2, <1>3, PTL DEF TimerSpec

-----------------------------------------------------------------------------
(* None is forgotten *)

\* Outside the timer interrupt: with ticks nothing is due yet; without, the alarm covers
\* every timer but the one whose nd_timer_start has yet to program it.
Watched(t) ==
  phase = "free" /\ Armed(q, t) =>
    IF q.tickless THEN (starting = None \/ t # starting.timer) => Covers(q, t)
    ELSE now < q.expire_time[t]

Served == Sorted(q) /\ \A t \in Timer : Watched(t)

\* The timers a call does not concern stay watched.
LEMMA OthersWatched ==
  ASSUME TimerIInv, Served, CanCall, NEW t \in Timer, UNCHANGED <<now, phase>>,
         q'.tickless = q.tickless,
         \A u \in Timer : u # t /\ Armed(q', u) =>
           Armed(q, u) /\ q'.expire_time[u] = q.expire_time[u],
         \A u \in Timer : Armed(q, u) /\ u # t /\ Covers(q, u) => Covers(q', u)
  PROVE  \A u \in Timer : u # t => Watched(u)'
<1> SUFFICES ASSUME NEW u \in Timer, u # t, phase = "free", Armed(q', u)
             PROVE  /\ q'.tickless => Covers(q', u)
                    /\ ~q'.tickless => now < q'.expire_time[u]
  BY DEF Watched, Covers
<1>1. Watched(u) /\ starting = None
  BY DEF Served, CanCall
<1>2. Armed(q, u) /\ q'.expire_time[u] = q.expire_time[u]
  OBVIOUS
<1> QED
  BY <1>1, <1>2 DEF Watched

\* Every step keeps an alarm, a tick or the expiry loop between a due timer and
\* its being forgotten.
LEMMA ServedStep ==
  ASSUME NoWrap, ~PastFails, TimerIInv, Served, [TimerNext]_timerVars
  PROVE  Served'
<1>0. /\ q \in QState /\ IsInjective(q.armed) /\ now \in 0..MaxNow /\ now \in Int
      /\ None \notin Nat /\ Sorted(q)
  BY TimerAssumption DEF TimerIInv, TimerTypeOK, Served
<1>1. CASE UNCHANGED timerVars
  BY <1>1 DEF timerVars, Served, Sorted, Watched, Covers
<1>2. ASSUME Idle, \A t \in Timer : phase' = "free" /\ Armed(q, t) => Watched(t)'
      PROVE  Served'
  <2>1. SameTree(q', q) /\ Sorted(q')
    BY <1>0, <1>2, IdleLemma, IdleKeeps
  <2>2. \A t \in Timer : Watched(t)'
    BY <1>2, <2>1 DEF SameTree, Armed, Watched
  <2> QED
    BY <2>1, <2>2 DEF Served
<1>3. CASE StartEnds
  <2>1. q.tickless /\ q.armed # <<>> /\ First(q) \in Timer /\ Armed(q, First(q))
    BY <1>0, <1>3, FirstLemma DEF TimerIInv, StartEnds
  <2> DEFINE s == IF First(q) = starting.timer
                  THEN nd_hw_hrtimer_set_expire(q, q.expire_time[First(q)]) ELSE q
  <2>2. s \in QState /\ SameTree(s, q)
    <3>1. q.expire_time[First(q)] \in 0..TimeMax
      BY <1>0, <2>1 DEF QState
    <3> QED
      BY <1>0, <3>1, AlarmLemma DEF SameTree
  <2>3. q' = s \/ q' = nd_hw_hrtimer_trigger(s)
    BY <1>3 DEF StartEnds
  <2>4. ASSUME phase = "free" PROVE CoversAll(s)
    <3>1. CASE First(q) = starting.timer
      BY <1>0, <2>1, <3>1, CoverLemma
    <3>2. CASE First(q) # starting.timer
      <4>1. Covers(q, First(q))
        BY <2>1, <2>4, <3>2 DEF Served, Watched
      <4>2. ASSUME NEW t \in Timer, Armed(q, t) PROVE Covers(q, t)
        <5>1. q.expire_time[First(q)] <= q.expire_time[t]
          BY <1>0, <4>2, FirstLemma
        <5>2. /\ q.expire_time[First(q)] \in Int /\ q.expire_time[t] \in Int
              /\ q.alarm # None => q.alarm \in Int
          BY <1>0, <2>1 DEF QState
        <5> QED
          BY <4>1, <5>1, <5>2 DEF Covers
      <4> QED
        BY <3>2, <4>2 DEF CoversAll
    <3> QED
      BY <3>1, <3>2
  <2> HIDE DEF s
  <2>5. ASSUME NEW t \in Timer, phase = "free", Armed(q, t) PROVE Covers(q', t)
    <3>1. Covers(s, t)
      BY <2>2, <2>4, <2>5 DEF CoversAll, SameTree, Armed
    <3> QED
      BY <1>0, <2>2, <2>3, <3>1, CoverLemma
  <2>6. SameTree(q', q) /\ phase' = phase /\ now' = now
    BY <1>3, IdleLemma DEF Idle, StartEnds
  <2>7. \A t \in Timer : phase' = "free" /\ Armed(q, t) => Watched(t)'
    BY <2>1, <2>5, <2>6 DEF SameTree, Watched, Covers
  <2> QED
    BY <1>2, <1>3, <2>7 DEF Idle
<1>4. CASE Tick \/ AlarmInterrupt \/ nd_timer_process \/ CallbackReturns
  <2>1. phase' # "free"
    BY <1>4 DEF Tick, AlarmInterrupt, nd_timer_process, CallbackReturns
  <2> QED
    BY <1>2, <1>4, <2>1 DEF Idle
<1>5. CASE Advance
  <2>1. ASSUME NEW t \in Timer, Covers(q, t), Armed(q, t) PROVE Covers(q, t)'
    <3>1. q' = q /\ now' = now + 1
      BY <1>5 DEF Advance
    <3>2. q.alarm # None => q.alarm \in Int
      BY <1>0 DEF QState
    <3>3. q.alarm # None /\ q.alarm <= now => q.alarm <= now'
      BY <1>0, <3>1, <3>2
    <3> QED
      BY <2>1, <3>1, <3>3 DEF Covers
  <2>2. \A t \in Timer : phase' = "free" /\ Armed(q, t) => Watched(t)'
    BY <1>5, <2>1 DEF Advance, Served, Watched
  <2> QED
    BY <1>2, <1>5, <2>2 DEF Idle
<1>6. CASE AlarmRings
  <2>1. q'.irq /\ q'.tickless = q.tickless /\ q'.expire_time = q.expire_time
    BY <1>0, <1>6 DEF AlarmRings, QState
  <2>2. \A t \in Timer : phase' = "free" /\ Armed(q, t) => Watched(t)'
    BY <1>6, <2>1 DEF AlarmRings, Served, Watched, Covers
  <2> QED
    BY <1>2, <1>6, <2>2 DEF Idle
<1>7. CASE LoopEnds
  <2>1. CASE q.tickless
    <3>1. q' = Program(q) /\ now' = now
      BY <1>7, <2>1 DEF LoopEnds
    <3>2. CoversAll(q') /\ SameTree(q', q)
      BY <1>0, <3>1, ProgramLemma
    <3>3. \A t \in Timer : phase' = "free" /\ Armed(q, t) => Watched(t)'
      BY <2>1, <3>1, <3>2 DEF CoversAll, SameTree, Armed, Watched, Covers
    <3> QED
      BY <1>2, <1>7, <3>3 DEF Idle
  <2>2. CASE ~q.tickless
    <3>1. ASSUME NEW t \in Timer, Armed(q, t) PROVE now < q.expire_time[t]
      <4>1. /\ q.armed # <<>> /\ First(q) \in Timer
            /\ q.expire_time[First(q)] <= q.expire_time[t]
        BY <1>0, <3>1, FirstLemma
      <4>2. ~(now >= q.expire_time[First(q)])
        BY <1>7, <4>1 DEF LoopEnds, Due
      <4>3. q.expire_time[First(q)] \in Int /\ q.expire_time[t] \in Int
        BY <1>0, <4>1 DEF QState
      <4> QED
        BY <1>0, <4>1, <4>2, <4>3
    <3>2. q' = q /\ now' = now
      BY <1>7, <2>2 DEF LoopEnds
    <3>3. \A t \in Timer : phase' = "free" /\ Armed(q, t) => Watched(t)'
      BY <2>2, <3>1, <3>2 DEF Watched
    <3> QED
      BY <1>2, <1>7, <3>3 DEF Idle
  <2> QED
    BY <2>1, <2>2
<1>8. ASSUME NEW t \in Timer, NEW y \in Types, NEW d \in Timeouts[q.tickless],
             nd_timer_init(t, y, d)
      PROVE  Served'
  BY <1>8 DEF nd_timer_init, Served, Sorted, Watched, Covers
<1>9. ASSUME NEW t \in Timer, nd_timer_start(t)
      PROVE  Served'
  <2> DEFINE e == ExpireTime(t)
  <2>0. e \in 0..TimeMax /\ q' = timer_node_insert([timer_remove(q, t) EXCEPT !.expire_time[t] = e], t)
    BY <1>9, ExpireTimeLemma DEF nd_timer_start
  <2>a. ~q.tickless => now < e
    BY TickTimeLemma DEF ExpireTime
  <2> HIDE DEF e
  <2>1. /\ Placed(q', q, t, e)
        /\ \A u \in Timer : Armed(q, u) /\ u # t /\ Covers(q, u) => Covers(q', u)
    BY <1>0, <2>0, StartLemma
  <2>2. /\ CanCall /\ UNCHANGED <<now, phase>>
        /\ q.tickless => starting'.timer = t /\ starting' # None
    BY <1>9, TimerAssumption DEF nd_timer_start, TimerIInv, TimerTypeOK
  <2>3. \A u \in Timer : u # t /\ Armed(q', u) =>
          Armed(q, u) /\ q'.expire_time[u] = q.expire_time[u]
    BY <1>0, <2>1 DEF Placed, QState
  <2>4. \A u \in Timer : u # t => Watched(u)'
    BY <2>1, <2>2, <2>3, OthersWatched DEF Placed
  <2>5. Watched(t)'
    BY <1>0, <2>1, <2>2, <2>a DEF Watched, Placed, QState
  <2> QED
    BY <1>0, <2>1, <2>4, <2>5 DEF Served, Placed
<1>10. ASSUME NEW t \in Timer, nd_timer_stop(t)
       PROVE  Served'
  <2>1. /\ Without(q', q, t)
        /\ \A u \in Timer : Armed(q, u) /\ u # t /\ Covers(q, u) => Covers(q', u)
    BY <1>0, <1>10, RemoveLemma DEF nd_timer_stop
  <2>2. CanCall /\ UNCHANGED <<now, phase>>
    BY <1>10 DEF nd_timer_stop
  <2>3. \A u \in Timer : u # t => Watched(u)'
    BY <2>1, <2>2, OthersWatched DEF Without
  <2>4. Watched(t)'
    BY <2>1 DEF Without, Watched
  <2> QED
    BY <1>0, <2>1, <2>3, <2>4 DEF Served, Without
<1>11. CASE Expire
  <2>1. q.armed # <<>> /\ q' = Rearm(Erase(q, First(q)), First(q)) /\ phase' = "callback"
    BY <1>11 DEF Expire, Due
  <2>2. Expired(q', q, First(q))
    BY <1>0, <2>1, ExpireLemma DEF TimerIInv, TimerTypeOK
  <2> QED
    BY <1>0, <2>1, <2>2 DEF Expired, Served, Watched
<1> QED
  BY <1>1, <1>3, <1>4, <1>5, <1>6, <1>7, <1>8, <1>9, <1>10, <1>11 DEF TimerNext, Call

\* Nothing is armed at the start.
LEMMA ServedInit ==
  ASSUME TimerInit
  PROVE  Served
<1>1. \A t : ~Contains(<<>>, t)
  BY DEF Contains
<1>2. q.armed = <<>>
  BY DEF TimerInit
<1> QED
  BY <1>1, <1>2 DEF Served, Watched, Armed, Sorted

\* Whoever is overdue by its own count is so by the tree, which the alarm covers.
LEMMA WatchedLemma ==
  ASSUME TimerIInv, Dated, Served
  PROVE  NoneOverdue
<1> SUFFICES ASSUME phase = "free", starting = None, NEW t \in Timer, Overdue(t)
             PROVE  q.irq \/ (q.alarm # None /\ q.alarm <= now)
  BY DEF NoneOverdue
<1>0. /\ q \in QState /\ now \in 0..MaxNow /\ Armed(q, t)
      /\ TimeMax \in Nat /\ MaxNow \in 0..(TimeMax \div 2 - 1)
  BY TimerAssumption DEF TimerIInv, TimerTypeOK, Overdue
<1>1. timeout[t] \in 1..TimeMax /\ since[t] \in 0..MaxNow /\ fires[t] \in Nat
  BY <1>0 DEF TimerIInv, TimerTypeOK, ArmedAgrees
<1>2. NextDue(t) <= now /\ NextDue(t) \in Int /\ timeout[t] <= NextDue(t)
  <2>1. PICK n, d, b : n = fires[t] /\ d = timeout[t] /\ b = since[t]
    OBVIOUS
  <2>2. n \in Nat /\ d \in Nat /\ b \in Nat
    BY <1>1, <2>1
  <2> DEFINE x == n * d
             y == (n + 1) * d
  <2>3. x \in Nat /\ y = x + d
    BY <2>2, LapLemma
  <2>4. NextDue(t) = b + y
    BY <2>1 DEF NextDue
  <2> HIDE DEF x, y
  <2>5. NextDue(t) \in Int /\ d <= NextDue(t)
    BY <2>2, <2>3, <2>4
  <2> QED
    BY <2>1, <2>5 DEF Overdue
<1>3. ~(timeout[t] >= TimeMax \div 2)
  BY <1>0, <1>1, <1>2
<1>4. q.expire_time[t] = NextDue(t)
  BY <1>0, <1>3 DEF Dated, DueTime
<1>5. q.expire_time[t] <= now /\ q.expire_time[t] \in Int /\ now \in Int
  BY <1>0, <1>2, <1>4
<1>6. q.tickless
  BY <1>0, <1>5 DEF Served, Watched, QState
<1>7. Covers(q, t)
  BY <1>0, <1>6 DEF Served, Watched
<1>8. q.alarm # None => q.alarm \in Int
  BY <1>0 DEF QState
<1> QED
  BY <1>5, <1>7, <1>8 DEF Covers

\* Outside the timer interrupt no timer is overdue unless its interrupt is pending or the
\* alarm about to ring. It is proved of an alarm that rings at once when its target is
\* past (the A9's): where such a target is refused (raspi-pico2), time may pass between
\* nd_timer_start's two readings of the clock.
THEOREM NoneForgotten ==
  ASSUME NoWrap, ~PastFails
  PROVE  TimerSpec => []NoneOverdue
<1>1. TimerInit => TimerIInv /\ Dated /\ Served
  BY TimerIInvInit, DatedInit, ServedInit
<1>2. TimerIInv /\ Dated /\ Served /\ [TimerNext]_timerVars => TimerIInv' /\ Dated' /\ Served'
  BY TimerIInvStep, DatedStep, ServedStep
<1>3. TimerIInv /\ Dated /\ Served => NoneOverdue
  BY WatchedLemma
<1> QED
  BY <1>1, <1>2, <1>3, PTL DEF TimerSpec

-----------------------------------------------------------------------------
(* The intrusive lists *)

Cell == ListHead \cup ListNode
Links == [next : Cell \cup {Null}, prev : Cell \cup {Null}]
Loose == [next |-> Null, prev |-> Null]

\* The elements of a list with its head on both sides of them.
Around(h, s) == [i \in 0..Len(s) + 1 |-> IF i \in 1..Len(s) THEN s[i] ELSE h]

\* Next and prev lead around the list.
Ring(l, h, s) ==
  \A i \in 0..Len(s) : /\ l[Around(h, s)[i]].next = Around(h, s)[i + 1]
                       /\ l[Around(h, s)[i + 1]].prev = Around(h, s)[i]

\* A node is on no list.
Free(ls, n) == \A h \in ListHead : n \notin Range(ls[h])

\* The links make the lists, no node is on two of them or twice on one, and a node that is
\* on none leads nowhere else.
Rings(l, ls) ==
  /\ l \in [Cell -> Links] /\ ls \in [ListHead -> Seq(ListNode)]
  /\ \A h \in ListHead : IsInjective(ls[h]) /\ Ring(l, h, ls[h])
  /\ \A g, h \in ListHead : g # h => Range(ls[g]) \cap Range(ls[h]) = {}
  /\ \A n \in ListNode : Free(ls, n) => l[n] \in {Loose, Alone(n)}

\* A loop is at one of the nodes of its list, and knows the one after it.
WalkAt(ls, w) ==
  \/ w = NoWalk
  \/ \E h \in ListHead : \E i \in 1..Len(ls[h]) :
       w = [head |-> h, pos |-> Around(h, ls[h])[i], tmp |-> Around(h, ls[h])[i + 1]]

ListIInv == Rings(link, lists) /\ WalkAt(lists, walk)

\* A node is put between two neighbours, and taken from between them.
Linked(l, a, n, b) ==
  [x \in Cell |-> [next |-> IF x = n THEN b ELSE IF x = a THEN n ELSE l[x].next,
                   prev |-> IF x = n THEN a ELSE IF x = b THEN n ELSE l[x].prev]]
Unlinked(l, a, n, b) ==
  [x \in Cell |-> [next |-> IF x = n THEN Null ELSE IF x = a THEN b ELSE l[x].next,
                   prev |-> IF x = n THEN Null ELSE IF x = b THEN a ELSE l[x].prev]]

\* Two tables of links with the same links are the same.
LEMMA SameLinks ==
  ASSUME NEW l \in [Cell -> Links], NEW m \in [Cell -> Links],
         \A x \in Cell : l[x].next = m[x].next /\ l[x].prev = m[x].prev
  PROVE  l = m
<1>1. \A x \in Cell : l[x] = m[x]
  BY DEF Links
<1> QED
  BY <1>1

\* One pointer of one node is set.
SetNext(l, x, y) == [l EXCEPT ![x].next = y]
SetPrev(l, x, y) == [l EXCEPT ![x].prev = y]
SetBoth(l, x, y, z) == [l EXCEPT ![x] = [next |-> y, prev |-> z]]

\* What the other pointers are afterwards, and that the table keeps its type: next.
LEMMA SetNextLemma ==
  ASSUME NEW l \in [Cell -> Links], NEW x \in Cell, NEW y \in Cell,
         NEW m, m = SetNext(l, x, y)
  PROVE  /\ m \in [Cell -> Links]
         /\ \A z \in Cell : /\ m[z].next = IF z = x THEN y ELSE l[z].next
                            /\ m[z].prev = l[z].prev
BY DEF Links, SetNext

\* The same of prev.
LEMMA SetPrevLemma ==
  ASSUME NEW l \in [Cell -> Links], NEW x \in Cell, NEW y \in Cell,
         NEW m, m = SetPrev(l, x, y)
  PROVE  /\ m \in [Cell -> Links]
         /\ \A z \in Cell : /\ m[z].prev = IF z = x THEN y ELSE l[z].prev
                            /\ m[z].next = l[z].next
BY DEF Links, SetPrev

\* One node's links are set, then one pointer of each of two nodes.
LEMMA SetThree ==
  ASSUME NEW l \in [Cell -> Links], NEW a \in Cell, NEW b \in Cell, NEW n \in Cell,
         n # a, n # b
  PROVE  /\ SetNext(SetPrev(SetBoth(l, n, b, a), b, n), a, n) = Linked(l, a, n, b)
         /\ SetPrev(SetNext(SetBoth(l, n, b, a), a, n), b, n) = Linked(l, a, n, b)
<1>1. PICK l1 : l1 = SetBoth(l, n, b, a)
  OBVIOUS
<1>2. PICK l2, l3 : l2 = SetPrev(l1, b, n) /\ l3 = SetNext(l2, a, n)
  OBVIOUS
<1>3. PICK m2, m3 : m2 = SetNext(l1, a, n) /\ m3 = SetPrev(m2, b, n)
  OBVIOUS
<1>4. /\ l1 \in [Cell -> Links]
      /\ \A z \in Cell : /\ l1[z].next = IF z = n THEN b ELSE l[z].next
                         /\ l1[z].prev = IF z = n THEN a ELSE l[z].prev
  BY <1>1 DEF Links, SetBoth
<1>5. /\ l2 \in [Cell -> Links]
      /\ \A z \in Cell : /\ l2[z].prev = IF z = b THEN n ELSE l1[z].prev
                         /\ l2[z].next = l1[z].next
  <2>0. l1 \in [Cell -> Links]
    BY <1>4
  <2>1. l2 \in [Cell -> Links]
    BY ONLY <2>0, <1>2, b \in Cell, n \in Cell, SetPrevLemma
  <2>2. \A z \in Cell : l2[z].prev = IF z = b THEN n ELSE l1[z].prev
    BY ONLY <2>0, <1>2, b \in Cell, n \in Cell, SetPrevLemma
  <2>3. \A z \in Cell : l2[z].next = l1[z].next
    BY ONLY <2>0, <1>2, b \in Cell, n \in Cell, SetPrevLemma
  <2> QED
    BY <2>1, <2>2, <2>3
<1>6. /\ l3 \in [Cell -> Links]
      /\ \A z \in Cell : /\ l3[z].next = IF z = a THEN n ELSE l2[z].next
                         /\ l3[z].prev = l2[z].prev
  <2>0. l2 \in [Cell -> Links]
    BY <1>5
  <2>1. l3 \in [Cell -> Links]
    BY ONLY <2>0, <1>2, a \in Cell, n \in Cell, SetNextLemma
  <2>2. \A z \in Cell : l3[z].next = IF z = a THEN n ELSE l2[z].next
    BY ONLY <2>0, <1>2, a \in Cell, n \in Cell, SetNextLemma
  <2>3. \A z \in Cell : l3[z].prev = l2[z].prev
    BY ONLY <2>0, <1>2, a \in Cell, n \in Cell, SetNextLemma
  <2> QED
    BY <2>1, <2>2, <2>3
<1>7. /\ m2 \in [Cell -> Links]
      /\ \A z \in Cell : /\ m2[z].next = IF z = a THEN n ELSE l1[z].next
                         /\ m2[z].prev = l1[z].prev
  <2>0. l1 \in [Cell -> Links]
    BY <1>4
  <2>1. m2 \in [Cell -> Links]
    BY ONLY <2>0, <1>3, a \in Cell, n \in Cell, SetNextLemma
  <2>2. \A z \in Cell : m2[z].next = IF z = a THEN n ELSE l1[z].next
    BY ONLY <2>0, <1>3, a \in Cell, n \in Cell, SetNextLemma
  <2>3. \A z \in Cell : m2[z].prev = l1[z].prev
    BY ONLY <2>0, <1>3, a \in Cell, n \in Cell, SetNextLemma
  <2> QED
    BY <2>1, <2>2, <2>3
<1>8. /\ m3 \in [Cell -> Links]
      /\ \A z \in Cell : /\ m3[z].prev = IF z = b THEN n ELSE m2[z].prev
                         /\ m3[z].next = m2[z].next
  <2>0. m2 \in [Cell -> Links]
    BY <1>7
  <2>1. m3 \in [Cell -> Links]
    BY ONLY <2>0, <1>3, b \in Cell, n \in Cell, SetPrevLemma
  <2>2. \A z \in Cell : m3[z].prev = IF z = b THEN n ELSE m2[z].prev
    BY ONLY <2>0, <1>3, b \in Cell, n \in Cell, SetPrevLemma
  <2>3. \A z \in Cell : m3[z].next = m2[z].next
    BY ONLY <2>0, <1>3, b \in Cell, n \in Cell, SetPrevLemma
  <2> QED
    BY <2>1, <2>2, <2>3
<1>9. Linked(l, a, n, b) \in [Cell -> Links]
  BY DEF Linked, Links
<1>10. ASSUME NEW x \in Cell
      PROVE  /\ l3[x].next = Linked(l, a, n, b)[x].next /\ l3[x].prev = Linked(l, a, n, b)[x].prev
             /\ m3[x].next = Linked(l, a, n, b)[x].next /\ m3[x].prev = Linked(l, a, n, b)[x].prev
  <2>1. /\ Linked(l, a, n, b)[x].next = IF x = n THEN b ELSE IF x = a THEN n ELSE l[x].next
        /\ Linked(l, a, n, b)[x].prev = IF x = n THEN a ELSE IF x = b THEN n ELSE l[x].prev
    BY DEF Linked
  <2>2. /\ l1[x].next = IF x = n THEN b ELSE l[x].next
        /\ l1[x].prev = IF x = n THEN a ELSE l[x].prev
    BY <1>4
  <2>3. /\ l2[x].prev = IF x = b THEN n ELSE l1[x].prev
        /\ l2[x].next = l1[x].next
    BY <1>5
  <2>4. /\ l3[x].next = IF x = a THEN n ELSE l2[x].next
        /\ l3[x].prev = l2[x].prev
    BY <1>6
  <2>5. /\ m2[x].next = IF x = a THEN n ELSE l1[x].next
        /\ m2[x].prev = l1[x].prev
    BY <1>7
  <2>6. /\ m3[x].prev = IF x = b THEN n ELSE m2[x].prev
        /\ m3[x].next = m2[x].next
    BY <1>8
  <2> QED
    BY ONLY <2>1, <2>2, <2>3, <2>4, <2>5, <2>6, n # a, n # b
<1>11. l3 = Linked(l, a, n, b)
  BY ONLY <1>6, <1>9, <1>10, SameLinks
<1>12. m3 = Linked(l, a, n, b)
  BY ONLY <1>8, <1>9, <1>10, SameLinks
<1> QED
  BY <1>1, <1>2, <1>3, <1>11, <1>12

\* nd_list_insert_after puts the node between the one given and the one after it.
LEMMA InsertAfterLemma ==
  ASSUME NEW l \in [Cell -> Links], NEW a \in Cell, NEW n \in Cell, n # a,
         l[a].next \in Cell \ {n}
  PROVE  nd_list_insert_after(l, a, n) = Linked(l, a, n, l[a].next)
<1>1. PICK b \in Cell : b = l[a].next /\ b # n
  OBVIOUS
<1>2. PICK l1 : l1 = SetBoth(l, n, b, a)
  OBVIOUS
<1>3. l1[a].next = b
  BY <1>1, <1>2 DEF SetBoth
<1>4. nd_list_insert_after(l, a, n) = SetNext(SetPrev(SetBoth(l, n, b, a), b, n), a, n)
  BY <1>1, <1>2, <1>3 DEF SetBoth, nd_list_insert_after, SetNext, SetPrev
<1>5. SetNext(SetPrev(SetBoth(l, n, b, a), b, n), a, n) = Linked(l, a, n, b)
  BY <1>1, SetThree
<1> QED
  BY <1>1, <1>4, <1>5

\* nd_list_insert_before puts the node between the one given and the one before it.
LEMMA InsertBeforeLemma ==
  ASSUME NEW l \in [Cell -> Links], NEW b \in Cell, NEW n \in Cell, n # b,
         l[b].prev \in Cell \ {n}
  PROVE  nd_list_insert_before(l, b, n) = Linked(l, l[b].prev, n, b)
<1>1. PICK a \in Cell : a = l[b].prev /\ a # n
  OBVIOUS
<1>2. PICK l1 : l1 = SetBoth(l, n, b, a)
  OBVIOUS
<1>3. l1[b].prev = a
  BY <1>1, <1>2 DEF SetBoth
<1>4. nd_list_insert_before(l, b, n) = SetPrev(SetNext(SetBoth(l, n, b, a), a, n), b, n)
  BY <1>1, <1>2, <1>3 DEF SetBoth, nd_list_insert_before, SetNext, SetPrev
<1>5. SetPrev(SetNext(SetBoth(l, n, b, a), a, n), b, n) = Linked(l, a, n, b)
  BY <1>1, SetThree
<1> QED
  BY <1>1, <1>4, <1>5

\* nd_list_remove takes the node from between its neighbours, and clears its links.
LEMMA UnlinkLemma ==
  ASSUME NEW l \in [Cell -> Links], NEW n \in Cell,
         l[n].next \in Cell \ {n}, l[n].prev \in Cell \ {n}
  PROVE  nd_list_remove(l, n) = Unlinked(l, l[n].prev, n, l[n].next)
<1>1. PICK a \in Cell : a = l[n].prev /\ a # n
  OBVIOUS
<1>2. PICK b \in Cell : b = l[n].next /\ b # n
  OBVIOUS
<1>3. PICK l1 : l1 = SetNext(l, a, b)
  OBVIOUS
<1>4. /\ l1 \in [Cell -> Links]
      /\ \A z \in Cell : /\ l1[z].next = IF z = a THEN b ELSE l[z].next
                         /\ l1[z].prev = l[z].prev
  <2>1. l1 \in [Cell -> Links]
    BY ONLY <1>3, l \in [Cell -> Links], a \in Cell, b \in Cell, SetNextLemma
  <2>2. \A z \in Cell : l1[z].next = IF z = a THEN b ELSE l[z].next
    BY ONLY <1>3, l \in [Cell -> Links], a \in Cell, b \in Cell, SetNextLemma
  <2>3. \A z \in Cell : l1[z].prev = l[z].prev
    BY ONLY <1>3, l \in [Cell -> Links], a \in Cell, b \in Cell, SetNextLemma
  <2> QED
    BY <2>1, <2>2, <2>3
<1>5. PICK l2 : l2 = SetPrev(l1, b, a)
  OBVIOUS
<1>6. /\ l2 \in [Cell -> Links]
      /\ \A z \in Cell : /\ l2[z].prev = IF z = b THEN a ELSE l1[z].prev
                         /\ l2[z].next = l1[z].next
  <2>0. l1 \in [Cell -> Links] /\ l2 = SetPrev(l1, b, a)
    BY <1>4, <1>5
  <2>1. l2 \in [Cell -> Links]
    BY ONLY <2>0, l2 = SetPrev(l1, b, a), a \in Cell, b \in Cell, SetPrevLemma
  <2>2. \A z \in Cell : l2[z].prev = IF z = b THEN a ELSE l1[z].prev
    BY ONLY <2>0, l2 = SetPrev(l1, b, a), a \in Cell, b \in Cell, SetPrevLemma
  <2>3. \A z \in Cell : l2[z].next = l1[z].next
    BY ONLY <2>0, l2 = SetPrev(l1, b, a), a \in Cell, b \in Cell, SetPrevLemma
  <2> QED
    BY <2>1, <2>2, <2>3
<1>7. PICK l3 : l3 = [l2 EXCEPT ![n] = [next |-> Null, prev |-> Null]]
  OBVIOUS
<1>8. /\ l3 \in [Cell -> Links]
      /\ \A z \in Cell : /\ l3[z].prev = IF z = n THEN Null ELSE l2[z].prev
                         /\ l3[z].next = IF z = n THEN Null ELSE l2[z].next
  BY <1>6, <1>7 DEF Links
<1>9. nd_list_remove(l, n) = l3
  <2>1. l1[n].next = b /\ l1[n].prev = a
    BY <1>1, <1>2, <1>4
  <2> QED
    BY <1>1, <1>2, <1>3, <1>5, <1>7, <2>1 DEF nd_list_remove, SetNext, SetPrev
<1>10. Unlinked(l, a, n, b) \in [Cell -> Links]
  BY DEF Unlinked, Links
<1>11. \A x \in Cell : /\ l3[x].next = Unlinked(l, a, n, b)[x].next
                       /\ l3[x].prev = Unlinked(l, a, n, b)[x].prev
  BY <1>4, <1>6, <1>8 DEF Unlinked
<1> QED
  BY <1>1, <1>2, <1>8, <1>9, <1>10, <1>11, SameLinks

\* What is known of the elements of a list, with its head around them.
LEMMA AroundLemma ==
  ASSUME NEW h \in ListHead, NEW s \in Seq(ListNode), IsInjective(s)
  PROVE  /\ Len(s) \in Nat
         /\ \A i \in 1..Len(s) : Around(h, s)[i] = s[i] /\ s[i] \in ListNode /\ s[i] # h
         /\ Around(h, s)[0] = h /\ Around(h, s)[Len(s) + 1] = h
         /\ \A i \in 0..Len(s) + 1 : Around(h, s)[i] \in Cell
         /\ \A i, j \in 0..Len(s) : Around(h, s)[i] = Around(h, s)[j] => i = j
         /\ \A i, j \in 1..Len(s) + 1 : Around(h, s)[i] = Around(h, s)[j] => i = j
         /\ \A i \in 0..Len(s) + 1 : Around(h, s)[i] = h \/ Around(h, s)[i] \in Range(s)
         /\ \A x : x \in Range(s) <=> \E i \in 1..Len(s) : s[i] = x
<1>1. /\ Len(s) \in Nat
      /\ \A i \in 1..Len(s) : Around(h, s)[i] = s[i] /\ s[i] \in ListNode /\ s[i] # h
      /\ Around(h, s)[0] = h /\ Around(h, s)[Len(s) + 1] = h
  BY ListAssumption DEF Around
<1>2. \A x : x \in Range(s) <=> \E i \in 1..Len(s) : s[i] = x
  BY DEF Range
<1>3. \A i, j \in 1..Len(s) : s[i] = s[j] => i = j
  BY DEF IsInjective
<1>4. \A i \in 0..Len(s) + 1 : i = 0 \/ i = Len(s) + 1 \/ i \in 1..Len(s)
  BY <1>1
<1>5. \A i \in 0..Len(s) + 1 : Around(h, s)[i] \in Cell
  BY <1>1, <1>4 DEF Cell
<1>6. \A i, j \in 0..Len(s) : Around(h, s)[i] = Around(h, s)[j] => i = j
  BY <1>1, <1>3, <1>4
<1>7. \A i, j \in 1..Len(s) + 1 : Around(h, s)[i] = Around(h, s)[j] => i = j
  BY <1>1, <1>3, <1>4
<1>8. \A i \in 0..Len(s) + 1 : Around(h, s)[i] = h \/ Around(h, s)[i] \in Range(s)
  BY <1>1, <1>2, <1>4
<1> QED
  BY <1>1, <1>2, <1>5, <1>6, <1>7, <1>8

\* A list whose cells are left alone is linked as before.
LEMMA SameRing ==
  ASSUME NEW l, NEW m, NEW g, NEW s, Len(s) \in Nat, Ring(l, g, s),
         \A i \in 0..Len(s) + 1 : m[Around(g, s)[i]] = l[Around(g, s)[i]]
  PROVE  Ring(m, g, s)
<1> SUFFICES ASSUME NEW i \in 0..Len(s)
             PROVE  /\ m[Around(g, s)[i]].next = Around(g, s)[i + 1]
                    /\ m[Around(g, s)[i + 1]].prev = Around(g, s)[i]
  BY DEF Ring
<1>1. i \in 0..Len(s) + 1 /\ i + 1 \in 0..Len(s) + 1
  OBVIOUS
<1>2. /\ m[Around(g, s)[i]] = l[Around(g, s)[i]]
      /\ m[Around(g, s)[i + 1]] = l[Around(g, s)[i + 1]]
  BY <1>1
<1>3. /\ l[Around(g, s)[i]].next = Around(g, s)[i + 1]
      /\ l[Around(g, s)[i + 1]].prev = Around(g, s)[i]
  BY DEF Ring
<1> QED
  BY <1>2, <1>3

\* The sequence s2 is s with n at position k.
Spliced(s, k, n, s2) ==
  /\ s2 \in Seq(ListNode) /\ Len(s2) = Len(s) + 1
  /\ \A i \in 1..Len(s2) : s2[i] = IF i < k THEN s[i] ELSE IF i = k THEN n ELSE s[i - 1]

\* The three ways to put a node on a list.
LEMMA SpliceLemma ==
  ASSUME NEW s \in Seq(ListNode), NEW n \in ListNode
  PROVE  /\ Spliced(s, 1, n, <<n>> \o s)
         /\ Spliced(s, Len(s) + 1, n, Append(s, n))
         /\ \A k \in 1..Len(s) : Spliced(s, k, n, InsertAt(s, k, n))
<1>1. Spliced(s, 1, n, <<n>> \o s)
  BY DEF Spliced
<1>2. Spliced(s, Len(s) + 1, n, Append(s, n))
  BY DEF Spliced
<1>3. \A k \in 1..Len(s) : Spliced(s, k, n, InsertAt(s, k, n))
  BY InsertAtLemma DEF Spliced
<1> QED
  BY <1>1, <1>2, <1>3

\* A sequence with one more node, and its head around it.
LEMMA SplicedAround ==
  ASSUME NEW h \in ListHead, NEW s \in Seq(ListNode), IsInjective(s), NEW n \in ListNode,
         n \notin Range(s), NEW k \in 1..Len(s) + 1, NEW s2, Spliced(s, k, n, s2)
  PROVE  /\ IsInjective(s2) /\ Range(s2) = Range(s) \cup {n}
         /\ \A j \in 0..Len(s) + 2 :
              Around(h, s2)[j] = IF j < k THEN Around(h, s)[j]
                                 ELSE IF j = k THEN n ELSE Around(h, s)[j - 1]
<1>1. /\ Len(s) \in Nat /\ s2 \in Seq(ListNode) /\ Len(s2) = Len(s) + 1
      /\ \A i \in 1..Len(s) + 1 : s2[i] = IF i < k THEN s[i] ELSE IF i = k THEN n ELSE s[i - 1]
  BY DEF Spliced
<1>2. \A x : x \in Range(s) <=> \E i \in 1..Len(s) : s[i] = x
  BY DEF Range
<1>3. \A x : x \in Range(s2) <=> \E i \in 1..Len(s) + 1 : s2[i] = x
  <2>1. DOMAIN s2 = 1..Len(s) + 1
    BY <1>1
  <2> QED
    BY <2>1 DEF Range
<1>4. \A i, j \in 1..Len(s) : s[i] = s[j] => i = j
  BY DEF IsInjective
<1>5. \A i \in 1..Len(s) : s[i] # n
  BY <1>2
<1>9. \A x \in 1..Len(s) + 1 :
        \/ x = k /\ s2[x] = n
        \/ x < k /\ x \in 1..Len(s) /\ s2[x] = s[x]
        \/ x > k /\ x - 1 \in 1..Len(s) /\ s2[x] = s[x - 1]
  BY <1>1
<1>6. IsInjective(s2)
  <2> SUFFICES ASSUME NEW i \in 1..Len(s) + 1, NEW j \in 1..Len(s) + 1, s2[i] = s2[j]
               PROVE  i = j
    BY <1>1 DEF IsInjective
  <2>1. CASE i = k
    BY <1>5, <1>9, <2>1
  <2>2. CASE i < k
    BY <1>4, <1>5, <1>9, <2>2
  <2>3. CASE i > k
    BY <1>4, <1>5, <1>9, <2>3
  <2> QED
    BY <2>1, <2>2, <2>3
<1>7. Range(s2) = Range(s) \cup {n}
  <2>1. \A i \in 1..Len(s) + 1 : s2[i] = n \/ \E j \in 1..Len(s) : s2[i] = s[j]
    BY <1>9
  <2>2. \A j \in 1..Len(s) : \E i \in 1..Len(s) + 1 : s2[i] = s[j]
    <3> SUFFICES ASSUME NEW j \in 1..Len(s) PROVE \E i \in 1..Len(s) + 1 : s2[i] = s[j]
      OBVIOUS
    <3>1. CASE j < k
      <4>1. j \in 1..Len(s) + 1 /\ s2[j] = s[j]
        BY <1>1, <3>1
      <4> QED
        BY <4>1
    <3>2. CASE ~(j < k)
      <4>1. j + 1 \in 1..Len(s) + 1 /\ j + 1 # k /\ ~(j + 1 < k) /\ j + 1 - 1 = j
        BY <1>1, <3>2
      <4>2. s2[j + 1] = s[j]
        BY <1>1, <4>1
      <4> QED
        BY <4>1, <4>2
    <3> QED
      BY <3>1, <3>2
  <2>3. s2[k] = n
    BY <1>1
  <2>4. ASSUME NEW x, x \in Range(s2) PROVE x \in Range(s) \cup {n}
    BY <1>2, <1>3, <2>1, <2>4
  <2>5. ASSUME NEW x, x \in Range(s) PROVE x \in Range(s2)
    BY <1>2, <1>3, <2>2, <2>5
  <2>6. n \in Range(s2)
    <3>1. k \in 1..Len(s) + 1
      OBVIOUS
    <3> QED
      BY <1>3, <2>3, <3>1
  <2> QED
    BY <2>4, <2>5, <2>6
<1>8. ASSUME NEW j \in 0..Len(s) + 2
      PROVE  Around(h, s2)[j] = IF j < k THEN Around(h, s)[j]
                                ELSE IF j = k THEN n ELSE Around(h, s)[j - 1]
  <2>1. Around(h, s2)[j] = IF j \in 1..Len(s) + 1 THEN s2[j] ELSE h
    BY <1>1 DEF Around
  <2>2. \A i \in 0..Len(s) + 1 : Around(h, s)[i] = IF i \in 1..Len(s) THEN s[i] ELSE h
    BY DEF Around
  <2>3. CASE j < k
    <3>1. Around(h, s)[j] = IF j \in 1..Len(s) THEN s[j] ELSE h
      BY <1>1, <2>2, <2>3
    <3> QED
      BY <1>1, <2>1, <2>3, <3>1
  <2>4. CASE j = k
    BY <1>1, <2>1, <2>4
  <2>5. CASE j > k
    <3>1. Around(h, s)[j - 1] = IF j - 1 \in 1..Len(s) THEN s[j - 1] ELSE h
      <4>1. j - 1 \in 0..Len(s) + 1
        BY <1>1, <2>5
      <4> QED
        BY <2>2, <4>1
    <3> QED
      BY <1>1, <2>1, <2>5, <3>1
  <2> QED
    BY <1>1, <2>3, <2>4, <2>5
<1> QED
  BY <1>6, <1>7, <1>8

\* A node that is on no list and is put between two neighbours is on their list.
LEMMA InsertRings ==
  ASSUME NEW l, NEW ls, Rings(l, ls), NEW h \in ListHead, NEW n \in ListNode, Free(ls, n),
         NEW k \in 1..Len(ls[h]) + 1, NEW s2, Spliced(ls[h], k, n, s2)
  PROVE  Rings(Linked(l, Around(h, ls[h])[k - 1], n, Around(h, ls[h])[k]),
               [ls EXCEPT ![h] = s2])
<1>1. PICK s \in Seq(ListNode) : s = ls[h]
  BY DEF Rings
<1>2. PICK A : A = Around(h, s)
  OBVIOUS
<1>3. PICK B : B = Around(h, s2)
  OBVIOUS
<1>4. PICK l2 : l2 = Linked(l, A[k - 1], n, A[k])
  OBVIOUS
<1>5. PICK m : m = [ls EXCEPT ![h] = s2]
  OBVIOUS
<1>6. /\ l \in [Cell -> Links] /\ ls \in [ListHead -> Seq(ListNode)] /\ IsInjective(s)
      /\ n \notin Range(s) /\ k \in 1..Len(s) + 1 /\ Spliced(s, k, n, s2) /\ s2 \in Seq(ListNode)
      /\ Len(s2) = Len(s) + 1 /\ Len(s) \in Nat
  BY <1>1 DEF Rings, Free, Spliced
<1>7. /\ IsInjective(s2) /\ Range(s2) = Range(s) \cup {n}
      /\ \A j \in 0..Len(s) + 2 : B[j] = IF j < k THEN A[j] ELSE IF j = k THEN n ELSE A[j - 1]
  BY <1>2, <1>3, <1>6, SplicedAround
<1>8. /\ \A i \in 0..Len(s) + 1 : A[i] \in Cell
      /\ \A i, j \in 0..Len(s) : A[i] = A[j] => i = j
      /\ \A i, j \in 1..Len(s) + 1 : A[i] = A[j] => i = j
      /\ \A i \in 0..Len(s) + 1 : A[i] = h \/ A[i] \in Range(s)
  BY <1>2, <1>6, AroundLemma
<1>9. h # n /\ h \in Cell /\ n \in Cell /\ \A i \in 0..Len(s) + 1 : A[i] # n
  BY <1>6, <1>8, ListAssumption DEF Cell
<1>10. \A i \in 0..Len(s) : l[A[i]].next = A[i + 1] /\ l[A[i + 1]].prev = A[i]
  BY <1>1, <1>2 DEF Rings, Ring
<1>11. /\ l2 \in [Cell -> Links]
       /\ \A x \in Cell :
            /\ l2[x].next = IF x = n THEN A[k] ELSE IF x = A[k - 1] THEN n ELSE l[x].next
            /\ l2[x].prev = IF x = n THEN A[k - 1] ELSE IF x = A[k] THEN n ELSE l[x].prev
  <2>1. A[k] \in Cell /\ A[k - 1] \in Cell
    BY <1>6, <1>8
  <2> QED
    BY <1>4, <1>6, <1>9, <2>1 DEF Linked, Links
<1>12. \A x \in Cell : x # n /\ x # A[k - 1] /\ x # A[k] => l2[x] = l[x]
  <2> SUFFICES ASSUME NEW x \in Cell, x # n, x # A[k - 1], x # A[k] PROVE l2[x] = l[x]
    OBVIOUS
  <2>1. l2[x] \in Links /\ l[x] \in Links
    BY <1>6, <1>11
  <2>2. l2[x].next = l[x].next /\ l2[x].prev = l[x].prev
    BY <1>11
  <2> QED
    BY <2>1, <2>2 DEF Links
<1>13. Ring(l2, h, s2)
  <2> SUFFICES ASSUME NEW j \in 0..Len(s) + 1
               PROVE  l2[B[j]].next = B[j + 1] /\ l2[B[j + 1]].prev = B[j]
    BY <1>3, <1>6 DEF Ring
  <2>1. /\ B[j] = IF j < k THEN A[j] ELSE IF j = k THEN n ELSE A[j - 1]
        /\ B[j + 1] = IF j + 1 < k THEN A[j + 1] ELSE IF j + 1 = k THEN n ELSE A[j]
    BY <1>6, <1>7
  <2>2. CASE j + 1 < k
    <3>1. B[j] = A[j] /\ B[j + 1] = A[j + 1] /\ j \in 0..Len(s) /\ j + 1 \in 0..Len(s) + 1
      BY <1>6, <2>1, <2>2
    <3>2. A[j] # A[k - 1]
      BY <1>6, <1>8, <2>2
    <3>3. A[j + 1] # A[k]
      BY <1>6, <1>8, <2>2
    <3>4. A[j] \in Cell /\ A[j + 1] \in Cell /\ A[j] # n /\ A[j + 1] # n
      BY <1>6, <1>8, <1>9, <3>1
    <3>5. l[A[j]].next = A[j + 1] /\ l[A[j + 1]].prev = A[j]
      BY <1>10, <3>1
    <3> QED
      BY <1>11, <3>1, <3>2, <3>3, <3>4, <3>5
  <2>3. CASE j + 1 = k
    <3>1. B[j] = A[k - 1] /\ B[j + 1] = n /\ k - 1 \in 0..Len(s) + 1
      BY <1>6, <2>1, <2>3
    <3> QED
      BY <1>8, <1>9, <1>11, <3>1
  <2>4. CASE j = k
    <3>1. B[j] = n /\ B[j + 1] = A[k] /\ k \in 0..Len(s) + 1
      BY <1>6, <2>1, <2>4
    <3> QED
      BY <1>8, <1>9, <1>11, <3>1
  <2>5. CASE j > k
    <3>1. B[j] = A[j - 1] /\ B[j + 1] = A[j] /\ j - 1 \in 0..Len(s) /\ j \in 0..Len(s) + 1
      BY <1>6, <2>1, <2>5
    <3>2. A[j - 1] # A[k - 1]
      BY <1>6, <1>8, <2>5
    <3>3. A[j] # A[k]
      BY <1>6, <1>8, <2>5
    <3>4. l[A[j - 1]].next = A[j] /\ l[A[j]].prev = A[j - 1]
      <4>1. j - 1 + 1 = j
        BY <1>6
      <4> QED
        BY <1>10, <3>1, <4>1
    <3> QED
      BY <1>8, <1>9, <1>11, <3>1, <3>2, <3>3, <3>4
  <2> QED
    BY <1>6, <2>2, <2>3, <2>4, <2>5
<1>14. /\ m \in [ListHead -> Seq(ListNode)] /\ m[h] = s2
       /\ \A g \in ListHead : g # h => m[g] = ls[g]
  BY <1>5, <1>6
<1>15. ASSUME NEW g \in ListHead, g # h
       PROVE  Ring(l2, g, ls[g])
  <2>1. ls[g] \in Seq(ListNode) /\ IsInjective(ls[g]) /\ Ring(l, g, ls[g])
        /\ Range(ls[g]) \cap Range(s) = {} /\ n \notin Range(ls[g])
    BY <1>1, <1>6, <1>15 DEF Rings, Free
  <2>2. \A i \in 0..Len(ls[g]) + 1 : Around(g, ls[g])[i] = g \/ Around(g, ls[g])[i] \in Range(ls[g])
    BY <2>1, AroundLemma
  <2>3. \A i \in 0..Len(ls[g]) + 1 : Around(g, ls[g])[i] \in Cell
    BY <2>1, AroundLemma
  <2>4. Len(ls[g]) \in Nat /\ Range(ls[g]) \subseteq ListNode /\ Range(s) \subseteq ListNode
    BY <2>1, <1>1 DEF Range
  <2>5. g # n /\ g \notin Range(s) /\ h \notin Range(ls[g])
    BY <2>4, ListAssumption
  <2>6. A[k - 1] \in {h} \cup Range(s) /\ A[k] \in {h} \cup Range(s)
    BY <1>6, <1>8
  <2>7. \A i \in 0..Len(ls[g]) + 1 : l2[Around(g, ls[g])[i]] = l[Around(g, ls[g])[i]]
    BY <1>12, <1>15, <2>1, <2>2, <2>3, <2>5, <2>6
  <2> QED
    BY ONLY <2>1, <2>4, <2>7, SameRing
<1>16. \A g \in ListHead : IsInjective(m[g]) /\ Ring(l2, g, m[g])
  BY <1>7, <1>13, <1>14, <1>15 DEF Rings
<1>17. \A g, f \in ListHead : g # f => Range(m[g]) \cap Range(m[f]) = {}
  <2> SUFFICES ASSUME NEW g \in ListHead, NEW f \in ListHead, g # f
               PROVE  Range(m[g]) \cap Range(m[f]) = {}
    OBVIOUS
  <2>1. \A e \in ListHead : e # h => n \notin Range(ls[e]) /\ Range(ls[e]) \cap Range(s) = {}
    BY <1>1 DEF Rings, Free
  <2>2. CASE g = h
    BY <1>7, <1>14, <2>1, <2>2
  <2>3. CASE f = h
    BY <1>7, <1>14, <2>1, <2>3
  <2>4. CASE g # h /\ f # h
    BY <1>14, <2>4 DEF Rings
  <2> QED
    BY <2>2, <2>3, <2>4
<1>18. ASSUME NEW x \in ListNode, Free(m, x)
       PROVE  l2[x] \in {Loose, Alone(x)}
  <2>1. x # n /\ x \notin Range(s) /\ Free(ls, x)
    BY <1>1, <1>7, <1>14, <1>18 DEF Free
  <2>2. x # h /\ x \in Cell
    BY ListAssumption DEF Cell
  <2>3. x # A[k - 1] /\ x # A[k]
    BY <1>6, <1>8, <2>1, <2>2
  <2> QED
    BY <1>12, <2>1, <2>2, <2>3 DEF Rings
<1>19. Rings(l2, m)
  BY <1>11, <1>14, <1>16, <1>17, <1>18 DEF Rings
<1> QED
  BY <1>1, <1>2, <1>4, <1>5, <1>19

\* The sequence s2 is s without what was at position k.
Cut(s, k, s2) ==
  /\ s2 \in Seq(ListNode) /\ Len(s2) = Len(s) - 1
  /\ \A i \in 1..Len(s2) : s2[i] = IF i < k THEN s[i] ELSE s[i + 1]

\* The one way to take a node from a list.
LEMMA CutLemma ==
  ASSUME NEW s \in Seq(ListNode), IsInjective(s), NEW k \in 1..Len(s)
  PROVE  Cut(s, k, RemoveFirst(s, s[k]))
<1>1. {i \in 1..Len(s) : s[i] = s[k]} = {k}
  BY DEF IsInjective
<1>2. Min({k}) = k
  BY DEF Min
<1>3. RemoveFirst(s, s[k]) = RemoveAt(s, k)
  BY <1>1, <1>2 DEF RemoveFirst, SelectInSeq
<1> QED
  BY <1>3, RemoveAtLemma DEF Cut

\* A sequence with one node less, and its head around it.
LEMMA CutAround ==
  ASSUME NEW h \in ListHead, NEW s \in Seq(ListNode), IsInjective(s),
         NEW k \in 1..Len(s), NEW s2, Cut(s, k, s2)
  PROVE  /\ IsInjective(s2) /\ Range(s2) = Range(s) \ {s[k]}
         /\ \A j \in 0..Len(s) :
              Around(h, s2)[j] = IF j < k THEN Around(h, s)[j] ELSE Around(h, s)[j + 1]
<1>1. /\ Len(s) \in Nat /\ s2 \in Seq(ListNode) /\ Len(s2) = Len(s) - 1
      /\ \A i \in 1..Len(s) - 1 : s2[i] = IF i < k THEN s[i] ELSE s[i + 1]
  BY DEF Cut
<1>2. \A x : x \in Range(s) <=> \E i \in 1..Len(s) : s[i] = x
  BY DEF Range
<1>3. \A x : x \in Range(s2) <=> \E i \in 1..Len(s) - 1 : s2[i] = x
  <2>1. DOMAIN s2 = 1..Len(s) - 1
    BY <1>1
  <2> QED
    BY <2>1 DEF Range
<1>4. \A i, j \in 1..Len(s) : s[i] = s[j] => i = j
  BY DEF IsInjective
<1>6. IsInjective(s2)
  <2> SUFFICES ASSUME NEW i \in 1..Len(s) - 1, NEW j \in 1..Len(s) - 1, s2[i] = s2[j]
               PROVE  i = j
    BY <1>1 DEF IsInjective
  <2> QED
    BY <1>1, <1>4
<1>7. Range(s2) = Range(s) \ {s[k]}
  <2>1. \A i \in 1..Len(s) - 1 : \E j \in 1..Len(s) : j # k /\ s2[i] = s[j]
    <3> SUFFICES ASSUME NEW i \in 1..Len(s) - 1
                 PROVE  \E j \in 1..Len(s) : j # k /\ s2[i] = s[j]
      OBVIOUS
    <3>1. CASE i < k
      <4>1. i \in 1..Len(s) /\ i # k /\ s2[i] = s[i]
        BY <1>1, <3>1
      <4> QED
        BY <4>1
    <3>2. CASE ~(i < k)
      <4>1. i + 1 \in 1..Len(s) /\ i + 1 # k /\ s2[i] = s[i + 1]
        BY <1>1, <3>2
      <4> QED
        BY <4>1
    <3> QED
      BY <3>1, <3>2
  <2>2. \A j \in 1..Len(s) : j # k => \E i \in 1..Len(s) - 1 : s2[i] = s[j]
    <3> SUFFICES ASSUME NEW j \in 1..Len(s), j # k PROVE \E i \in 1..Len(s) - 1 : s2[i] = s[j]
      OBVIOUS
    <3>1. CASE j < k
      <4>1. j \in 1..Len(s) - 1 /\ s2[j] = s[j]
        BY <1>1, <3>1
      <4> QED
        BY <4>1
    <3>2. CASE ~(j < k)
      <4>1. j - 1 \in 1..Len(s) - 1 /\ ~(j - 1 < k) /\ j - 1 + 1 = j
        BY <1>1, <3>2
      <4>2. s2[j - 1] = s[j]
        BY <1>1, <4>1
      <4> QED
        BY <4>1, <4>2
    <3> QED
      BY <3>1, <3>2
  <2>3. \A x : x \in Range(s2) => x \in Range(s) \ {s[k]}
    BY <1>2, <1>3, <1>4, <2>1
  <2>4. \A x : x \in Range(s) \ {s[k]} => x \in Range(s2)
    BY <1>2, <1>3, <2>2
  <2> QED
    BY <2>3, <2>4
<1>8. ASSUME NEW j \in 0..Len(s)
      PROVE  Around(h, s2)[j] = IF j < k THEN Around(h, s)[j] ELSE Around(h, s)[j + 1]
  <2>1. Around(h, s2)[j] = IF j \in 1..Len(s) - 1 THEN s2[j] ELSE h
    BY <1>1 DEF Around
  <2>2. \A i \in 0..Len(s) + 1 : Around(h, s)[i] = IF i \in 1..Len(s) THEN s[i] ELSE h
    BY DEF Around
  <2>3. CASE j < k
    <3>1. Around(h, s)[j] = IF j \in 1..Len(s) THEN s[j] ELSE h
      BY <1>1, <2>2, <2>3
    <3> QED
      BY <1>1, <2>1, <2>3, <3>1
  <2>4. CASE ~(j < k)
    <3>1. Around(h, s)[j + 1] = IF j + 1 \in 1..Len(s) THEN s[j + 1] ELSE h
      <4>1. j + 1 \in 0..Len(s) + 1
        BY <1>1
      <4> QED
        BY <2>2, <4>1
    <3> QED
      BY <1>1, <2>1, <2>4, <3>1
  <2> QED
    BY <2>3, <2>4
<1> QED
  BY <1>6, <1>7, <1>8

\* A node that is taken from between its neighbours is on no list.
LEMMA RemoveRings ==
  ASSUME NEW l, NEW ls, Rings(l, ls), NEW h \in ListHead, NEW k \in 1..Len(ls[h]),
         NEW s2, Cut(ls[h], k, s2)
  PROVE  /\ Rings(Unlinked(l, Around(h, ls[h])[k - 1], ls[h][k], Around(h, ls[h])[k + 1]),
                  [ls EXCEPT ![h] = s2])
         /\ Free([ls EXCEPT ![h] = s2], ls[h][k])
<1>1. PICK s \in Seq(ListNode) : s = ls[h]
  BY DEF Rings
<1>2. PICK A : A = Around(h, s)
  OBVIOUS
<1>3. PICK B : B = Around(h, s2)
  OBVIOUS
<1>4. PICK n : n = s[k]
  OBVIOUS
<1>5. PICK m : m = [ls EXCEPT ![h] = s2]
  OBVIOUS
<1>6. PICK l2 : l2 = Unlinked(l, A[k - 1], n, A[k + 1])
  OBVIOUS
<1>7. /\ l \in [Cell -> Links] /\ ls \in [ListHead -> Seq(ListNode)] /\ IsInjective(s)
      /\ k \in 1..Len(s) /\ Cut(s, k, s2) /\ s2 \in Seq(ListNode)
      /\ Len(s2) = Len(s) - 1 /\ Len(s) \in Nat
  <2>1. /\ l \in [Cell -> Links] /\ ls \in [ListHead -> Seq(ListNode)] /\ IsInjective(s)
        /\ Cut(s, k, s2)
    BY <1>1 DEF Rings
  <2>2. s2 \in Seq(ListNode) /\ Len(s2) = Len(s) - 1
    BY <2>1 DEF Cut
  <2> QED
    BY <1>1, <2>1, <2>2
<1>8. /\ IsInjective(s2) /\ Range(s2) = Range(s) \ {n}
      /\ \A j \in 0..Len(s) : B[j] = IF j < k THEN A[j] ELSE A[j + 1]
  BY <1>2, <1>3, <1>4, <1>7, CutAround
<1>9. /\ \A i \in 0..Len(s) + 1 : A[i] \in Cell
      /\ \A i, j \in 0..Len(s) : A[i] = A[j] => i = j
      /\ \A i, j \in 1..Len(s) + 1 : A[i] = A[j] => i = j
      /\ \A i \in 0..Len(s) + 1 : A[i] = h \/ A[i] \in Range(s)
      /\ A[k] = n /\ n \in ListNode /\ n # h /\ n \in Range(s)
  <2>1. /\ \A i \in 0..Len(s) + 1 : A[i] \in Cell
        /\ \A i, j \in 0..Len(s) : A[i] = A[j] => i = j
        /\ \A i, j \in 1..Len(s) + 1 : A[i] = A[j] => i = j
        /\ \A i \in 0..Len(s) + 1 : A[i] = h \/ A[i] \in Range(s)
    BY <1>2, <1>7, AroundLemma
  <2>2. A[k] = s[k] /\ s[k] \in ListNode /\ s[k] # h
    BY <1>2, <1>7, AroundLemma
  <2>3. s[k] \in Range(s)
    BY <1>7 DEF Range
  <2> QED
    BY <1>4, <2>1, <2>2, <2>3
<1>10. \A i \in 0..Len(s) : l[A[i]].next = A[i + 1] /\ l[A[i + 1]].prev = A[i]
  BY <1>1, <1>2 DEF Rings, Ring
<1>11. /\ l2 \in [Cell -> Links]
       /\ \A x \in Cell :
            /\ l2[x].next = IF x = n THEN Null ELSE IF x = A[k - 1] THEN A[k + 1] ELSE l[x].next
            /\ l2[x].prev = IF x = n THEN Null ELSE IF x = A[k + 1] THEN A[k - 1] ELSE l[x].prev
  <2>1. A[k + 1] \in Cell /\ A[k - 1] \in Cell
    BY <1>7, <1>9
  <2> QED
    BY <1>6, <1>7, <2>1 DEF Unlinked, Links
<1>12. \A x \in Cell : x # n /\ x # A[k - 1] /\ x # A[k + 1] => l2[x] = l[x]
  <2> SUFFICES ASSUME NEW x \in Cell, x # n, x # A[k - 1], x # A[k + 1] PROVE l2[x] = l[x]
    OBVIOUS
  <2>1. l2[x] \in Links /\ l[x] \in Links
    BY <1>7, <1>11
  <2>2. l2[x].next = l[x].next /\ l2[x].prev = l[x].prev
    BY <1>11
  <2> QED
    BY <2>1, <2>2 DEF Links
<1>13. Ring(l2, h, s2)
  <2> SUFFICES ASSUME NEW j \in 0..Len(s) - 1
               PROVE  l2[B[j]].next = B[j + 1] /\ l2[B[j + 1]].prev = B[j]
    BY <1>3, <1>7 DEF Ring
  <2>1. /\ B[j] = IF j < k THEN A[j] ELSE A[j + 1]
        /\ B[j + 1] = IF j + 1 < k THEN A[j + 1] ELSE A[j + 1 + 1]
        /\ j \in 0..Len(s) /\ j + 1 \in 0..Len(s) /\ j + 1 + 1 \in 0..Len(s) + 1
    BY <1>7, <1>8
  <2>2. CASE j + 1 < k
    <3>1. B[j] = A[j] /\ B[j + 1] = A[j + 1]
      BY <1>7, <2>1, <2>2
    <3>2. A[j] # A[k - 1] /\ A[j] # n
      BY <1>7, <1>9, <2>2
    <3>3. A[j + 1] # A[k + 1] /\ A[j + 1] # n
      BY <1>7, <1>9, <2>2
    <3> QED
      BY <1>9, <1>10, <1>11, <2>1, <3>1, <3>2, <3>3
  <2>3. CASE j + 1 = k
    <3>1. /\ B[j] = A[k - 1] /\ B[j + 1] = A[k + 1]
          /\ k - 1 \in 0..Len(s) + 1 /\ k + 1 \in 0..Len(s) + 1
      BY <1>7, <2>1, <2>3
    <3>2. A[k - 1] # n /\ A[k + 1] # n
      BY <1>7, <1>9
    <3>3. A[k - 1] \in Cell /\ A[k + 1] \in Cell
      BY <1>9, <3>1
    <3> QED
      BY <1>11, <3>1, <3>2, <3>3
  <2>4. CASE j + 1 > k
    <3>1. B[j] = A[j + 1] /\ B[j + 1] = A[j + 1 + 1]
      BY <1>7, <2>1, <2>4
    <3>2. A[j + 1] # A[k - 1] /\ A[j + 1] # n
      <4>1. j + 1 \in 0..Len(s) /\ k - 1 \in 0..Len(s) /\ k \in 0..Len(s)
            /\ j + 1 # k - 1 /\ j + 1 # k
        BY <1>7, <2>1, <2>4
      <4>2. A[j + 1] # A[k - 1]
        BY ONLY <1>9, <4>1
      <4>3. A[j + 1] # A[k]
        BY ONLY <1>9, <4>1
      <4> QED
        BY <1>9, <4>2, <4>3
    <3>3. A[j + 1 + 1] # A[k + 1] /\ A[j + 1 + 1] # n
      <4>1. j + 1 + 1 \in 1..Len(s) + 1 /\ k + 1 \in 1..Len(s) + 1 /\ k \in 1..Len(s) + 1
            /\ j + 1 + 1 # k + 1 /\ j + 1 + 1 # k
        BY <1>7, <2>1, <2>4
      <4>2. A[j + 1 + 1] # A[k + 1]
        BY ONLY <1>9, <4>1
      <4>3. A[j + 1 + 1] # A[k]
        BY ONLY <1>9, <4>1
      <4> QED
        BY <1>9, <4>2, <4>3
    <3>4. /\ A[j + 1] \in Cell /\ A[j + 1 + 1] \in Cell
          /\ l[A[j + 1]].next = A[j + 1 + 1] /\ l[A[j + 1 + 1]].prev = A[j + 1]
      BY <1>9, <1>10, <2>1
    <3> QED
      BY <1>11, <3>1, <3>2, <3>3, <3>4
  <2> QED
    BY <1>7, <2>2, <2>3, <2>4
<1>14. /\ m \in [ListHead -> Seq(ListNode)] /\ m[h] = s2
       /\ \A g \in ListHead : g # h => m[g] = ls[g]
  BY <1>5, <1>7
<1>15. \A g \in ListHead : g # h => Range(ls[g]) \cap Range(s) = {} /\ n \notin Range(ls[g])
  BY <1>1, <1>9 DEF Rings
<1>16. ASSUME NEW g \in ListHead, g # h
       PROVE  Ring(l2, g, ls[g])
  <2>1. ls[g] \in Seq(ListNode) /\ IsInjective(ls[g]) /\ Ring(l, g, ls[g])
    BY <1>7 DEF Rings
  <2>2. \A i \in 0..Len(ls[g]) + 1 : Around(g, ls[g])[i] = g \/ Around(g, ls[g])[i] \in Range(ls[g])
    BY <2>1, AroundLemma
  <2>3. \A i \in 0..Len(ls[g]) + 1 : Around(g, ls[g])[i] \in Cell
    BY <2>1, AroundLemma
  <2>4. Len(ls[g]) \in Nat /\ Range(ls[g]) \subseteq ListNode /\ Range(s) \subseteq ListNode
    BY <2>1, <1>1 DEF Range
  <2>5. g # n /\ g \notin Range(s) /\ h \notin Range(ls[g])
    BY <1>9, <2>4, ListAssumption
  <2>6. A[k - 1] \in {h} \cup Range(s) /\ A[k + 1] \in {h} \cup Range(s)
    BY <1>7, <1>9
  <2>7. \A i \in 0..Len(ls[g]) + 1 : l2[Around(g, ls[g])[i]] = l[Around(g, ls[g])[i]]
    BY <1>12, <1>15, <1>16, <2>2, <2>3, <2>5, <2>6
  <2> QED
    BY ONLY <2>1, <2>4, <2>7, SameRing
<1>17. \A g \in ListHead : IsInjective(m[g]) /\ Ring(l2, g, m[g])
  BY <1>8, <1>13, <1>14, <1>16 DEF Rings
<1>18. \A g, f \in ListHead : g # f => Range(m[g]) \cap Range(m[f]) = {}
  <2> SUFFICES ASSUME NEW g \in ListHead, NEW f \in ListHead, g # f
               PROVE  Range(m[g]) \cap Range(m[f]) = {}
    OBVIOUS
  <2>1. CASE g = h
    BY <1>8, <1>14, <1>15, <2>1
  <2>2. CASE f = h
    BY <1>8, <1>14, <1>15, <2>2
  <2>3. CASE g # h /\ f # h
    BY <1>14, <2>3 DEF Rings
  <2> QED
    BY <2>1, <2>2, <2>3
<1>19. ASSUME NEW x \in ListNode, Free(m, x)
       PROVE  l2[x] \in {Loose, Alone(x)}
  <2>1. x \in Cell /\ x # h
    BY ListAssumption DEF Cell
  <2>2. CASE x = n
    <3>1. l2[x] \in Links /\ l2[x].next = Null /\ l2[x].prev = Null
      BY <1>11, <2>1, <2>2
    <3> QED
      BY <3>1 DEF Links, Loose
  <2>3. CASE x # n
    <3>1. x \notin Range(s) /\ Free(ls, x)
      BY <1>1, <1>8, <1>14, <1>19, <2>3 DEF Free
    <3>2. x # A[k - 1] /\ x # A[k + 1]
      BY <1>7, <1>9, <2>1, <3>1
    <3> QED
      BY <1>12, <2>1, <2>3, <3>1, <3>2 DEF Rings
  <2> QED
    BY <2>2, <2>3
<1>20. Rings(l2, m)
  BY <1>11, <1>14, <1>17, <1>18, <1>19 DEF Rings
<1>21. Free(m, n)
  BY <1>8, <1>14, <1>15 DEF Free
<1> QED
  BY <1>1, <1>2, <1>4, <1>5, <1>6, <1>20, <1>21

-----------------------------------------------------------------------------
(* Going around a list *)

\* The function of the turns is the one its definition asks for.
LEMMA TurnedLemma ==
  ASSUME NEW l, NEW h, NEW dir
  PROVE  /\ Turned(l, h, dir)[0] = h
         /\ \A n \in 1..Cardinality(ListNode) + 1 :
              Turned(l, h, dir)[n] = l[Turned(l, h, dir)[n - 1]][dir]
<1> DEFINE M == Cardinality(ListNode) + 1
           Follows(f, n) == f = [i \in 0..n |-> IF i = 0 THEN h ELSE l[f[i - 1]][dir]]
           S == {n \in 0..M : \E f : Follows(f, n)}
           g == Turned(l, h, dir)
<1>1. M \in Nat
  BY ListAssumption, FS_CardinalityType
<1>2. 0 \in S
  <2>1. PICK f : f = [i \in 0..0 |-> h]
    OBVIOUS
  <2>2. Follows(f, 0)
    BY <2>1
  <2> HIDE DEF Follows
  <2> QED
    BY <1>1, <2>2
<1>3. ASSUME NEW n \in 0..M, n < M, n \in S
      PROVE  n + 1 \in S
  <2>1. PICK f : Follows(f, n)
    BY <1>3
  <2>2. /\ f[0] = h
        /\ \A i \in 1..n : f[i] = l[f[i - 1]][dir]
    BY <2>1
  <2> DEFINE e == [i \in 0..n + 1 |-> IF i = n + 1 THEN l[f[n]][dir] ELSE f[i]]
             d == [i \in 0..n + 1 |-> IF i = 0 THEN h ELSE l[e[i - 1]][dir]]
  <2>3. ASSUME NEW i \in 0..n + 1
        PROVE  e[i] = IF i = 0 THEN h ELSE l[e[i - 1]][dir]
    <3>1. CASE i = 0
      BY <2>2, <3>1
    <3>2. CASE i = n + 1
      <4>1. i # 0 /\ i - 1 = n /\ e[n] = f[n] /\ e[i] = l[f[n]][dir]
        BY <3>2
      <4> HIDE DEF e
      <4> QED
        BY <4>1
    <3>3. CASE i \in 1..n
      <4>1. i # 0 /\ i - 1 \in 0..n /\ e[i] = f[i] /\ e[i - 1] = f[i - 1]
        BY <3>3
      <4> HIDE DEF e
      <4> QED
        BY <2>2, <3>3, <4>1
    <3> QED
      BY <3>1, <3>2, <3>3
  <2>4. e = d
    <3>1. \A i \in 0..n + 1 : e[i] = d[i]
      <4> HIDE DEF e
      <4> QED
        BY <2>3
    <3> HIDE DEF e
    <3>2. e = [i \in 0..n + 1 |-> e[i]]
      BY DEF e
    <3>3. d = [i \in 0..n + 1 |-> d[i]]
      OBVIOUS
    <3> HIDE DEF d
    <3> QED
      BY <3>1, <3>2, <3>3
  <2>5. Follows(e, n + 1)
    <3> HIDE DEF e
    <3> QED
      BY <2>4
  <2>6. n + 1 \in 0..M
    BY <1>1, <1>3
  <2> QED
    BY <2>5, <2>6
<1>4. M \in S
  <2> HIDE DEF S
  <2>1. \A i \in 0..M : i \in S
    <3> HIDE DEF M
    <3> QED
      BY ONLY <1>1, <1>2, <1>3, Climbs
  <2> QED
    BY <1>1, <2>1
<1>5. g = CHOOSE f : Follows(f, M)
  BY DEF Turned
<1>6. Follows(g, M)
  <2>1. \E f : Follows(f, M)
    BY <1>4
  <2> HIDE DEF Follows, g
  <2> QED
    BY <1>5, <2>1
<1> HIDE DEF g
<1>7. g[0] = h /\ \A n \in 1..M : g[n] = l[g[n - 1]][dir]
  BY <1>1, <1>6
<1> QED
  BY <1>7 DEF g

\* When the links lead through c and back to the head, c is what is met.
LEMMA WalkedLemma ==
  ASSUME NEW l, NEW h, NEW dir, NEW N \in Nat, N <= Cardinality(ListNode), NEW c,
         c[0] = h, c[N + 1] = h, \A i \in 1..N : c[i] # h,
         \A i \in 0..N : l[c[i]][dir] = c[i + 1]
  PROVE  Walked(l, h, dir) = [n \in 1..N |-> c[n]]
<1>1. PICK at : at = Turned(l, h, dir)
  OBVIOUS
<1>2. PICK M : M = Cardinality(ListNode) + 1
  OBVIOUS
<1>3. M \in Nat /\ N + 1 <= M
  BY <1>2, ListAssumption, FS_CardinalityType
<1>4. at[0] = h /\ \A n \in 1..M : at[n] = l[at[n - 1]][dir]
  BY <1>1, <1>2, TurnedLemma
<1> DEFINE S == {n \in Nat : at[n] = c[n]}
<1>5. 0 \in S
  BY <1>4
<1>6. ASSUME NEW i \in 0..N + 1, i < N + 1, i \in S
      PROVE  i + 1 \in S
  <2>1. i + 1 \in 1..M /\ i \in 0..N /\ i + 1 - 1 = i
    BY <1>3, <1>6
  <2>2. at[i + 1] = l[at[i]][dir]
    BY <1>4, <2>1
  <2> QED
    BY <1>6, <2>1, <2>2
<1>7. \A i \in 0..N + 1 : at[i] = c[i]
  <2>1. N + 1 \in Nat
    OBVIOUS
  <2> HIDE DEF S
  <2>2. \A i \in 0..N + 1 : i \in S
    BY ONLY <1>5, <1>6, <2>1, Climbs
  <2> QED
    BY <2>2 DEF S
<1> DEFINE R == {n \in 1..M : at[n] = h}
<1>8. N + 1 \in R /\ \A n \in R : N + 1 <= n
  BY <1>3, <1>7
<1>9. Min(R) = N + 1
  <2>1. R \subseteq Nat /\ R # {}
    BY <1>8
  <2>2. Min(R) \in R /\ \A y \in R : Min(R) <= y
    <3> HIDE DEF R
    <3> QED
      BY <2>1, MinIsLeast
  <2>3. Min(R) \in Nat
    BY <2>2
  <2> HIDE DEF R
  <2> QED
    BY <1>8, <2>2, <2>3
<1>10. Walked(l, h, dir) = [n \in 1..Min(R) - 1 |-> at[n]]
  BY <1>1, <1>2 DEF Walked
<1>11. Min(R) - 1 = N
  BY <1>9
<1> HIDE DEF R
<1>12. Walked(l, h, dir) = [n \in 1..N |-> at[n]]
  BY <1>10, <1>11
<1>13. \A n \in 1..N : at[n] = c[n]
  BY <1>7
<1> QED
  BY <1>12, <1>13

\* Forwards and backwards, a loop meets what is on the list.
LEMMA RingWalked ==
  ASSUME NEW l, NEW ls, Rings(l, ls), NEW h \in ListHead
  PROVE  Walked(l, h, "next") = ls[h] /\ Walked(l, h, "prev") = Reverse(ls[h])
<1>1. PICK s \in Seq(ListNode) : s = ls[h]
  BY DEF Rings
<1>2. IsInjective(s) /\ Ring(l, h, s)
  BY <1>1 DEF Rings
<1>3. PICK N \in Nat : N = Len(s)
  OBVIOUS
<1>4. N <= Cardinality(ListNode)
  <2>1. s \in [1..N -> ListNode] /\ \A i, j \in 1..N : s[i] = s[j] => i = j
    BY <1>2, <1>3 DEF IsInjective
  <2>2. s \in Injection(1..N, ListNode)
    BY <2>1 DEF Injection, IsInjective
  <2>3. Cardinality(1..N) <= Cardinality(ListNode)
    BY <2>2, ListAssumption, FS_Injection
  <2>4. Cardinality(1..N) = N
    BY FS_Interval
  <2> QED
    BY <2>3, <2>4
<1>5. PICK A : A = Around(h, s)
  OBVIOUS
<1>6. /\ A[0] = h /\ A[N + 1] = h
      /\ \A i \in 1..N : A[i] # h /\ A[i] = s[i]
      /\ \A i \in 0..N : l[A[i]].next = A[i + 1] /\ l[A[i + 1]].prev = A[i]
  BY <1>2, <1>3, <1>5, AroundLemma DEF Ring
<1>7. Walked(l, h, "next") = s
  <2>1. \A i \in 0..N : l[A[i]]["next"] = A[i + 1]
    BY <1>6
  <2>2. Walked(l, h, "next") = [n \in 1..N |-> A[n]]
    <3>1. PICK dir : dir = "next"
      OBVIOUS
    <3>2. \A i \in 0..N : l[A[i]][dir] = A[i + 1]
      BY <2>1, <3>1
    <3>3. Walked(l, h, dir) = [n \in 1..N |-> A[n]]
      <4>1. A[0] = h /\ A[N + 1] = h /\ \A i \in 1..N : A[i] # h
        BY <1>6
      <4> QED
        BY ONLY N \in Nat, <1>4, <3>2, <4>1, WalkedLemma
    <3> QED
      BY <3>1, <3>3
  <2>3. s = [n \in 1..N |-> s[n]]
    BY <1>3
  <2> QED
    BY <1>6, <2>2, <2>3
<1>8. Walked(l, h, "prev") = Reverse(s)
  <2>1. PICK c : c = [i \in 0..N + 1 |-> A[N + 1 - i]]
    OBVIOUS
  <2>2. c[0] = h /\ c[N + 1] = h /\ \A i \in 1..N : c[i] # h
    BY <1>6, <2>1
  <2>3. \A i \in 0..N : l[c[i]]["prev"] = c[i + 1]
    <3> SUFFICES ASSUME NEW i \in 0..N PROVE l[c[i]]["prev"] = c[i + 1]
      OBVIOUS
    <3>1. c[i] = A[N - i + 1] /\ c[i + 1] = A[N - i] /\ N - i \in 0..N
      BY <2>1
    <3> QED
      BY <1>6, <3>1
  <2>4. Walked(l, h, "prev") = [n \in 1..N |-> c[n]]
    <3>1. PICK dir : dir = "prev"
      OBVIOUS
    <3>2. \A i \in 0..N : l[c[i]][dir] = c[i + 1]
      BY <2>3, <3>1
    <3>3. Walked(l, h, dir) = [n \in 1..N |-> c[n]]
      BY ONLY N \in Nat, <1>4, <2>2, <3>2, WalkedLemma
    <3> QED
      BY <3>1, <3>3
  <2>5. \A n \in 1..N : c[n] = s[N - n + 1]
    <3> SUFFICES ASSUME NEW n \in 1..N PROVE c[n] = s[N - n + 1]
      OBVIOUS
    <3>1. c[n] = A[N - n + 1] /\ N - n + 1 \in 1..N
      BY <2>1
    <3> QED
      BY <1>6, <3>1
  <2>6. Reverse(s) = [n \in 1..N |-> s[N - n + 1]]
    BY <1>3 DEF Reverse
  <2> QED
    BY <2>4, <2>5, <2>6
<1> QED
  BY <1>1, <1>7, <1>8

-----------------------------------------------------------------------------
(* The steps of the lists *)

\* A node that is on no list is put on one, in each of the three ways.
LEMMA InsertKeeps ==
  ASSUME NEW l, NEW ls, Rings(l, ls), NEW h \in ListHead, NEW n \in ListNode, Free(ls, n)
  PROVE  /\ Rings(nd_list_insert_after(l, h, n), [ls EXCEPT ![h] = <<n>> \o @])
         /\ Rings(nd_list_insert_before(l, h, n), [ls EXCEPT ![h] = Append(@, n)])
         /\ \A i \in 1..Len(ls[h]) :
              Rings(nd_list_insert_before(l, ls[h][i], n), [ls EXCEPT ![h] = InsertAt(@, i, n)])
<1>1. PICK s \in Seq(ListNode) : s = ls[h]
  BY DEF Rings
<1>2. PICK A : A = Around(h, s)
  OBVIOUS
<1>3. l \in [Cell -> Links] /\ IsInjective(s) /\ n \notin Range(s) /\ Ring(l, h, s)
  BY <1>1 DEF Rings, Free
<1>4. /\ Len(s) \in Nat /\ A[0] = h /\ A[Len(s) + 1] = h
      /\ \A i \in 1..Len(s) : A[i] = s[i]
      /\ \A i \in 0..Len(s) + 1 : A[i] \in Cell
      /\ \A i \in 0..Len(s) + 1 : A[i] = h \/ A[i] \in Range(s)
  BY <1>2, <1>3, AroundLemma
<1>5. h # n /\ n \in Cell /\ \A i \in 0..Len(s) + 1 : A[i] \in Cell \ {n}
  BY <1>3, <1>4, ListAssumption DEF Cell
<1>6. ASSUME NEW k \in 1..Len(s) + 1, NEW s2, Spliced(s, k, n, s2)
      PROVE  /\ Rings(nd_list_insert_after(l, A[k - 1], n), [ls EXCEPT ![h] = s2])
             /\ Rings(nd_list_insert_before(l, A[k], n), [ls EXCEPT ![h] = s2])
  <2>1. Rings(Linked(l, A[k - 1], n, A[k]), [ls EXCEPT ![h] = s2])
    BY <1>1, <1>2, <1>6, InsertRings
  <2>2. k - 1 \in 0..Len(s) /\ k - 1 \in 0..Len(s) + 1 /\ k \in 0..Len(s) + 1 /\ k - 1 + 1 = k
    BY <1>4
  <2>3. l[A[k - 1]].next = A[k] /\ l[A[k]].prev = A[k - 1]
    BY <1>2, <1>3, <2>2 DEF Ring
  <2>4. PICK a \in Cell \ {n} : a = A[k - 1]
    BY <1>5, <2>2
  <2>5. PICK b \in Cell \ {n} : b = A[k]
    BY <1>5, <2>2
  <2>6. l[a].next = b /\ l[b].prev = a
    BY <2>3, <2>4, <2>5
  <2>7. nd_list_insert_after(l, a, n) = Linked(l, a, n, b)
    BY <1>3, <1>5, <2>6, InsertAfterLemma
  <2>8. nd_list_insert_before(l, b, n) = Linked(l, a, n, b)
    BY <1>3, <1>5, <2>6, InsertBeforeLemma
  <2> QED
    BY <2>1, <2>4, <2>5, <2>7, <2>8
<1>7. Rings(nd_list_insert_after(l, h, n), [ls EXCEPT ![h] = <<n>> \o @])
  <2>1. 1 \in 1..Len(s) + 1 /\ 1 - 1 = 0 /\ Spliced(s, 1, n, <<n>> \o s)
    BY <1>4, SpliceLemma
  <2> QED
    BY <1>1, <1>4, <1>6, <2>1
<1>8. Rings(nd_list_insert_before(l, h, n), [ls EXCEPT ![h] = Append(@, n)])
  <2>1. Len(s) + 1 \in 1..Len(s) + 1
    BY <1>4
  <2>2. Spliced(s, Len(s) + 1, n, Append(s, n))
    BY SpliceLemma, Zenon
  <2> QED
    BY <1>1, <1>4, <1>6, <2>1, <2>2
<1>9. ASSUME NEW i \in 1..Len(s)
      PROVE  Rings(nd_list_insert_before(l, s[i], n), [ls EXCEPT ![h] = InsertAt(@, i, n)])
  <2>1. i \in 1..Len(s) + 1 /\ A[i] = s[i]
    BY <1>4
  <2>2. Spliced(s, i, n, InsertAt(s, i, n))
    BY SpliceLemma, Zenon
  <2> QED
    BY <1>1, <1>6, <2>1, <2>2
<1> QED
  BY <1>1, <1>7, <1>8, <1>9

\* A node is taken from its list.
LEMMA RemoveKeeps ==
  ASSUME NEW l, NEW ls, Rings(l, ls), NEW h \in ListHead, NEW k \in 1..Len(ls[h])
  PROVE  /\ Rings(nd_list_remove(l, ls[h][k]), [ls EXCEPT ![h] = RemoveFirst(@, ls[h][k])])
         /\ Free([ls EXCEPT ![h] = RemoveFirst(@, ls[h][k])], ls[h][k])
         /\ Cut(ls[h], k, RemoveFirst(ls[h], ls[h][k]))
<1>1. PICK s \in Seq(ListNode) : s = ls[h]
  BY DEF Rings
<1>2. PICK A : A = Around(h, s)
  OBVIOUS
<1>3. l \in [Cell -> Links] /\ IsInjective(s) /\ Ring(l, h, s)
  BY <1>1 DEF Rings
<1>4. PICK s2 : s2 = RemoveFirst(s, s[k])
  OBVIOUS
<1>5. Cut(s, k, s2)
  BY <1>1, <1>3, <1>4, CutLemma
<1>6. PICK n : n = s[k]
  OBVIOUS
<1>7. /\ Rings(Unlinked(l, A[k - 1], n, A[k + 1]), [ls EXCEPT ![h] = s2])
      /\ Free([ls EXCEPT ![h] = s2], n)
  BY <1>1, <1>2, <1>5, <1>6, RemoveRings
<1>8. /\ Len(s) \in Nat /\ A[k] = n /\ n \in ListNode
      /\ \A i \in 0..Len(s) + 1 : A[i] \in Cell
      /\ \A i, j \in 0..Len(s) : A[i] = A[j] => i = j
      /\ \A i, j \in 1..Len(s) + 1 : A[i] = A[j] => i = j
  BY <1>1, <1>2, <1>3, <1>6, AroundLemma
<1>9. k \in 1..Len(s)
  BY <1>1
<1>10. /\ k - 1 \in 0..Len(s) /\ k \in 0..Len(s) /\ k \in 1..Len(s) + 1 /\ k + 1 \in 1..Len(s) + 1
       /\ k - 1 \in 0..Len(s) + 1 /\ k + 1 \in 0..Len(s) + 1
       /\ k - 1 # k /\ k + 1 # k /\ k - 1 + 1 = k
  BY <1>8, <1>9
<1>11. A[k - 1] # n /\ A[k + 1] # n
  BY <1>8, <1>10
<1>12. l[n].next = A[k + 1] /\ l[n].prev = A[k - 1]
  BY <1>2, <1>3, <1>8, <1>10 DEF Ring
<1>13. PICK a \in Cell \ {n} : a = A[k - 1]
  BY <1>8, <1>10, <1>11
<1>14. PICK b \in Cell \ {n} : b = A[k + 1]
  BY <1>8, <1>10, <1>11
<1>15. n \in Cell
  BY <1>8 DEF Cell
<1>16. nd_list_remove(l, n) = Unlinked(l, a, n, b)
  BY <1>3, <1>12, <1>13, <1>14, <1>15, UnlinkLemma
<1> QED
  BY <1>1, <1>4, <1>5, <1>6, <1>7, <1>13, <1>14, <1>16

\* A node that is on no list is initialised.
LEMMA InitKeeps ==
  ASSUME NEW l, NEW ls, Rings(l, ls), NEW n \in ListNode, Free(ls, n)
  PROVE  Rings(nd_list_init(l, n), ls)
<1>1. PICK m : m = nd_list_init(l, n)
  OBVIOUS
<1>2. l \in [Cell -> Links] /\ n \in Cell
  BY DEF Rings, Cell
<1>3. m \in [Cell -> Links] /\ m[n] = Alone(n) /\ \A x \in Cell : x # n => m[x] = l[x]
  BY <1>1, <1>2 DEF nd_list_init, Alone, Links
<1>4. ASSUME NEW g \in ListHead
      PROVE  Ring(m, g, ls[g])
  <2>1. ls[g] \in Seq(ListNode) /\ IsInjective(ls[g]) /\ Ring(l, g, ls[g]) /\ n \notin Range(ls[g])
    BY DEF Rings, Free
  <2>2. /\ Len(ls[g]) \in Nat
        /\ \A i \in 0..Len(ls[g]) + 1 :
             /\ Around(g, ls[g])[i] \in Cell
             /\ Around(g, ls[g])[i] = g \/ Around(g, ls[g])[i] \in Range(ls[g])
    BY <2>1, AroundLemma
  <2>3. \A i \in 0..Len(ls[g]) + 1 : m[Around(g, ls[g])[i]] = l[Around(g, ls[g])[i]]
    BY <1>3, <2>1, <2>2, ListAssumption
  <2> QED
    BY <2>1, <2>2, <2>3 DEF Ring
<1>5. ASSUME NEW x \in ListNode, Free(ls, x)
      PROVE  m[x] \in {Loose, Alone(x)}
  <2>1. x \in Cell /\ l[x] \in {Loose, Alone(x)}
    BY <1>5 DEF Cell, Rings
  <2> QED
    BY <1>3, <2>1
<1> QED
  BY <1>1, <1>3, <1>4, <1>5 DEF Rings

\* The loop goes to the node it knows to be next.
LEMMA WalkOnAt ==
  ASSUME NEW l, NEW ls, Rings(l, ls), NEW h \in ListHead, NEW j \in 0..Len(ls[h]), NEW p,
         walk = [head |-> h, pos |-> p, tmp |-> Around(h, ls[h])[j + 1]]
  PROVE  WalkAt(ls, WalkOn(l))
<1>1. PICK s \in Seq(ListNode) : s = ls[h]
  BY DEF Rings
<1>2. PICK A : A = Around(h, s)
  OBVIOUS
<1>3. IsInjective(s) /\ Ring(l, h, s)
  BY <1>1 DEF Rings
<1>4. /\ Len(s) \in Nat /\ A[Len(s) + 1] = h
      /\ \A i \in 1..Len(s) : A[i] = s[i] /\ s[i] # h
  BY ONLY h \in ListHead, s \in Seq(ListNode), <1>2, <1>3, AroundLemma
<1>5. walk.head = h /\ walk.tmp = A[j + 1] /\ walk = [head |-> h, pos |-> p, tmp |-> A[j + 1]]
  BY <1>1, <1>2
<1>6. CASE j = Len(s)
  <2>1. WalkOn(l) = NoWalk
    BY <1>4, <1>5, <1>6 DEF WalkOn
  <2> QED
    BY <2>1 DEF WalkAt
<1>7. CASE j # Len(s)
  <2>1. j + 1 \in 1..Len(s) /\ j + 1 \in 0..Len(s)
    BY <1>1, <1>4, <1>7
  <2>2. A[j + 1] # h
    BY <1>4, <2>1
  <2>3. l[A[j + 1]].next = A[j + 1 + 1]
    BY <1>2, <1>3, <2>1 DEF Ring
  <2>4. WalkOn(l) = [walk EXCEPT !.pos = A[j + 1], !.tmp = A[j + 1 + 1]]
    BY <1>5, <2>2, <2>3 DEF WalkOn
  <2>5. WalkOn(l) = [head |-> h, pos |-> A[j + 1], tmp |-> A[j + 1 + 1]]
    BY <1>5, <2>4
  <2> QED
    BY <1>1, <1>2, <2>1, <2>5 DEF WalkAt
<1> QED
  BY <1>6, <1>7

\* The initial state, where no list holds anything.
LEMMA ListInitInv == ListInit => ListIInv
<1> SUFFICES ASSUME ListInit PROVE ListIInv
  OBVIOUS
<1>1. \A h \in ListHead : link[h] = Alone(h) /\ lists[h] = <<>>
  BY DEF ListInit
<1>2. \A n \in ListNode : link[n] = Loose
  BY ListAssumption DEF ListInit, Loose
<1>3. link \in [Cell -> Links]
  <2>1. DOMAIN link = Cell /\ link = [x \in Cell |-> link[x]]
    BY DEF ListInit, Cell
  <2>2. ASSUME NEW x \in Cell
        PROVE  link[x] \in Links
    <3>1. CASE x \in ListHead
      <4>1. link[x] = [next |-> x, prev |-> x]
        BY <1>1, <3>1 DEF Alone
      <4> QED
        BY <4>1 DEF Links
    <3>2. CASE x \in ListNode
      <4>1. link[x] = [next |-> Null, prev |-> Null]
        BY <1>2, <3>2 DEF Loose
      <4> QED
        BY <4>1 DEF Links
    <3> QED
      BY <3>1, <3>2 DEF Cell
  <2> QED
    BY <2>1, <2>2
<1>4. lists \in [ListHead -> Seq(ListNode)]
  BY DEF ListInit
<1>5. ASSUME NEW h \in ListHead
      PROVE  IsInjective(lists[h]) /\ Ring(link, h, lists[h])
  <2>1. Len(lists[h]) = 0 /\ IsInjective(lists[h]) /\ lists[h] \in Seq(ListNode)
    BY <1>1, <1>4 DEF IsInjective
  <2>2. Around(h, lists[h])[0] = h /\ Around(h, lists[h])[0 + 1] = h
    BY <2>1 DEF Around
  <2>3. link[h].next = h /\ link[h].prev = h
    <3>1. link[h] = [next |-> h, prev |-> h]
      BY <1>1 DEF Alone
    <3> QED
      BY <3>1
  <2>4. \A i \in 0..Len(lists[h]) : i = 0
    BY <2>1
  <2> QED
    BY <2>1, <2>2, <2>3, <2>4 DEF Ring
<1>6. \A h \in ListHead : Range(lists[h]) = {}
  BY <1>1 DEF Range
<1>7. Rings(link, lists)
  BY <1>2, <1>3, <1>4, <1>5, <1>6 DEF Rings
<1> QED
  BY <1>7 DEF ListIInv, WalkAt, ListInit

\* A loop that is on has a list, and its position there.
LEMMA WalkingAt ==
  ASSUME WalkAt(lists, walk), ~NoLoop
  PROVE  \E i \in 1..Len(lists[walk.head]) :
           /\ walk.head \in ListHead
           /\ walk = [head |-> walk.head, pos |-> Around(walk.head, lists[walk.head])[i],
                      tmp |-> Around(walk.head, lists[walk.head])[i + 1]]
<1>1. PICK h \in ListHead : \E i \in 1..Len(lists[h]) :
        walk = [head |-> h, pos |-> Around(h, lists[h])[i], tmp |-> Around(h, lists[h])[i + 1]]
  BY DEF WalkAt, NoLoop
<1>2. walk.head = h
  BY <1>1
<1> QED
  BY <1>1, <1>2

\* Each step keeps the lists.
LEMMA ListStep == ListIInv /\ [ListNext]_listVars => ListIInv'
<1> SUFFICES ASSUME ListIInv, [ListNext]_listVars PROVE ListIInv'
  OBVIOUS
<1>1. Rings(link, lists) /\ WalkAt(lists, walk)
  BY DEF ListIInv
<1>2. \A n : Off(n) <=> Free(lists, n)
  BY DEF Off, Free
<1>3. NoLoop => WalkAt(lists', walk)
  BY DEF NoLoop, WalkAt
<1>4. \A h \in ListHead : lists[h] \in Seq(ListNode) /\ DOMAIN lists[h] = 1..Len(lists[h])
  BY <1>1 DEF Rings
<1>5. SUFFICES Rings(link', lists') /\ WalkAt(lists', walk')
  BY DEF ListIInv
<1>6. ASSUME NEW n \in ListNode, InitNode(n)
      PROVE  Rings(link', lists') /\ WalkAt(lists', walk')
  BY <1>1, <1>2, <1>6, InitKeeps DEF InitNode
<1>7. ASSUME NEW h \in ListHead, NEW n \in ListNode, InsertFirst(h, n)
      PROVE  Rings(link', lists') /\ WalkAt(lists', walk')
  BY <1>1, <1>2, <1>3, <1>7, InsertKeeps DEF InsertFirst
<1>8. ASSUME NEW h \in ListHead, NEW n \in ListNode, InsertLast(h, n)
      PROVE  Rings(link', lists') /\ WalkAt(lists', walk')
  BY <1>1, <1>2, <1>3, <1>8, InsertKeeps DEF InsertLast
<1>9. ASSUME NEW h \in ListHead, NEW n \in ListNode, NEW i \in DOMAIN lists[h],
             InsertBefore(h, i, n)
      PROVE  Rings(link', lists') /\ WalkAt(lists', walk')
  BY <1>1, <1>2, <1>3, <1>4, <1>9, InsertKeeps DEF InsertBefore
<1>10. ASSUME NEW h \in ListHead, NEW n \in ListNode, Remove1(h, n)
       PROVE  Rings(link', lists') /\ WalkAt(lists', walk')
  <2>1. PICK i \in 1..Len(lists[h]) : n = lists[h][i]
    BY <1>4, <1>10 DEF Remove1, Range
  <2>2. Rings(nd_list_remove(link, n), [lists EXCEPT ![h] = RemoveFirst(@, n)])
    BY <1>1, <2>1, RemoveKeeps
  <2> QED
    BY <1>3, <1>10, <2>2 DEF Remove1
<1>11. ASSUME NEW h \in ListHead, WalkStart(h)
       PROVE  Rings(link', lists') /\ WalkAt(lists', walk')
  <2>1. PICK s \in Seq(ListNode) : s = lists[h] /\ s # <<>>
    BY <1>4, <1>11 DEF WalkStart
  <2>2. Ring(link, h, s) /\ IsInjective(s)
    BY <1>1, <2>1 DEF Rings
  <2>3. PICK A : A = Around(h, s)
    OBVIOUS
  <2>4. Len(s) \in Nat /\ Len(s) # 0 /\ A[0] = h
    BY <2>1, <2>2, <2>3, AroundLemma
  <2>5. 0 \in 0..Len(s) /\ 1 \in 0..Len(s) /\ 1 \in 1..Len(s)
    BY <2>4
  <2>6. link[h].next = A[0 + 1] /\ link[A[1]].next = A[1 + 1]
    BY <2>2, <2>3, <2>4, <2>5 DEF Ring
  <2>7. walk' = [head |-> h, pos |-> A[1], tmp |-> A[1 + 1]]
    BY <1>11, <2>6 DEF WalkStart
  <2>8. lists' = lists /\ link' = link
    BY <1>11 DEF WalkStart
  <2>9. WalkAt(lists, walk')
    BY <2>1, <2>3, <2>5, <2>7 DEF WalkAt
  <2> QED
    BY <1>1, <2>8, <2>9
<1>12. ASSUME WalkKeeps
       PROVE  Rings(link', lists') /\ WalkAt(lists', walk')
  <2>1. ~NoLoop /\ walk' = WalkOn(link) /\ link' = link /\ lists' = lists
    BY <1>12 DEF WalkKeeps
  <2>2. PICK h : h = walk.head
    OBVIOUS
  <2>3. PICK i \in 1..Len(lists[h]) :
          h \in ListHead /\ walk = [head |-> h, pos |-> Around(h, lists[h])[i],
                                    tmp |-> Around(h, lists[h])[i + 1]]
    BY <1>1, <2>1, <2>2, WalkingAt
  <2>4. i \in 0..Len(lists[h])
    BY <1>4, <2>3
  <2>5. WalkAt(lists, WalkOn(link))
    BY <1>1, <2>3, <2>4, WalkOnAt
  <2> QED
    BY <1>1, <2>1, <2>5
<1>13. ASSUME NEW g \in ListHead, WalkMoves(g)
       PROVE  Rings(link', lists') /\ WalkAt(lists', walk')
  <2>1. PICK h : h = walk.head
    OBVIOUS
  <2>2. ~NoLoop /\ g # h
    BY <1>13, <2>1 DEF WalkMoves
  <2>3. PICK i \in 1..Len(lists[h]) :
          h \in ListHead /\ walk = [head |-> h, pos |-> Around(h, lists[h])[i],
                                    tmp |-> Around(h, lists[h])[i + 1]]
    BY <1>1, <2>1, <2>2, WalkingAt
  <2>4. PICK s \in Seq(ListNode) : s = lists[h]
    BY <1>4, <2>3
  <2>5. IsInjective(s)
    BY <1>1, <2>3, <2>4 DEF Rings
  <2>6. PICK n : n = s[i]
    OBVIOUS
  <2>7. walk.pos = n /\ n \in ListNode /\ i \in 1..Len(s) /\ Len(s) \in Nat
    BY <2>3, <2>4, <2>5, <2>6, AroundLemma
  <2>8. PICK s2 : s2 = RemoveFirst(s, n)
    OBVIOUS
  <2>9. PICK l1 : l1 = nd_list_remove(link, n)
    OBVIOUS
  <2>10. PICK m1 : m1 = [lists EXCEPT ![h] = RemoveFirst(@, n)]
    OBVIOUS
  <2>11. Rings(l1, m1) /\ Free(m1, n) /\ Cut(s, i, s2)
    BY <1>1, <2>3, <2>4, <2>6, <2>8, <2>9, <2>10, RemoveKeeps
  <2>12. PICK l2 : l2 = nd_list_insert_before(l1, g, n)
    OBVIOUS
  <2>13. PICK m2 : m2 = [m1 EXCEPT ![g] = Append(@, n)]
    OBVIOUS
  <2>14. Rings(l2, m2)
    BY <2>7, <2>11, <2>12, <2>13, InsertKeeps
  <2>15. lists \in [ListHead -> Seq(ListNode)] /\ m1 \in [ListHead -> Seq(ListNode)]
    BY <1>1, <2>11 DEF Rings
  <2>16. m2[h] = s2
    BY <2>2, <2>3, <2>4, <2>8, <2>10, <2>13, <2>15
  <2>17. link' = l2 /\ lists' = m2 /\ walk' = WalkOn(l2)
    BY <1>13, <2>1, <2>7, <2>9, <2>10, <2>12, <2>13 DEF WalkMoves
  <2>18. i \in 0..Len(s) /\ i - 1 \in 0..Len(s2)
    BY <2>7, <2>11 DEF Cut
  <2>19. Around(h, s2)[i] = Around(h, s)[i + 1]
    BY <2>3, <2>5, <2>7, <2>11, <2>18, CutAround
  <2>20. PICK j : j = i - 1
    OBVIOUS
  <2>21. j \in 0..Len(m2[h]) /\ walk = [head |-> h, pos |-> n, tmp |-> Around(h, m2[h])[j + 1]]
    <3>1. j + 1 = i
      BY <2>7, <2>20
    <3>2. Around(h, lists[h])[i] = n
      BY <2>3, <2>7
    <3> QED
      BY <2>3, <2>4, <2>16, <2>18, <2>19, <2>20, <3>1, <3>2
  <2>22. WalkAt(m2, WalkOn(l2))
    BY <2>3, <2>14, <2>21, WalkOnAt
  <2> QED
    BY <2>14, <2>17, <2>22
<1>14. CASE UNCHANGED listVars
  BY <1>1, <1>14 DEF listVars
<1> QED
  BY <1>6, <1>7, <1>8, <1>9, <1>10, <1>11, <1>12, <1>13, <1>14 DEF ListNext

\* The lists are what is meant.
LEMMA ListInv == ListIInv => ListsAreSequences
<1> SUFFICES ASSUME ListIInv PROVE ListsAreSequences
  OBVIOUS
<1>1. Rings(link, lists) /\ WalkAt(lists, walk)
  BY DEF ListIInv
<1>2. ASSUME NEW h \in ListHead
      PROVE  /\ Walked(link, h, "next") = lists[h] /\ Walked(link, h, "prev") = Reverse(lists[h])
             /\ nd_list_is_empty(link, h) <=> lists[h] = <<>>
             /\ nd_list_length(link, h) = Len(lists[h])
  <2>1. Walked(link, h, "next") = lists[h] /\ Walked(link, h, "prev") = Reverse(lists[h])
    BY <1>1, RingWalked
  <2>2. PICK s \in Seq(ListNode) : s = lists[h]
    BY <1>1 DEF Rings
  <2>3. Ring(link, h, s) /\ IsInjective(s)
    BY <1>1, <2>2 DEF Rings
  <2>4. PICK A : A = Around(h, s)
    OBVIOUS
  <2>5. /\ Len(s) \in Nat /\ A[0] = h /\ A[Len(s) + 1] = h
        /\ \A i \in 1..Len(s) : A[i] = s[i] /\ s[i] # h
    BY <2>3, <2>4, AroundLemma
  <2>6. link[h].next = A[1]
    <3>1. 0 \in 0..Len(s) /\ 0 + 1 = 1
      BY <2>5
    <3> QED
      BY <2>3, <2>4, <2>5, <3>1 DEF Ring
  <2>7. A[1] = h <=> Len(s) = 0
    BY <2>5
  <2> QED
    BY <2>1, <2>2, <2>6, <2>7 DEF nd_list_is_empty, nd_list_length
<1>3. ASSUME NEW n \in ListNode
      PROVE  nd_list_is_linked(link, n) <=> (~Off(n) \/ link[n] = Alone(n))
  <2>1. CASE Off(n)
    <3>1. link[n] \in {Loose, Alone(n)}
      BY <1>1, <2>1 DEF Rings, Off, Free
    <3>2. n # Null /\ Loose.next = Null /\ Alone(n).next = n
      BY ListAssumption DEF Loose, Alone
    <3> QED
      BY <2>1, <3>1, <3>2 DEF nd_list_is_linked
  <2>2. CASE ~Off(n)
    <3>1. PICK h \in ListHead : n \in Range(lists[h])
      BY <2>2 DEF Off
    <3>2. PICK s \in Seq(ListNode) : s = lists[h]
      BY <1>1 DEF Rings
    <3>3. Ring(link, h, s) /\ IsInjective(s)
      BY <1>1, <3>2 DEF Rings
    <3>4. PICK A : A = Around(h, s)
      OBVIOUS
    <3>5. /\ Len(s) \in Nat /\ \A i \in 1..Len(s) : A[i] = s[i]
          /\ \A i \in 0..Len(s) + 1 : A[i] \in Cell
      BY <3>3, <3>4, AroundLemma
    <3>6. PICK i \in 1..Len(s) : n = s[i]
      BY <3>1, <3>2 DEF Range
    <3>7. link[n].next = A[i + 1] /\ A[i + 1] \in Cell
      <4>1. i \in 0..Len(s) /\ i + 1 \in 0..Len(s) + 1 /\ A[i] = n
        BY <3>5, <3>6
      <4> QED
        BY <3>3, <3>4, <3>5, <4>1 DEF Ring
    <3> QED
      BY <2>2, <3>7, ListAssumption DEF nd_list_is_linked, Cell
  <2> QED
    BY <2>1, <2>2
<1>4. ASSUME ~NoLoop
      PROVE  walk.pos \in Range(lists[walk.head])
  <2>1. PICK h : h = walk.head
    OBVIOUS
  <2>2. PICK i \in 1..Len(lists[h]) :
          h \in ListHead /\ walk = [head |-> h, pos |-> Around(h, lists[h])[i],
                                    tmp |-> Around(h, lists[h])[i + 1]]
    BY <1>1, <1>4, <2>1, WalkingAt
  <2>3. lists[h] \in Seq(ListNode) /\ IsInjective(lists[h])
    BY <1>1, <2>2 DEF Rings
  <2>4. walk.pos = lists[h][i]
    BY <2>2, <2>3, AroundLemma
  <2>5. lists[h][i] \in Range(lists[h])
    BY <2>3 DEF Range
  <2> QED
    BY <2>1, <2>4, <2>5
<1> QED
  BY <1>2, <1>3, <1>4 DEF ListsAreSequences

\* The links of every list are the sequence the other modules use for it, for any lists and
\* nodes, in both directions, whatever is inserted, removed and moved inside a loop; and a
\* node is linked exactly while it is on a list or freshly initialised.
THEOREM ListsKept == ListSpec => []ListsAreSequences
<1> QED
  BY ListInitInv, ListStep, ListInv, PTL DEF ListSpec

-----------------------------------------------------------------------------
(* The heap: its blocks and the lists they are on *)

\* What a client may ask of the heap for its lists to stay as they are meant to be: sizes
\* that keep items at even addresses, no block over the control block, and no resizing in
\* place that leaves less than a header, where the test of nd_memheap.c:254 wraps.
HeapUse == Top <= StartItem /\ Room >= Header /\ \A size \in Sizes : size % 2 = 0

ItemSet == [next : Nat, prev : Nat, next_free : Nat, prev_free : Nat]

HeapType(s) ==
  /\ s.item \in [DOMAIN s.item -> ItemSet] /\ s.avail \in Int
  /\ s = [avail |-> s.avail, item |-> s.item]

Blocks(s) == DOMAIN s.item \ {StartItem, EndItem}

\* The items lie in order of address between start_item and end_item, linked both ways.
Physical(s) ==
  /\ IsFiniteSet(DOMAIN s.item) /\ {0, StartItem, EndItem} \subseteq DOMAIN s.item
  /\ \A a \in DOMAIN s.item : a \in Nat /\ a % 2 = 0
  /\ item_next(s, StartItem) = 0 /\ item_next(s, EndItem) = StartItem
  /\ ~ITEM_IS_FREE(s, StartItem) /\ ~ITEM_IS_FREE(s, EndItem)
  /\ \A a \in Blocks(s) :
       /\ a < StartItem
       /\ item_next(s, a) \in DOMAIN s.item \ {StartItem} /\ item_next(s, a) >= a + Header
       /\ \A b \in DOMAIN s.item \ {StartItem} : ~(a < b /\ b < item_next(s, a))
  /\ \A a \in DOMAIN s.item \ {EndItem} : s.item[item_next(s, a)].prev = a
  /\ \A b \in DOMAIN s.item \ {StartItem} :
       s.item[b].prev \in DOMAIN s.item \ {EndItem} /\ item_next(s, s.item[b].prev) = b

\* Going along next_free from start_item, c meets the items of S and comes back.
RingAt(s, S, K, c) ==
  /\ c \in [0..K + 1 -> S \cup {StartItem}] /\ c[0] = StartItem /\ c[K + 1] = StartItem
  /\ \A i, j \in 0..K : c[i] = c[j] => i = j
  /\ \A a \in S : \E i \in 1..K : c[i] = a
  /\ \A i \in 0..K : s.item[c[i]].next_free = c[i + 1] /\ s.item[c[i + 1]].prev_free = c[i]

FreeRing(s, S) == \E K \in Nat : \E c : RingAt(s, S, K, c)

\* No two free blocks are neighbours.
NoNeighbours(s, S) == \A a \in S : item_next(s, a) \notin S

\* The bytes of the blocks in S.
BytesOf(s, S) == UNION {item_to_data(a)..(item_next(s, a) - 1) : a \in S}
Count(s, S) == Cardinality(BytesOf(s, S))

\* The available_size that agrees with n free bytes, when u bytes have not been charged.
Owed(n, u) == U32(n - (EndItem - PoolSize) + u)

-----------------------------------------------------------------------------
\* An address is even, the marked one odd.
LEMMA ParityLemma ==
  ASSUME NEW n \in Nat
  PROVE  /\ n % 2 \in {0, 1} /\ n - (n % 2) \in Nat /\ (n - (n % 2)) % 2 = 0
         /\ n % 2 = 0 => (n + 1) % 2 = 1
  OBVIOUS

Inserted(s, t, a, n) ==
  /\ HeapType(t) /\ t.avail = s.avail /\ DOMAIN t.item = DOMAIN s.item \cup {n}
  /\ \A x \in DOMAIN s.item :
       /\ item_next(t, x) = IF x = a THEN n ELSE item_next(s, x)
       /\ ITEM_IS_FREE(t, x) = ITEM_IS_FREE(s, x)
       /\ t.item[x].prev = IF x = item_next(s, a) THEN n ELSE s.item[x].prev
       /\ t.item[x].next_free = s.item[x].next_free
       /\ t.item[x].prev_free = s.item[x].prev_free
  /\ item_next(t, n) = item_next(s, a) /\ ITEM_IS_FREE(t, n) /\ t.item[n].prev = a

\* phys_list_insert_after links n behind a and touches nothing else.
LEMMA InsertedLemma ==
  ASSUME NEW s, HeapType(s), NEW a \in DOMAIN s.item, a \in Nat, item_next(s, a) \in DOMAIN s.item,
         NEW n \in Nat, n \notin DOMAIN s.item, n % 2 = 0
  PROVE  Inserted(s, phys_list_insert_after(s, a, n), a, n)
<1> DEFINE D == DOMAIN s.item
           new == [next |-> item_next(s, a), prev |-> a, next_free |-> a, prev_free |-> a]
           m == item_next(s, a)
           b == s.item[a].next % 2
           i1 == With(s.item, n, new)
           i2 == [i1 EXCEPT ![m].prev = n]
           i3 == [i2 EXCEPT ![a].next = n + b]
           s1 == [s EXCEPT !.item = With(@, n, new)]
           s2 == [s1 EXCEPT !.item[m].prev = n]
           t == phys_list_insert_after(s, a, n)
<1>1. /\ s.item \in [D -> ItemSet] /\ s.avail \in Int
      /\ s = [avail |-> s.avail, item |-> s.item]
  BY DEF HeapType
<1>2. m \in Nat /\ m % 2 = 0
  BY <1>1, ParityLemma DEF item_next, ItemSet
<1>3. new \in ItemSet /\ new.next = m /\ new.prev = a
  BY <1>2 DEF ItemSet
<1>4. s1 = [avail |-> s.avail, item |-> i1]
  BY <1>1
<1>5. i1 \in [D \cup {n} -> ItemSet] /\ i1[n] = new /\ \A x \in D : i1[x] = s.item[x]
  BY <1>1, <1>3 DEF With
<1>a. t = item_set_next(s2, a, n)
  BY DEF phys_list_insert_after
<1> HIDE DEF i1, new, s1
<1>6. s2 = [avail |-> s.avail, item |-> i2]
  BY <1>4
<1>7. /\ i2 \in [D \cup {n} -> ItemSet] /\ i2[n] = new
      /\ \A x \in D : /\ i2[x].next = s.item[x].next
                      /\ i2[x].prev = IF x = m THEN n ELSE s.item[x].prev
                      /\ i2[x].next_free = s.item[x].next_free
                      /\ i2[x].prev_free = s.item[x].prev_free
  <2>1. m \in D /\ m # n
    OBVIOUS
  <2> HIDE DEF m
  <2> QED
    BY <1>1, <1>5, <2>1 DEF ItemSet
<1>8. b \in {0, 1} /\ n + b \in Nat
  BY <1>1, ParityLemma DEF ItemSet
<1> HIDE DEF i2, s2
<1>9. t = [avail |-> s.avail, item |-> i3]
  <2>1. s2.item[a].next % 2 = b
    BY <1>6, <1>7
  <2> HIDE DEF b
  <2>2. item_set_next(s2, a, n) = [s2 EXCEPT !.item[a].next = n + b]
    BY <2>1 DEF item_set_next
  <2> QED
    BY <1>6, <1>a, <2>2
<1>10. /\ i3 \in [D \cup {n} -> ItemSet] /\ i3[n] = new
       /\ \A x \in D : /\ i3[x].next = IF x = a THEN n + b ELSE s.item[x].next
                       /\ i3[x].prev = i2[x].prev
                       /\ i3[x].next_free = s.item[x].next_free
                       /\ i3[x].prev_free = s.item[x].prev_free
  <2> HIDE DEF b
  <2> QED
    BY <1>7, <1>8 DEF ItemSet
<1> HIDE DEF i3, t
<1>11. t.item = i3 /\ t.avail = s.avail /\ DOMAIN t.item = D \cup {n} /\ HeapType(t)
  BY <1>1, <1>9, <1>10 DEF HeapType
<1>12. item_next(t, n) = m /\ ITEM_IS_FREE(t, n) /\ t.item[n].prev = a
  BY <1>2, <1>3, <1>10, <1>11 DEF item_next, ITEM_IS_FREE
<1>13. ASSUME NEW x \in D
       PROVE  /\ item_next(t, x) = IF x = a THEN n ELSE item_next(s, x)
              /\ ITEM_IS_FREE(t, x) = ITEM_IS_FREE(s, x)
  <2>1. CASE x # a
    BY <1>10, <1>11, <2>1 DEF item_next, ITEM_IS_FREE
  <2>2. CASE x = a
    <3>1. (n + b) % 2 = b
      BY <1>8
    <3>2. t.item[a].next = n + b
      BY <1>10, <1>11
    <3> QED
      BY <1>8, <2>2, <3>1, <3>2 DEF item_next, ITEM_IS_FREE
  <2> QED
    BY <2>1, <2>2
<1> QED
  BY <1>7, <1>10, <1>11, <1>12, <1>13 DEF Inserted, t

Removed(s, t, y) ==
  /\ HeapType(t) /\ t.avail = s.avail /\ DOMAIN t.item = DOMAIN s.item \ {y}
  /\ \A x \in DOMAIN s.item \ {y} :
       /\ item_next(t, x) = IF x = s.item[y].prev THEN item_next(s, y) ELSE item_next(s, x)
       /\ ITEM_IS_FREE(t, x) = ITEM_IS_FREE(s, x)
       /\ t.item[x].prev = IF x = item_next(s, y) THEN s.item[y].prev ELSE s.item[x].prev
       /\ t.item[x].next_free = s.item[x].next_free
       /\ t.item[x].prev_free = s.item[x].prev_free

\* phys_list_remove joins the neighbours of y and touches nothing else.
LEMMA RemovedLemma ==
  ASSUME NEW s, HeapType(s), NEW y \in DOMAIN s.item,
         item_next(s, y) \in DOMAIN s.item \ {y}, s.item[y].prev \in DOMAIN s.item \ {y}
  PROVE  Removed(s, phys_list_remove(s, y), y)
<1> DEFINE D == DOMAIN s.item
           m == item_next(s, y)
           p == s.item[y].prev
           b == s.item[p].next % 2
           i1 == [s.item EXCEPT ![p].next = m + b]
           i2 == [i1 EXCEPT ![m].prev = p]
           s1 == item_set_next(s, p, m)
           s2 == [s1 EXCEPT !.item[m].prev = p]
           t == phys_list_remove(s, y)
<1>1. /\ s.item \in [D -> ItemSet] /\ s.avail \in Int
      /\ s = [avail |-> s.avail, item |-> s.item]
  BY DEF HeapType
<1>2. m \in Nat /\ m % 2 = 0 /\ p \in Nat /\ p \in D
  BY <1>1, ParityLemma DEF item_next, ItemSet
<1>3. b \in {0, 1} /\ m + b \in Nat
  BY <1>1, <1>2, ParityLemma DEF ItemSet
<1>a. t = [s2 EXCEPT !.item = Restrict(s2.item, DOMAIN s2.item \ {y})]
  BY DEF phys_list_remove
<1>4. s1 = [avail |-> s.avail, item |-> i1]
  <2> HIDE DEF m, p, b
  <2>1. item_set_next(s, p, m) = [s EXCEPT !.item[p].next = m + b]
    BY <1>2 DEF item_set_next, b
  <2> QED
    BY <1>1, <2>1
<1>5. /\ i1 \in [D -> ItemSet]
      /\ \A x \in D : /\ i1[x].next = IF x = p THEN m + b ELSE s.item[x].next
                      /\ i1[x].prev = s.item[x].prev
                      /\ i1[x].next_free = s.item[x].next_free
                      /\ i1[x].prev_free = s.item[x].prev_free
  <2> HIDE DEF m, p, b
  <2> QED
    BY <1>1, <1>2, <1>3 DEF ItemSet
<1> HIDE DEF i1, s1
<1>6. s2 = [avail |-> s.avail, item |-> i2]
  BY <1>4
<1>7. /\ i2 \in [D -> ItemSet]
      /\ \A x \in D : /\ i2[x].next = i1[x].next
                      /\ i2[x].prev = IF x = m THEN p ELSE s.item[x].prev
                      /\ i2[x].next_free = s.item[x].next_free
                      /\ i2[x].prev_free = s.item[x].prev_free
  <2>1. m \in D
    OBVIOUS
  <2> HIDE DEF m, p
  <2> QED
    BY <1>2, <1>5, <2>1 DEF ItemSet
<1> HIDE DEF i2, s2
<1>8. /\ t = [avail |-> s.avail, item |-> Restrict(i2, D \ {y})]
      /\ Restrict(i2, D \ {y}) \in [D \ {y} -> ItemSet]
      /\ \A x \in D \ {y} : Restrict(i2, D \ {y})[x] = i2[x]
  <2>1. s2.item = i2 /\ DOMAIN s2.item = D
    BY <1>6, <1>7
  <2>2. t = [avail |-> s.avail, item |-> Restrict(i2, D \ {y})]
    BY <1>6, <1>a, <2>1
  <2> QED
    BY <1>7, <2>2 DEF Restrict
<1> HIDE DEF t
<1>9. /\ t.item \in [D \ {y} -> ItemSet] /\ t.avail = s.avail /\ DOMAIN t.item = D \ {y}
      /\ HeapType(t) /\ \A x \in D \ {y} : t.item[x] = i2[x]
  BY <1>1, <1>8 DEF HeapType
<1>10. ASSUME NEW x \in D \ {y}
       PROVE  /\ item_next(t, x) = IF x = p THEN m ELSE item_next(s, x)
              /\ ITEM_IS_FREE(t, x) = ITEM_IS_FREE(s, x)
  <2>1. CASE x # p
    BY <1>5, <1>7, <1>9, <2>1 DEF item_next, ITEM_IS_FREE
  <2>2. CASE x = p
    <3> HIDE DEF m, p, b
    <3>1. (m + b) % 2 = b
      BY <1>2, <1>3
    <3>2. t.item[p].next = m + b
      BY <1>5, <1>7, <1>9, <2>2
    <3>3. item_next(t, p) = m /\ (ITEM_IS_FREE(t, p) <=> b = 0)
      <4>1. m + b - b = m
        BY <1>2, <1>3
      <4>2. item_next(t, p) = m + b - b
        <5>1. item_next(t, p) = t.item[p].next - (t.item[p].next % 2)
          BY DEF item_next
        <5>2. item_next(t, p) = (m + b) - ((m + b) % 2)
          BY <3>2, <5>1
        <5> QED
          BY <1>2, <1>3, <3>1, <5>2
      <4>3. ITEM_IS_FREE(t, p) <=> b = 0
        BY <3>1, <3>2 DEF ITEM_IS_FREE
      <4> QED
        BY <4>1, <4>2, <4>3
    <3>4. ITEM_IS_FREE(s, p) <=> b = 0
      BY DEF ITEM_IS_FREE, b
    <3>5. ITEM_IS_FREE(s, p) \in BOOLEAN /\ ITEM_IS_FREE(t, p) \in BOOLEAN
      BY DEF ITEM_IS_FREE
    <3> QED
      BY <2>2, <3>3, <3>4, <3>5
  <2> QED
    BY <2>1, <2>2
<1> QED
  BY <1>7, <1>9, <1>10 DEF Removed, t

\* The free list is changed; the blocks are not.
SameBlocks(s, t) ==
  /\ HeapType(t) /\ t.avail = s.avail /\ DOMAIN t.item = DOMAIN s.item
  /\ \A x \in DOMAIN s.item : t.item[x].next = s.item[x].next /\ t.item[x].prev = s.item[x].prev

\* free_list_remove joins the neighbours of y on the free list.
LEMMA UnchainLemma ==
  ASSUME NEW s, HeapType(s), NEW y \in DOMAIN s.item,
         s.item[y].next_free \in DOMAIN s.item, s.item[y].prev_free \in DOMAIN s.item,
         NEW t, t = free_list_remove(s, y)
  PROVE  /\ SameBlocks(s, t)
         /\ \A x \in DOMAIN s.item :
              /\ t.item[x].next_free = IF x = s.item[y].prev_free THEN s.item[y].next_free
                                       ELSE s.item[x].next_free
              /\ t.item[x].prev_free = IF x = s.item[y].next_free THEN s.item[y].prev_free
                                       ELSE s.item[x].prev_free
<1> DEFINE D == DOMAIN s.item
           n == s.item[y].next_free
           p == s.item[y].prev_free
           i1 == [s.item EXCEPT ![p].next_free = n]
           i2 == [i1 EXCEPT ![n].prev_free = p]
           s1 == [s EXCEPT !.item[p].next_free = n]
           s2 == [s1 EXCEPT !.item[n].prev_free = p]
<1>1. /\ s.item \in [D -> ItemSet] /\ s.avail \in Int
      /\ s = [avail |-> s.avail, item |-> s.item]
  BY DEF HeapType
<1>2. n \in Nat /\ n \in D /\ p \in Nat /\ p \in D
  BY <1>1 DEF ItemSet
<1>3. t = s2
  BY DEF free_list_remove
<1>4. s1 = [avail |-> s.avail, item |-> i1]
  BY <1>1
<1>5. /\ i1 \in [D -> ItemSet]
      /\ \A x \in D : /\ i1[x].next = s.item[x].next
                      /\ i1[x].prev = s.item[x].prev
                      /\ i1[x].next_free = IF x = p THEN n ELSE s.item[x].next_free
                      /\ i1[x].prev_free = s.item[x].prev_free
  <2> HIDE DEF n, p
  <2> QED
    BY <1>1, <1>2 DEF ItemSet
<1> HIDE DEF i1, s1
<1>6. s2 = [avail |-> s.avail, item |-> i2]
  BY <1>4
<1>7. /\ i2 \in [D -> ItemSet]
      /\ \A x \in D : /\ i2[x].next = i1[x].next
                      /\ i2[x].prev = i1[x].prev
                      /\ i2[x].next_free = i1[x].next_free
                      /\ i2[x].prev_free = IF x = n THEN p ELSE i1[x].prev_free
  <2> HIDE DEF n, p
  <2> QED
    BY <1>2, <1>5 DEF ItemSet
<1> HIDE DEF i2, s2
<1>8. t.item = i2 /\ t.avail = s.avail /\ DOMAIN t.item = D /\ HeapType(t)
  BY <1>1, <1>3, <1>6, <1>7 DEF HeapType
<1> QED
  BY <1>5, <1>7, <1>8 DEF SameBlocks

\* free_list_insert_after puts n behind a on the free list.
LEMMA ChainLemma ==
  ASSUME NEW s, HeapType(s), NEW a \in DOMAIN s.item, a \in Nat,
         NEW n \in DOMAIN s.item, n \in Nat, n # a,
         s.item[a].next_free \in DOMAIN s.item \ {n},
         NEW t, t = free_list_insert_after(s, a, n)
  PROVE  /\ SameBlocks(s, t)
         /\ \A x \in DOMAIN s.item :
              /\ t.item[x].next_free = IF x = a THEN n
                                       ELSE IF x = n THEN s.item[a].next_free
                                       ELSE s.item[x].next_free
              /\ t.item[x].prev_free = IF x = s.item[a].next_free THEN n
                                       ELSE IF x = n THEN a
                                       ELSE s.item[x].prev_free
<1> DEFINE D == DOMAIN s.item
           f == s.item[a].next_free
           i0 == [s.item EXCEPT ![n] = [@ EXCEPT !.next_free = f, !.prev_free = a]]
           i1 == [i0 EXCEPT ![f].prev_free = n]
           i2 == [i1 EXCEPT ![a].next_free = n]
           s1 == [s EXCEPT !.item[n] = [@ EXCEPT !.next_free = f, !.prev_free = a]]
           s2 == [s1 EXCEPT !.item[f].prev_free = n]
           s3 == [s2 EXCEPT !.item[a].next_free = n]
<1>1. /\ s.item \in [D -> ItemSet] /\ s.avail \in Int
      /\ s = [avail |-> s.avail, item |-> s.item]
  BY DEF HeapType
<1>2. f \in Nat /\ f \in D /\ f # n
  BY <1>1 DEF ItemSet
<1>3. t = s3
  BY DEF free_list_insert_after
<1>4. s1 = [avail |-> s.avail, item |-> i0]
  BY <1>1
<1>5. /\ i0 \in [D -> ItemSet]
      /\ \A x \in D : /\ i0[x].next = s.item[x].next
                      /\ i0[x].prev = s.item[x].prev
                      /\ i0[x].next_free = IF x = n THEN f ELSE s.item[x].next_free
                      /\ i0[x].prev_free = IF x = n THEN a ELSE s.item[x].prev_free
  <2> HIDE DEF f
  <2> QED
    BY <1>1, <1>2 DEF ItemSet
<1> HIDE DEF i0, s1
<1>6. s2 = [avail |-> s.avail, item |-> i1]
  BY <1>4
<1>7. /\ i1 \in [D -> ItemSet]
      /\ \A x \in D : /\ i1[x].next = i0[x].next
                      /\ i1[x].prev = i0[x].prev
                      /\ i1[x].next_free = i0[x].next_free
                      /\ i1[x].prev_free = IF x = f THEN n ELSE i0[x].prev_free
  <2> HIDE DEF f
  <2> QED
    BY <1>2, <1>5 DEF ItemSet
<1> HIDE DEF i1, s2
<1>8. s3 = [avail |-> s.avail, item |-> i2]
  BY <1>6
<1>9. /\ i2 \in [D -> ItemSet]
      /\ \A x \in D : /\ i2[x].next = i1[x].next
                      /\ i2[x].prev = i1[x].prev
                      /\ i2[x].next_free = IF x = a THEN n ELSE i1[x].next_free
                      /\ i2[x].prev_free = i1[x].prev_free
  BY <1>7 DEF ItemSet
<1> HIDE DEF i2, s3
<1>10. t.item = i2 /\ t.avail = s.avail /\ DOMAIN t.item = D /\ HeapType(t)
  BY <1>1, <1>3, <1>8, <1>9 DEF HeapType
<1> QED
  BY <1>2, <1>5, <1>7, <1>9, <1>10 DEF SameBlocks

\* free_list_replace puts n between the neighbours of a on the free list.
LEMMA SwapLemma ==
  ASSUME NEW s, HeapType(s), NEW a \in DOMAIN s.item, NEW n \in DOMAIN s.item, n \in Nat, n # a,
         s.item[a].next_free \in DOMAIN s.item \ {n}, s.item[a].prev_free \in DOMAIN s.item \ {n},
         NEW t, t = free_list_replace(s, a, n)
  PROVE  /\ SameBlocks(s, t)
         /\ \A x \in DOMAIN s.item :
              /\ t.item[x].next_free = IF x = s.item[a].prev_free THEN n
                                       ELSE IF x = n THEN s.item[a].next_free
                                       ELSE s.item[x].next_free
              /\ t.item[x].prev_free = IF x = s.item[a].next_free THEN n
                                       ELSE IF x = n THEN s.item[a].prev_free
                                       ELSE s.item[x].prev_free
<1> DEFINE D == DOMAIN s.item
           f == s.item[a].next_free
           p == s.item[a].prev_free
           i0 == [s.item EXCEPT ![n] = [@ EXCEPT !.prev_free = p, !.next_free = f]]
           i1 == [i0 EXCEPT ![f].prev_free = n]
           i2 == [i1 EXCEPT ![p].next_free = n]
           s1 == [s EXCEPT !.item[n] = [@ EXCEPT !.prev_free = p, !.next_free = f]]
           s2 == [s1 EXCEPT !.item[f].prev_free = n]
           s3 == [s2 EXCEPT !.item[p].next_free = n]
<1>1. /\ s.item \in [D -> ItemSet] /\ s.avail \in Int
      /\ s = [avail |-> s.avail, item |-> s.item]
  BY DEF HeapType
<1>2. f \in Nat /\ f \in D /\ f # n /\ p \in Nat /\ p \in D /\ p # n
  BY <1>1 DEF ItemSet
<1>3. t = s3
  BY DEF free_list_replace
<1>4. s1 = [avail |-> s.avail, item |-> i0]
  BY <1>1
<1>5. /\ i0 \in [D -> ItemSet]
      /\ \A x \in D : /\ i0[x].next = s.item[x].next
                      /\ i0[x].prev = s.item[x].prev
                      /\ i0[x].next_free = IF x = n THEN f ELSE s.item[x].next_free
                      /\ i0[x].prev_free = IF x = n THEN p ELSE s.item[x].prev_free
  <2> HIDE DEF f, p
  <2> QED
    BY <1>1, <1>2 DEF ItemSet
<1> HIDE DEF i0, s1
<1>6. s2 = [avail |-> s.avail, item |-> i1]
  BY <1>4
<1>7. /\ i1 \in [D -> ItemSet]
      /\ \A x \in D : /\ i1[x].next = i0[x].next
                      /\ i1[x].prev = i0[x].prev
                      /\ i1[x].next_free = i0[x].next_free
                      /\ i1[x].prev_free = IF x = f THEN n ELSE i0[x].prev_free
  <2> HIDE DEF f
  <2> QED
    BY <1>2, <1>5 DEF ItemSet
<1> HIDE DEF i1, s2
<1>8. s3 = [avail |-> s.avail, item |-> i2]
  BY <1>6
<1>9. /\ i2 \in [D -> ItemSet]
      /\ \A x \in D : /\ i2[x].next = i1[x].next
                      /\ i2[x].prev = i1[x].prev
                      /\ i2[x].next_free = IF x = p THEN n ELSE i1[x].next_free
                      /\ i2[x].prev_free = i1[x].prev_free
  <2> HIDE DEF p
  <2> QED
    BY <1>2, <1>7 DEF ItemSet
<1> HIDE DEF i2, s3
<1>10. t.item = i2 /\ t.avail = s.avail /\ DOMAIN t.item = D /\ HeapType(t)
  BY <1>1, <1>3, <1>8, <1>9 DEF HeapType
<1> QED
  BY <1>2, <1>5, <1>7, <1>9, <1>10 DEF SameBlocks

\* ITEM_SET_FREE takes the mark away and leaves the links.
LEMMA SetFreeLemma ==
  ASSUME NEW s, HeapType(s), NEW a \in DOMAIN s.item, NEW t, t = ITEM_SET_FREE(s, a)
  PROVE  /\ HeapType(t) /\ t.avail = s.avail /\ DOMAIN t.item = DOMAIN s.item
         /\ ITEM_IS_FREE(t, a)
         /\ \A x \in DOMAIN s.item :
              /\ item_next(t, x) = item_next(s, x) /\ t.item[x].prev = s.item[x].prev
              /\ x # a => ITEM_IS_FREE(t, x) = ITEM_IS_FREE(s, x)
              /\ t.item[x].next_free = s.item[x].next_free
              /\ t.item[x].prev_free = s.item[x].prev_free
<1> DEFINE D == DOMAIN s.item
           m == item_next(s, a)
           i1 == [s.item EXCEPT ![a].next = m]
<1>1. /\ s.item \in [D -> ItemSet] /\ s.avail \in Int
      /\ s = [avail |-> s.avail, item |-> s.item]
  BY DEF HeapType
<1>2. m \in Nat /\ m % 2 = 0 /\ m - (m % 2) = m
  BY <1>1, ParityLemma DEF item_next, ItemSet
<1>3. t = [s EXCEPT !.item[a].next = m]
  BY DEF ITEM_SET_FREE
<1> HIDE DEF m
<1>4. t = [avail |-> s.avail, item |-> i1]
  BY <1>1, <1>3
<1>5. /\ i1 \in [D -> ItemSet]
      /\ \A x \in D : /\ i1[x].next = IF x = a THEN m ELSE s.item[x].next
                      /\ i1[x].prev = s.item[x].prev
                      /\ i1[x].next_free = s.item[x].next_free
                      /\ i1[x].prev_free = s.item[x].prev_free
  BY <1>1, <1>2 DEF ItemSet
<1> HIDE DEF i1
<1>6. t.item = i1 /\ t.avail = s.avail /\ DOMAIN t.item = D /\ HeapType(t)
  BY <1>1, <1>4, <1>5 DEF HeapType
<1>7. ITEM_IS_FREE(t, a) /\ item_next(t, a) = m
  BY <1>2, <1>5, <1>6 DEF ITEM_IS_FREE, item_next
<1>8. \A x \in D : x # a => ITEM_IS_FREE(t, x) = ITEM_IS_FREE(s, x) /\ item_next(t, x) = item_next(s, x)
  BY <1>5, <1>6 DEF ITEM_IS_FREE, item_next
<1> QED
  BY <1>5, <1>6, <1>7, <1>8 DEF m

\* ITEM_SET_USED sets the mark and forgets the place on the free list.
LEMMA SetUsedLemma ==
  ASSUME NEW s, HeapType(s), NEW a \in DOMAIN s.item, a \in Nat, NEW t, t = ITEM_SET_USED(s, a)
  PROVE  /\ HeapType(t) /\ t.avail = s.avail /\ DOMAIN t.item = DOMAIN s.item
         /\ ~ITEM_IS_FREE(t, a)
         /\ \A x \in DOMAIN s.item :
              /\ item_next(t, x) = item_next(s, x) /\ t.item[x].prev = s.item[x].prev
              /\ x # a => /\ ITEM_IS_FREE(t, x) = ITEM_IS_FREE(s, x)
                          /\ t.item[x].next_free = s.item[x].next_free
                          /\ t.item[x].prev_free = s.item[x].prev_free
<1> DEFINE D == DOMAIN s.item
           m == item_next(s, a)
           i1 == [s.item EXCEPT ![a] =
                    [next |-> m + 1, prev |-> @.prev, next_free |-> a, prev_free |-> a]]
<1>1. /\ s.item \in [D -> ItemSet] /\ s.avail \in Int
      /\ s = [avail |-> s.avail, item |-> s.item]
  BY DEF HeapType
<1>2. m \in Nat /\ m % 2 = 0 /\ (m + 1) % 2 = 1 /\ (m + 1) - 1 = m
  BY <1>1, ParityLemma DEF item_next, ItemSet
<1>3. t = [s EXCEPT !.item[a] = [next |-> m + 1, prev |-> @.prev, next_free |-> a, prev_free |-> a]]
  BY DEF ITEM_SET_USED
<1> HIDE DEF m
<1>4. t = [avail |-> s.avail, item |-> i1]
  BY <1>1, <1>3
<1>5. /\ i1 \in [D -> ItemSet]
      /\ \A x \in D : /\ i1[x].next = IF x = a THEN m + 1 ELSE s.item[x].next
                      /\ i1[x].prev = s.item[x].prev
                      /\ x # a => /\ i1[x].next_free = s.item[x].next_free
                                  /\ i1[x].prev_free = s.item[x].prev_free
  <2>1. PICK k \in Nat : k = m + 1
    BY <1>2
  <2>2. i1 = [s.item EXCEPT ![a] = [next |-> k, prev |-> s.item[a].prev,
                                    next_free |-> a, prev_free |-> a]]
    BY <2>1
  <2> HIDE DEF i1
  <2> QED
    BY <1>1, <2>1, <2>2 DEF ItemSet
<1> HIDE DEF i1
<1>6. t.item = i1 /\ t.avail = s.avail /\ DOMAIN t.item = D /\ HeapType(t)
  BY <1>1, <1>4, <1>5 DEF HeapType
<1>7. ~ITEM_IS_FREE(t, a) /\ item_next(t, a) = m
  BY <1>2, <1>5, <1>6 DEF ITEM_IS_FREE, item_next
<1>8. \A x \in D : x # a => ITEM_IS_FREE(t, x) = ITEM_IS_FREE(s, x) /\ item_next(t, x) = item_next(s, x)
  BY <1>5, <1>6 DEF ITEM_IS_FREE, item_next
<1> QED
  BY <1>5, <1>6, <1>7, <1>8 DEF m

\* The order of the blocks is a matter of next and prev alone.
LEMMA PhysicalFrame ==
  ASSUME NEW s, Physical(s), NEW t, DOMAIN t.item = DOMAIN s.item,
         \A x \in DOMAIN s.item :
           item_next(t, x) = item_next(s, x) /\ t.item[x].prev = s.item[x].prev,
         ~ITEM_IS_FREE(t, StartItem), ~ITEM_IS_FREE(t, EndItem)
  PROVE  Physical(t)
<1>1. Blocks(t) = Blocks(s)
  BY DEF Blocks
<1>2. \A a \in DOMAIN s.item \ {EndItem} : item_next(s, a) \in DOMAIN s.item
  BY DEF Physical, Blocks
<1>3. StartItem \in DOMAIN s.item /\ EndItem \in DOMAIN s.item /\ Blocks(s) \subseteq DOMAIN s.item
  BY DEF Physical, Blocks
<1> QED
  BY <1>1, <1>2, <1>3 DEF Physical

\* The three addresses that are always there.
LEMMA HeapAddresses ==
  /\ Header \in Nat \ {0} /\ StartItem \in Nat /\ EndItem \in Nat
  /\ 0 < StartItem /\ StartItem + Header = EndItem /\ EndItem + Header <= Wrap /\ Wrap \in Nat \ {0}
  /\ StartItem % 2 = 0 /\ EndItem % 2 = 0 /\ PoolSize \in Nat /\ Header <= PoolSize
  /\ PoolSize <= StartItem
<1> DEFINE d == ControlAt - PoolAt
<1>1. /\ Header \in Nat \ {0} /\ Header % 2 = 0 /\ Wrap \in Nat /\ Wrap % 2 = 0
      /\ PoolAt \in Nat /\ PoolAt % 2 = 0 /\ ControlAt \in Nat /\ ControlAt % 2 = 0
      /\ PoolSize \in Nat /\ PoolSize >= Header
      /\ \/ PoolAt + PoolSize <= ControlAt /\ ControlAt + 2 * Header <= Wrap
         \/ ControlAt + 2 * Header <= PoolAt /\ PoolAt + PoolSize <= Wrap
  BY HeapAssumption
<1>2. d \in Int /\ d % 2 = 0 /\ (d + Wrap) % 2 = 0 /\ Wrap \in Nat \ {0}
  BY <1>1
<1>3. StartItem \in Nat /\ StartItem % 2 = 0 /\ PoolSize <= StartItem /\ StartItem + 2 * Header <= Wrap
  <2>1. CASE PoolAt + PoolSize <= ControlAt /\ ControlAt + 2 * Header <= Wrap
    <3>1. d \in 0..(Wrap - 1) /\ PoolSize <= d /\ d + 2 * Header <= Wrap
      BY <1>1, <2>1
    <3> HIDE DEF d
    <3>2. d % Wrap = d
      BY <1>2, <3>1, ModLemma
    <3>3. StartItem = d
      BY <3>2 DEF StartItem, U32, d
    <3> QED
      BY <1>2, <3>1, <3>3
  <2>2. CASE ControlAt + 2 * Header <= PoolAt /\ PoolAt + PoolSize <= Wrap
    <3>1. /\ d \in (-Wrap)..(-1) /\ PoolSize <= d + Wrap /\ d + Wrap \in Nat
          /\ d + Wrap + 2 * Header <= Wrap
      BY <1>1, <2>2
    <3> HIDE DEF d
    <3>2. d % Wrap = d + Wrap
      BY <1>2, <3>1, ModLemma
    <3>3. StartItem = d + Wrap
      BY <3>2 DEF StartItem, U32, d
    <3> QED
      BY <1>2, <3>1, <3>3
  <2> QED
    BY <1>1, <2>1, <2>2
<1>4. EndItem = StartItem + Header
  BY DEF EndItem
<1>5. EndItem % 2 = 0 /\ EndItem \in Nat /\ EndItem + Header <= Wrap /\ 0 < StartItem
  BY <1>1, <1>3, <1>4
<1> QED
  BY <1>1, <1>2, <1>3, <1>4, <1>5

\* A new item between a and its successor keeps the order.
LEMMA PhysicalInsert ==
  ASSUME NEW s, Physical(s), NEW a \in Blocks(s), NEW n \in Nat, n % 2 = 0,
         a + Header <= n, n + Header <= item_next(s, a), n < StartItem,
         NEW t, Inserted(s, t, a, n)
  PROVE  n \notin DOMAIN s.item /\ Physical(t) /\ Blocks(t) = Blocks(s) \cup {n}
<1> DEFINE D == DOMAIN s.item
           m == item_next(s, a)
<1>1. /\ Header \in Nat \ {0} /\ StartItem \in Nat /\ EndItem \in Nat /\ 0 < StartItem
      /\ StartItem < EndItem
  BY HeapAddresses
<1>2. /\ a \in D \ {StartItem, EndItem} /\ a \in Nat /\ m \in D \ {StartItem} /\ m \in Nat
      /\ \A b \in D \ {StartItem} : ~(a < b /\ b < m)
      /\ \A x \in D : x \in Nat
  BY DEF Physical, Blocks
<1>3. n \notin D /\ n # StartItem /\ n # EndItem /\ a < n /\ n < m
  <2>1. n # StartItem /\ n # EndItem /\ a < n /\ n < m
    BY <1>1, <1>2
  <2> QED
    BY <1>2, <2>1
<1>4. DOMAIN t.item = D \cup {n} /\ Blocks(t) = Blocks(s) \cup {n}
  BY <1>3 DEF Inserted, Blocks
<1>5. /\ \A x \in D : /\ item_next(t, x) = IF x = a THEN n ELSE item_next(s, x)
                      /\ t.item[x].prev = IF x = m THEN n ELSE s.item[x].prev
                      /\ ITEM_IS_FREE(t, x) = ITEM_IS_FREE(s, x)
      /\ item_next(t, n) = m /\ t.item[n].prev = a
  BY DEF Inserted
<1>6. /\ IsFiniteSet(DOMAIN t.item) /\ {0, StartItem, EndItem} \subseteq DOMAIN t.item
      /\ \A x \in DOMAIN t.item : x \in Nat /\ x % 2 = 0
  <2>1. IsFiniteSet(D) /\ {0, StartItem, EndItem} \subseteq D /\ \A x \in D : x \in Nat /\ x % 2 = 0
    BY DEF Physical
  <2>2. IsFiniteSet(D \cup {n})
    BY <2>1, FS_AddElement
  <2> QED
    BY <1>4, <2>1, <2>2
<1>7. /\ item_next(t, StartItem) = 0 /\ item_next(t, EndItem) = StartItem
      /\ ~ITEM_IS_FREE(t, StartItem) /\ ~ITEM_IS_FREE(t, EndItem)
  BY <1>2, <1>5 DEF Physical
<1>8. ASSUME NEW x \in Blocks(t)
      PROVE  /\ x < StartItem
             /\ item_next(t, x) \in DOMAIN t.item \ {StartItem} /\ item_next(t, x) >= x + Header
             /\ \A b \in DOMAIN t.item \ {StartItem} : ~(x < b /\ b < item_next(t, x))
  <2>1. CASE x = n
    <3>1. \A b \in D \ {StartItem} : ~(n < b /\ b < m)
      BY <1>2, <1>3
    <3> QED
      BY <1>2, <1>3, <1>4, <1>5, <2>1, <3>1
  <2>2. CASE x = a
    <3>1. \A b \in D \ {StartItem} : ~(a < b /\ b < n)
      BY <1>2, <1>3
    <3>2. item_next(t, x) = n
      BY <1>2, <1>5, <2>2
    <3>3. a < StartItem
      BY DEF Physical
    <3> QED
      BY <1>2, <1>3, <1>4, <2>2, <3>1, <3>2, <3>3
  <2>3. CASE x # a /\ x # n
    <3>1. x \in Blocks(s) /\ x \in D \ {StartItem} /\ x \in Nat /\ item_next(t, x) = item_next(s, x)
      BY <1>2, <1>4, <1>5, <2>3 DEF Blocks
    <3>2. /\ x < StartItem /\ item_next(s, x) \in D \ {StartItem} /\ item_next(s, x) >= x + Header
          /\ \A b \in D \ {StartItem} : ~(x < b /\ b < item_next(s, x))
      BY <3>1 DEF Physical
    <3>3. item_next(s, x) \in Nat
      BY <1>2, <3>2
    <3>4. ~(x < n /\ n < item_next(s, x))
      <4>1. CASE x < a
        <5>1. ~(a < item_next(s, x))
          BY <1>2, <3>2, <4>1
        <5> QED
          BY <1>2, <1>3, <3>3, <5>1
      <4>2. CASE a < x
        <5>1. ~(x < m)
          BY <1>2, <3>1, <4>2
        <5> QED
          BY <1>2, <1>3, <3>1, <5>1
      <4> QED
        BY <1>2, <2>3, <3>1, <4>1, <4>2
    <3> QED
      BY <1>4, <3>1, <3>2, <3>4
  <2> QED
    BY <2>1, <2>2, <2>3
<1>9. ASSUME NEW x \in DOMAIN t.item \ {EndItem}
      PROVE  t.item[item_next(t, x)].prev = x
  <2>1. CASE x = n
    BY <1>2, <1>5, <2>1
  <2>2. CASE x = a
    BY <1>2, <1>5, <2>2
  <2>3. CASE x # a /\ x # n
    <3>1. x \in D \ {EndItem} /\ item_next(t, x) = item_next(s, x)
      BY <1>4, <1>5, <2>3
    <3>2. item_next(s, x) \in D /\ s.item[item_next(s, x)].prev = x /\ s.item[m].prev = a
      BY <1>2, <3>1 DEF Physical, Blocks
    <3> QED
      BY <1>5, <2>3, <3>1, <3>2
  <2> QED
    BY <2>1, <2>2, <2>3
<1>10. ASSUME NEW b \in DOMAIN t.item \ {StartItem}
       PROVE  t.item[b].prev \in DOMAIN t.item \ {EndItem} /\ item_next(t, t.item[b].prev) = b
  <2>1. CASE b = n
    BY <1>2, <1>4, <1>5, <2>1
  <2>2. CASE b = m
    BY <1>2, <1>3, <1>4, <1>5, <2>2
  <2>3. CASE b # m /\ b # n
    <3>1. b \in D \ {StartItem} /\ t.item[b].prev = s.item[b].prev
      BY <1>4, <1>5, <2>3
    <3>2. s.item[b].prev \in D \ {EndItem} /\ item_next(s, s.item[b].prev) = b
      BY <3>1 DEF Physical
    <3> QED
      BY <1>4, <1>5, <2>3, <3>1, <3>2
  <2> QED
    BY <2>1, <2>2, <2>3
<1> QED
  BY <1>3, <1>4, <1>6, <1>7, <1>8, <1>9, <1>10 DEF Physical

\* So does an item that goes, unless it is the first.
LEMMA PhysicalRemove ==
  ASSUME NEW s, Physical(s), NEW y \in Blocks(s), s.item[y].prev \in Blocks(s),
         NEW t, Removed(s, t, y)
  PROVE  Physical(t) /\ Blocks(t) = Blocks(s) \ {y}
<1> DEFINE D == DOMAIN s.item
           m == item_next(s, y)
           p == s.item[y].prev
<1>1. /\ Header \in Nat \ {0} /\ StartItem \in Nat /\ EndItem \in Nat /\ 0 < StartItem
      /\ StartItem < EndItem
  BY HeapAddresses
<1>2. /\ y \in D \ {StartItem, EndItem} /\ y \in Nat /\ m \in D \ {StartItem} /\ m \in Nat
      /\ p \in D \ {StartItem, EndItem} /\ p \in Nat /\ item_next(s, p) = y
      /\ y >= p + Header /\ m >= y + Header /\ s.item[m].prev = y
      /\ \A b \in D \ {StartItem} : ~(p < b /\ b < y) /\ ~(y < b /\ b < m)
      /\ \A x \in D : x \in Nat
  BY DEF Physical, Blocks
<1>3. p # y /\ m # y /\ p # m
  BY <1>1, <1>2
<1>4. DOMAIN t.item = D \ {y} /\ Blocks(t) = Blocks(s) \ {y}
  BY DEF Removed, Blocks
<1>5. \A x \in D \ {y} :
        /\ item_next(t, x) = IF x = p THEN m ELSE item_next(s, x)
        /\ t.item[x].prev = IF x = m THEN p ELSE s.item[x].prev
        /\ ITEM_IS_FREE(t, x) = ITEM_IS_FREE(s, x)
  BY DEF Removed
<1>6. y # 0
  BY <1>2 DEF Physical
<1>7. /\ IsFiniteSet(DOMAIN t.item) /\ {0, StartItem, EndItem} \subseteq DOMAIN t.item
      /\ \A x \in DOMAIN t.item : x \in Nat /\ x % 2 = 0
  BY <1>2, <1>4, <1>6, FS_RemoveElement DEF Physical
<1>8. /\ item_next(t, StartItem) = 0 /\ item_next(t, EndItem) = StartItem
      /\ ~ITEM_IS_FREE(t, StartItem) /\ ~ITEM_IS_FREE(t, EndItem)
  BY <1>2, <1>5 DEF Physical
<1>9. ASSUME NEW x \in D \ {EndItem}, x # y, x # p
      PROVE  item_next(s, x) \in D /\ item_next(s, x) # y /\ item_next(s, x) # m
             /\ s.item[item_next(s, x)].prev = x
  BY <1>2, <1>9 DEF Physical, Blocks
<1>10. ASSUME NEW x \in Blocks(t)
       PROVE  /\ x < StartItem
              /\ item_next(t, x) \in DOMAIN t.item \ {StartItem} /\ item_next(t, x) >= x + Header
              /\ \A b \in DOMAIN t.item \ {StartItem} : ~(x < b /\ b < item_next(t, x))
  <2>1. x \in Blocks(s) /\ x # y /\ x \in D
    BY <1>4 DEF Blocks
  <2>2. CASE x = p
    <3>1. p < StartItem /\ item_next(t, x) = m /\ m >= p + Header
      <4>1. p < StartItem
        BY DEF Physical
      <4> QED
        BY <1>1, <1>2, <1>3, <1>5, <2>2, <4>1
    <3>2. \A b \in D \ {StartItem} : b # y => ~(p < b /\ b < m)
      BY <1>2
    <3> QED
      BY <1>2, <1>3, <1>4, <2>2, <3>1, <3>2
  <2>3. CASE x # p
    <3>1. item_next(t, x) = item_next(s, x) /\ item_next(s, x) # y
      BY <1>5, <1>9, <2>1, <2>3 DEF Blocks
    <3> QED
      BY <1>4, <2>1, <3>1 DEF Physical
  <2> QED
    BY <2>2, <2>3
<1>11. ASSUME NEW x \in DOMAIN t.item \ {EndItem}
       PROVE  t.item[item_next(t, x)].prev = x
  <2>1. CASE x = p
    BY <1>2, <1>3, <1>5, <2>1
  <2>2. CASE x # p
    BY <1>4, <1>5, <1>9, <2>2
  <2> QED
    BY <2>1, <2>2
<1>12. ASSUME NEW b \in DOMAIN t.item \ {StartItem}
       PROVE  t.item[b].prev \in DOMAIN t.item \ {EndItem} /\ item_next(t, t.item[b].prev) = b
  <2>1. CASE b = m
    BY <1>2, <1>3, <1>4, <1>5, <2>1
  <2>2. CASE b # m
    <3>1. b \in D \ {StartItem} /\ b # y /\ t.item[b].prev = s.item[b].prev
      BY <1>4, <1>5, <2>2
    <3>2. s.item[b].prev \in D \ {EndItem} /\ item_next(s, s.item[b].prev) = b
      BY <3>1 DEF Physical
    <3>3. s.item[b].prev # y /\ s.item[b].prev # p
      BY <1>2, <2>2, <3>1, <3>2
    <3> QED
      BY <1>4, <1>5, <3>1, <3>2, <3>3
  <2> QED
    BY <2>1, <2>2
<1> QED
  BY <1>4, <1>7, <1>8, <1>10, <1>11, <1>12 DEF Physical

-----------------------------------------------------------------------------
(* The ring of free items *)

\* What the ring meets on its way, and where.
Meets(S, K, c) ==
  /\ \A i \in 1..K : c[i] \in S
  /\ \A i, j \in 1..K + 1 : c[i] = c[j] => i = j
  /\ \A x \in S \cup {StartItem} : \E i \in 0..K : c[i] = x
  /\ \A x \in S \cup {StartItem} : \E i \in 1..K + 1 : c[i] = x

\* A ring meets each of its items once on the way.
LEMMA RingIndex ==
  ASSUME NEW s, NEW S, StartItem \notin S, NEW K \in Nat, NEW c, RingAt(s, S, K, c)
  PROVE  Meets(S, K, c)
<1>1. /\ c \in [0..K + 1 -> S \cup {StartItem}] /\ c[0] = StartItem /\ c[K + 1] = StartItem
      /\ \A i, j \in 0..K : c[i] = c[j] => i = j
      /\ \A a \in S : \E i \in 1..K : c[i] = a
  BY DEF RingAt
<1>2. ASSUME NEW i \in 1..K PROVE c[i] \in S
  <2>1. i \in 0..K /\ 0 \in 0..K /\ i # 0 /\ i \in 0..K + 1
    OBVIOUS
  <2> QED
    BY <1>1, <2>1
<1>3. ASSUME NEW i \in 1..K + 1, NEW j \in 1..K + 1, c[i] = c[j] PROVE i = j
  <2>1. CASE i \in 1..K /\ j \in 1..K
    BY <1>1, <1>3, <2>1
  <2>2. CASE i = K + 1 \/ j = K + 1
    <3>1. (i \in 1..K \/ i = K + 1) /\ (j \in 1..K \/ j = K + 1)
      OBVIOUS
    <3> QED
      BY <1>1, <1>2, <1>3, <2>2, <3>1
  <2> QED
    BY <2>1, <2>2
<1>4. 0 \in 0..K /\ K + 1 \in 1..K + 1 /\ 1..K \subseteq 0..K /\ 1..K \subseteq 1..K + 1
  OBVIOUS
<1> QED
  BY <1>1, <1>2, <1>3, <1>4 DEF Meets

\* Both links of a ring stay in it, and each undoes the other.
LEMMA RingClosed ==
  ASSUME NEW s, NEW S, StartItem \notin S, FreeRing(s, S)
  PROVE  \A x \in S \cup {StartItem} :
           /\ s.item[x].next_free \in S \cup {StartItem}
           /\ s.item[x].prev_free \in S \cup {StartItem}
           /\ s.item[s.item[x].next_free].prev_free = x
<1>1. PICK K \in Nat : \E c : RingAt(s, S, K, c)
  BY DEF FreeRing
<1>2. PICK c : RingAt(s, S, K, c)
  BY <1>1
<1>3. /\ c \in [0..K + 1 -> S \cup {StartItem}]
      /\ \A i \in 0..K : s.item[c[i]].next_free = c[i + 1] /\ s.item[c[i + 1]].prev_free = c[i]
  BY <1>2 DEF RingAt
<1> SUFFICES ASSUME NEW x \in S \cup {StartItem}
             PROVE  /\ s.item[x].next_free \in S \cup {StartItem}
                    /\ s.item[x].prev_free \in S \cup {StartItem}
                    /\ s.item[s.item[x].next_free].prev_free = x
  OBVIOUS
<1>a. Meets(S, K, c)
  BY <1>2, RingIndex
<1>4. PICK i \in 0..K : c[i] = x
  BY <1>a DEF Meets
<1>5. PICK j \in 1..K + 1 : c[j] = x
  BY <1>a DEF Meets
<1>6. /\ i + 1 \in 0..K + 1
      /\ s.item[x].next_free = c[i + 1] /\ s.item[c[i + 1]].prev_free = x
  BY <1>3, <1>4
<1>7. j - 1 \in 0..K /\ j - 1 \in 0..K + 1 /\ j - 1 + 1 = j
  OBVIOUS
<1>8. s.item[x].prev_free = c[j - 1]
  BY <1>3, <1>5, <1>7
<1> QED
  BY <1>3, <1>6, <1>7, <1>8

\* A ring is a matter of the free links of its items alone.
LEMMA RingFrame ==
  ASSUME NEW s, NEW S, FreeRing(s, S), NEW t,
         \A x \in S \cup {StartItem} : /\ t.item[x].next_free = s.item[x].next_free
                                       /\ t.item[x].prev_free = s.item[x].prev_free
  PROVE  FreeRing(t, S)
<1>1. PICK K \in Nat : \E c : RingAt(s, S, K, c)
  BY DEF FreeRing
<1>2. PICK c : RingAt(s, S, K, c)
  BY <1>1
<1>3. \A i \in 0..K : c[i] \in S \cup {StartItem} /\ c[i + 1] \in S \cup {StartItem}
  <2>1. c \in [0..K + 1 -> S \cup {StartItem}]
    BY <1>2 DEF RingAt
  <2> QED
    BY <2>1
<1>4. RingAt(t, S, K, c)
  BY <1>2, <1>3 DEF RingAt
<1> QED
  BY <1>4 DEF FreeRing

\* Behind start_item.
LEMMA RingIn ==
  ASSUME NEW s, NEW S, StartItem \notin S, FreeRing(s, S), NEW n, n \notin S, n # StartItem,
         NEW t, t.item[n].next_free = s.item[StartItem].next_free,
         t.item[n].prev_free = StartItem,
         \A x \in S \cup {StartItem} :
           /\ t.item[x].next_free = IF x = StartItem THEN n ELSE s.item[x].next_free
           /\ t.item[x].prev_free = IF x = s.item[StartItem].next_free THEN n
                                    ELSE s.item[x].prev_free
  PROVE  FreeRing(t, S \cup {n})
<1>1. PICK K \in Nat : \E c : RingAt(s, S, K, c)
  BY DEF FreeRing
<1>2. PICK c : RingAt(s, S, K, c)
  BY <1>1
<1>3. /\ c \in [0..K + 1 -> S \cup {StartItem}] /\ c[0] = StartItem /\ c[K + 1] = StartItem
      /\ \A i, j \in 0..K : c[i] = c[j] => i = j
      /\ \A a \in S : \E i \in 1..K : c[i] = a
      /\ \A i \in 0..K : s.item[c[i]].next_free = c[i + 1] /\ s.item[c[i + 1]].prev_free = c[i]
  BY <1>2 DEF RingAt
<1>4. /\ \A i \in 1..K : c[i] \in S
      /\ \A i, j \in 1..K + 1 : c[i] = c[j] => i = j
  <2>1. Meets(S, K, c)
    BY <1>2, RingIndex
  <2> QED
    BY <2>1 DEF Meets
<1>5. s.item[StartItem].next_free = c[1]
  <2>1. 0 \in 0..K /\ 0 + 1 = 1
    OBVIOUS
  <2> QED
    BY <1>3, <2>1
<1> DEFINE d == [i \in 0..K + 2 |-> IF i = 0 THEN StartItem ELSE IF i = 1 THEN n ELSE c[i - 1]]
<1>6. /\ d[0] = StartItem /\ d[1] = n /\ \A i \in 2..K + 2 : d[i] = c[i - 1]
  OBVIOUS
<1>7. d \in [0..K + 2 -> S \cup {n} \cup {StartItem}]
  <2>1. \A i \in 2..K + 2 : i - 1 \in 0..K + 1
    OBVIOUS
  <2>2. \A i \in 0..K + 2 : i = 0 \/ i = 1 \/ i \in 2..K + 2
    OBVIOUS
  <2>3. \A i \in 0..K + 2 : d[i] \in S \cup {n} \cup {StartItem}
    <3> HIDE DEF d
    <3> QED
      BY <1>3, <1>6, <2>1, <2>2
  <2> QED
    BY <2>3
<1>8. d[K + 2] = StartItem
  BY <1>3
<1> HIDE DEF d
<1>9. ASSUME NEW i \in 0..K + 1, NEW j \in 0..K + 1, d[i] = d[j] PROVE i = j
  <2>1. \A k \in 2..K + 1 : d[k] = c[k - 1] /\ k - 1 \in 1..K /\ d[k] \in S
    BY <1>4, <1>6
  <2>2. (i = 0 \/ i = 1 \/ i \in 2..K + 1) /\ (j = 0 \/ j = 1 \/ j \in 2..K + 1)
    OBVIOUS
  <2>3. CASE i \in 2..K + 1 /\ j \in 2..K + 1
    <3>1. i - 1 = j - 1
      BY <1>3, <1>9, <2>1, <2>3
    <3> QED
      BY <2>3, <3>1
  <2> QED
    BY <1>6, <1>9, <2>1, <2>2, <2>3
<1>10. ASSUME NEW a \in S \cup {n} PROVE \E i \in 1..K + 1 : d[i] = a
  <2>1. CASE a = n
    <3>1. 1 \in 1..K + 1
      OBVIOUS
    <3> QED
      BY <1>6, <2>1, <3>1
  <2>2. CASE a \in S
    <3>1. PICK i \in 1..K : c[i] = a
      BY <1>3, <2>2
    <3>2. i + 1 \in 1..K + 1 /\ i + 1 \in 2..K + 2 /\ i + 1 - 1 = i
      OBVIOUS
    <3> QED
      BY <1>6, <3>1, <3>2
  <2> QED
    BY <2>1, <2>2
<1>11. ASSUME NEW i \in 0..K + 1
       PROVE  t.item[d[i]].next_free = d[i + 1] /\ t.item[d[i + 1]].prev_free = d[i]
  <2>1. CASE i = 0
    BY <1>6, <2>1
  <2>2. CASE i = 1
    <3>1. d[i] = n /\ d[i + 1] = c[1] /\ c[1] \in S \cup {StartItem}
      BY <1>3, <1>6, <2>2
    <3> QED
      BY <1>5, <1>6, <2>2, <3>1
  <2>3. CASE i \in 2..K + 1
    <3>1. i - 1 \in 1..K /\ i - 1 \in 0..K /\ i - 1 + 1 = i /\ i \in 2..K + 2 /\ i + 1 \in 2..K + 2
          /\ i + 1 - 1 = i /\ i \in 1..K + 1 /\ 1 \in 1..K + 1 /\ i # 1 /\ i \in 0..K + 1
      BY <2>3
    <3>2. d[i] = c[i - 1] /\ d[i + 1] = c[i] /\ c[i - 1] \in S /\ c[i] \in S \cup {StartItem}
          /\ c[i] # c[1]
      BY <1>3, <1>4, <1>6, <3>1
    <3>3. s.item[c[i - 1]].next_free = c[i] /\ s.item[c[i]].prev_free = c[i - 1]
      BY <1>3, <3>1
    <3> QED
      BY <1>5, <3>2, <3>3
  <2>4. i = 0 \/ i = 1 \/ i \in 2..K + 1
    OBVIOUS
  <2> QED
    BY <2>1, <2>2, <2>3, <2>4
<1>12. RingAt(t, S \cup {n}, K + 1, d)
  <2>1. (K + 1) + 1 = K + 2
    OBVIOUS
  <2> QED
    BY <1>6, <1>7, <1>8, <1>9, <1>10, <1>11, <2>1 DEF RingAt
<1>13. K + 1 \in Nat
  OBVIOUS
<1> QED
  BY <1>12, <1>13 DEF FreeRing

\* From between its neighbours.
LEMMA RingOut ==
  ASSUME NEW s, NEW S, StartItem \notin S, FreeRing(s, S), NEW y \in S,
         NEW t,
         \A x \in (S \ {y}) \cup {StartItem} :
           /\ t.item[x].next_free = IF x = s.item[y].prev_free THEN s.item[y].next_free
                                    ELSE s.item[x].next_free
           /\ t.item[x].prev_free = IF x = s.item[y].next_free THEN s.item[y].prev_free
                                    ELSE s.item[x].prev_free
  PROVE  FreeRing(t, S \ {y})
<1>1. PICK K \in Nat : \E c : RingAt(s, S, K, c)
  BY DEF FreeRing
<1>2. PICK c : RingAt(s, S, K, c)
  BY <1>1
<1>3. /\ c \in [0..K + 1 -> S \cup {StartItem}] /\ c[0] = StartItem /\ c[K + 1] = StartItem
      /\ \A i, j \in 0..K : c[i] = c[j] => i = j
      /\ \A a \in S : \E i \in 1..K : c[i] = a
      /\ \A i \in 0..K : s.item[c[i]].next_free = c[i + 1] /\ s.item[c[i + 1]].prev_free = c[i]
  BY <1>2 DEF RingAt
<1>4. /\ \A i \in 1..K : c[i] \in S
      /\ \A i, j \in 1..K + 1 : c[i] = c[j] => i = j
  <2>1. Meets(S, K, c)
    BY <1>2, RingIndex
  <2> QED
    BY <2>1 DEF Meets
<1>5. PICK k \in 1..K : c[k] = y
  BY <1>3
<1>6. s.item[y].next_free = c[k + 1] /\ s.item[y].prev_free = c[k - 1]
  <2>1. k \in 0..K /\ k - 1 \in 0..K /\ k - 1 + 1 = k
    OBVIOUS
  <2> QED
    BY <1>3, <1>5, <2>1
<1> DEFINE d == [i \in 0..K |-> IF i < k THEN c[i] ELSE c[i + 1]]
<1>7. \A i \in 0..K : d[i] = IF i < k THEN c[i] ELSE c[i + 1]
  OBVIOUS
<1>8. ASSUME NEW i \in 0..K + 1, i # k PROVE c[i] \in (S \ {y}) \cup {StartItem}
  <2>1. CASE i \in 1..K
    <3>1. i \in 0..K /\ k \in 0..K
      BY <2>1
    <3> QED
      BY <1>3, <1>4, <1>5, <1>8, <2>1, <3>1
  <2>2. CASE i = 0 \/ i = K + 1
    BY <1>3, <2>2
  <2> QED
    BY <2>1, <2>2
<1>9. d \in [0..K -> (S \ {y}) \cup {StartItem}]
  <2>1. \A i \in 0..K : d[i] \in (S \ {y}) \cup {StartItem}
    <3> SUFFICES ASSUME NEW i \in 0..K PROVE d[i] \in (S \ {y}) \cup {StartItem}
      OBVIOUS
    <3>1. CASE i < k
      <4>1. i \in 0..K + 1 /\ i # k
        BY <3>1
      <4> QED
        BY <1>7, <1>8, <3>1, <4>1
    <3>2. CASE ~(i < k)
      <4>1. i + 1 \in 0..K + 1 /\ i + 1 # k
        BY <3>2
      <4> QED
        BY <1>7, <1>8, <3>2, <4>1
    <3> QED
      BY <3>1, <3>2
  <2> QED
    BY <2>1
<1>10. d[0] = StartItem /\ d[K] = StartItem
  <2>1. 0 \in 0..K /\ K \in 0..K /\ 0 < k /\ ~(K < k)
    OBVIOUS
  <2> QED
    BY <1>3, <1>7, <2>1
<1> HIDE DEF d
<1>11. ASSUME NEW i \in 0..K - 1, NEW j \in 0..K - 1, d[i] = d[j] PROVE i = j
  <2> DEFINE at(x) == IF x < k THEN x ELSE x + 1
  <2>1. i \in 0..K /\ j \in 0..K /\ at(i) \in 0..K /\ at(j) \in 0..K
    OBVIOUS
  <2>2. d[i] = c[at(i)] /\ d[j] = c[at(j)]
    BY <1>7, <2>1
  <2>3. at(i) = at(j)
    <3> HIDE DEF at
    <3>1. \A x, z \in 0..K : c[x] = c[z] => x = z
      BY <1>3
    <3> QED
      BY <1>11, <2>1, <2>2, <3>1
  <2> QED
    BY <2>1, <2>3
<1>12. ASSUME NEW a \in S \ {y} PROVE \E i \in 1..K - 1 : d[i] = a
  <2>1. PICK i \in 1..K : c[i] = a
    BY <1>3
  <2>2. CASE i < k
    <3>1. i \in 1..K - 1 /\ i \in 0..K
      BY <2>2
    <3> QED
      BY <1>7, <2>1, <2>2, <3>1
  <2>3. CASE ~(i < k)
    <3>1. i # k
      BY <1>5, <2>1
    <3>2. i - 1 \in 1..K - 1 /\ i - 1 \in 0..K /\ ~(i - 1 < k) /\ i - 1 + 1 = i
      BY <2>3, <3>1
    <3> QED
      BY <1>7, <2>1, <3>2
  <2> QED
    BY <2>2, <2>3
<1>13. ASSUME NEW i \in 0..K - 1
       PROVE  t.item[d[i]].next_free = d[i + 1] /\ t.item[d[i + 1]].prev_free = d[i]
  <2>0. /\ i \in 0..K /\ i + 1 \in 0..K /\ i + 1 \in 1..K /\ i + 1 \in 1..K + 1
        /\ k \in 0..K /\ k - 1 \in 0..K /\ k + 1 \in 1..K + 1 /\ k \in 1..K + 1
        /\ i + 1 + 1 \in 1..K + 1 /\ i + 1 + 1 \in 0..K + 1 /\ i + 1 \in 0..K + 1
        /\ i \in 0..K + 1 /\ k - 1 \in 0..K + 1 /\ k + 1 \in 0..K + 1
    OBVIOUS
  <2>1. CASE i + 1 < k
    <3>1. d[i] = c[i] /\ d[i + 1] = c[i + 1] /\ i # k /\ i + 1 # k /\ i # k - 1 /\ i + 1 # k + 1
      BY <1>7, <2>0, <2>1
    <3>2. c[i] # c[k - 1] /\ c[i + 1] # c[k + 1]
      BY <1>3, <1>4, <2>0, <3>1
    <3>3. s.item[c[i]].next_free = c[i + 1] /\ s.item[c[i + 1]].prev_free = c[i]
      BY <1>3, <2>0
    <3>4. c[i] \in (S \ {y}) \cup {StartItem} /\ c[i + 1] \in (S \ {y}) \cup {StartItem}
      BY <1>8, <2>0, <3>1
    <3> QED
      BY <1>6, <3>1, <3>2, <3>3, <3>4
  <2>2. CASE i + 1 = k
    <3>1. d[i] = c[k - 1] /\ d[i + 1] = c[k + 1] /\ k - 1 # k /\ k + 1 # k
      BY <1>7, <2>0, <2>2
    <3> QED
      BY <1>6, <1>8, <2>0, <3>1
  <2>3. CASE i + 1 > k
    <3>1. /\ d[i] = c[i + 1] /\ d[i + 1] = c[i + 1 + 1] /\ i + 1 # k /\ i + 1 + 1 # k
          /\ i + 1 # k - 1 /\ i + 1 + 1 # k + 1
      BY <1>7, <2>0, <2>3
    <3>2. c[i + 1] # c[k - 1] /\ c[i + 1 + 1] # c[k + 1]
      BY <1>3, <1>4, <2>0, <3>1
    <3>3. /\ s.item[c[i + 1]].next_free = c[i + 1 + 1]
          /\ s.item[c[i + 1 + 1]].prev_free = c[i + 1]
      BY <1>3, <2>0
    <3>4. /\ c[i + 1] \in (S \ {y}) \cup {StartItem}
          /\ c[i + 1 + 1] \in (S \ {y}) \cup {StartItem}
      BY <1>8, <2>0, <3>1
    <3> QED
      BY <1>6, <3>1, <3>2, <3>3, <3>4
  <2>4. i + 1 < k \/ i + 1 = k \/ i + 1 > k
    OBVIOUS
  <2> QED
    BY <2>1, <2>2, <2>3, <2>4
<1>14. RingAt(t, S \ {y}, K - 1, d)
  <2>1. (K - 1) + 1 = K
    OBVIOUS
  <2> QED
    BY <1>9, <1>10, <1>11, <1>12, <1>13, <2>1 DEF RingAt
<1>15. K - 1 \in Nat
  OBVIOUS
<1> QED
  BY <1>14, <1>15 DEF FreeRing

\* In the place of another.
LEMMA RingSwap ==
  ASSUME NEW s, NEW S, StartItem \notin S, FreeRing(s, S), NEW a \in S,
         NEW n, n \notin S, n # StartItem,
         NEW t, t.item[n].next_free = s.item[a].next_free,
         t.item[n].prev_free = s.item[a].prev_free,
         \A x \in (S \ {a}) \cup {StartItem} :
           /\ t.item[x].next_free = IF x = s.item[a].prev_free THEN n ELSE s.item[x].next_free
           /\ t.item[x].prev_free = IF x = s.item[a].next_free THEN n ELSE s.item[x].prev_free
  PROVE  FreeRing(t, (S \ {a}) \cup {n})
<1>1. PICK K \in Nat : \E c : RingAt(s, S, K, c)
  BY DEF FreeRing
<1>2. PICK c : RingAt(s, S, K, c)
  BY <1>1
<1>3. /\ c \in [0..K + 1 -> S \cup {StartItem}] /\ c[0] = StartItem /\ c[K + 1] = StartItem
      /\ \A i, j \in 0..K : c[i] = c[j] => i = j
      /\ \A x \in S : \E i \in 1..K : c[i] = x
      /\ \A i \in 0..K : s.item[c[i]].next_free = c[i + 1] /\ s.item[c[i + 1]].prev_free = c[i]
  BY <1>2 DEF RingAt
<1>4. /\ \A i \in 1..K : c[i] \in S
      /\ \A i, j \in 1..K + 1 : c[i] = c[j] => i = j
  <2>1. Meets(S, K, c)
    BY <1>2, RingIndex
  <2> QED
    BY <2>1 DEF Meets
<1>5. PICK k \in 1..K : c[k] = a
  BY <1>3
<1>6. s.item[a].next_free = c[k + 1] /\ s.item[a].prev_free = c[k - 1]
  <2>1. k \in 0..K /\ k - 1 \in 0..K /\ k - 1 + 1 = k
    OBVIOUS
  <2> QED
    BY <1>3, <1>5, <2>1
<1> DEFINE d == [c EXCEPT ![k] = n]
           T == (S \ {a}) \cup {n}
<1>7. \A i \in 0..K + 1 : d[i] = IF i = k THEN n ELSE c[i]
  BY <1>3
<1>8. ASSUME NEW i \in 0..K + 1, i # k PROVE c[i] \in (S \ {a}) \cup {StartItem}
  <2>1. CASE i \in 1..K
    <3>1. i \in 0..K /\ k \in 0..K
      BY <2>1
    <3> QED
      BY <1>3, <1>4, <1>5, <1>8, <2>1, <3>1
  <2>2. CASE i = 0 \/ i = K + 1
    BY <1>3, <2>2
  <2> QED
    BY <2>1, <2>2
<1>9. d \in [0..K + 1 -> T \cup {StartItem}]
  <2>1. d = [i \in 0..K + 1 |-> d[i]]
    BY <1>3
  <2>2. \A i \in 0..K + 1 : d[i] \in T \cup {StartItem}
    <3> HIDE DEF d
    <3> QED
      BY <1>7, <1>8
  <2> HIDE DEF d
  <2> QED
    BY <2>1, <2>2
<1>10. d[0] = StartItem /\ d[K + 1] = StartItem
  <2>1. 0 \in 0..K + 1 /\ K + 1 \in 0..K + 1 /\ 0 # k /\ K + 1 # k
    OBVIOUS
  <2> HIDE DEF d
  <2> QED
    BY <1>3, <1>7, <2>1
<1> HIDE DEF d
<1>11. ASSUME NEW i \in 0..K, NEW j \in 0..K, d[i] = d[j] PROVE i = j
  <2>1. i \in 0..K + 1 /\ j \in 0..K + 1
    OBVIOUS
  <2>2. \A x \in 0..K + 1 : x # k => c[x] # n
    BY <1>8
  <2> QED
    BY <1>3, <1>7, <1>11, <2>1, <2>2
<1>12. ASSUME NEW x \in T PROVE \E i \in 1..K : d[i] = x
  <2>1. CASE x = n
    <3>1. d[k] = n
      BY <1>7
    <3> QED
      BY <2>1, <3>1
  <2>2. CASE x # n
    <3>1. PICK i \in 1..K : c[i] = x
      BY <1>3, <2>2
    <3>2. i # k /\ i \in 0..K + 1
      BY <1>5, <2>2, <3>1
    <3> QED
      BY <1>7, <3>1, <3>2
  <2> QED
    BY <2>1, <2>2
<1>13. ASSUME NEW i \in 0..K
       PROVE  t.item[d[i]].next_free = d[i + 1] /\ t.item[d[i + 1]].prev_free = d[i]
  <2>0. /\ i \in 0..K + 1 /\ i + 1 \in 0..K + 1 /\ i + 1 \in 1..K + 1
        /\ k \in 0..K /\ k - 1 \in 0..K /\ k + 1 \in 1..K + 1 /\ k \in 1..K + 1
        /\ k - 1 \in 0..K + 1 /\ k + 1 \in 0..K + 1 /\ k - 1 # k /\ k + 1 # k
    OBVIOUS
  <2>1. CASE i = k
    <3>1. d[i] = n /\ d[i + 1] = c[k + 1]
      BY <1>7, <2>0, <2>1
    <3> QED
      BY <1>6, <1>8, <2>0, <3>1
  <2>2. CASE i = k - 1
    <3>1. d[i] = c[k - 1] /\ d[i + 1] = n
      BY <1>7, <2>0, <2>2
    <3> QED
      BY <1>6, <1>8, <2>0, <3>1
  <2>3. CASE i # k /\ i # k - 1
    <3>1. i + 1 # k /\ i + 1 # k + 1
      BY <2>3
    <3>2. d[i] = c[i] /\ d[i + 1] = c[i + 1]
      BY <1>7, <2>0, <2>3, <3>1
    <3>3. c[i] # c[k - 1] /\ c[i + 1] # c[k + 1]
      BY <1>3, <1>4, <2>0, <2>3, <3>1
    <3>4. s.item[c[i]].next_free = c[i + 1] /\ s.item[c[i + 1]].prev_free = c[i]
      BY <1>3
    <3>5. c[i] \in (S \ {a}) \cup {StartItem} /\ c[i + 1] \in (S \ {a}) \cup {StartItem}
      BY <1>8, <2>0, <2>3, <3>1
    <3> QED
      BY <1>6, <3>2, <3>3, <3>4, <3>5
  <2> QED
    BY <2>1, <2>2, <2>3
<1>14. RingAt(t, T, K, d)
  BY <1>9, <1>10, <1>11, <1>12, <1>13 DEF RingAt
<1> QED
  BY <1>14 DEF FreeRing

-----------------------------------------------------------------------------
(* Counting bytes *)

\* There are finitely many bytes.
LEMMA CountType ==
  ASSUME NEW s, Physical(s), NEW S, S \subseteq Blocks(s)
  PROVE  IsFiniteSet(BytesOf(s, S)) /\ Count(s, S) \in Nat
<1>1. Header \in Nat /\ StartItem \in Nat /\ EndItem \in Nat
  BY HeapAddresses
<1>2. ASSUME NEW b \in BytesOf(s, S) PROVE b \in 0..EndItem
  <2>1. PICK a \in S : b \in item_to_data(a)..(item_next(s, a) - 1)
    BY DEF BytesOf
  <2>2. a \in DOMAIN s.item /\ a \in Nat /\ item_next(s, a) \in DOMAIN s.item \ {StartItem}
    BY DEF Physical, Blocks
  <2>3. item_next(s, a) \in Nat /\ item_next(s, a) <= EndItem
    <3>1. CASE item_next(s, a) = EndItem
      BY <1>1, <3>1
    <3>2. CASE item_next(s, a) # EndItem
      <4>1. item_next(s, a) \in Blocks(s)
        BY <2>2, <3>2 DEF Blocks
      <4>2. item_next(s, a) < StartItem /\ item_next(s, a) \in Nat
        BY <2>2, <4>1 DEF Physical
      <4> QED
        BY <4>2, HeapAddresses
    <3> QED
      BY <3>1, <3>2
  <2>4. item_to_data(a) \in Nat
    BY <1>1, <2>2 DEF item_to_data
  <2> QED
    BY <1>1, <2>1, <2>3, <2>4
<1>3. IsFiniteSet(0..EndItem)
  BY <1>1, FS_Interval
<1>4. BytesOf(s, S) \in SUBSET (0..EndItem)
  BY <1>2
<1> QED
  BY <1>3, <1>4, FS_Subset, FS_CardinalityType DEF Count

\* They are a matter of next alone.
LEMMA CountSame ==
  ASSUME NEW s, NEW S, NEW t, \A a \in S : item_next(t, a) = item_next(s, a)
  PROVE  Count(t, S) = Count(s, S)
  BY DEF Count, BytesOf

\* Two blocks have no byte in common.
LEMMA BytesApart ==
  ASSUME NEW s, Physical(s), NEW x \in Blocks(s), NEW y \in Blocks(s), x # y
  PROVE  (item_to_data(x)..(item_next(s, x) - 1)) \cap (item_to_data(y)..(item_next(s, y) - 1)) = {}
<1>1. /\ x \in Nat /\ y \in Nat /\ item_next(s, x) \in Nat /\ item_next(s, y) \in Nat
      /\ ~(x < y /\ y < item_next(s, x)) /\ ~(y < x /\ x < item_next(s, y))
  BY DEF Physical, Blocks
<1>2. Header \in Nat
  BY HeapAddresses
<1>3. /\ x + Header \in Nat /\ y + Header \in Nat
      /\ item_to_data(x) = x + Header /\ item_to_data(y) = y + Header
  BY <1>1, <1>2 DEF item_to_data
<1>4. item_next(s, x) <= y \/ item_next(s, y) <= x
  BY <1>1
<1> QED
  BY <1>1, <1>2, <1>3, <1>4

\* One block has as many as its data.
LEMMA CountOne ==
  ASSUME NEW s, Physical(s), NEW S, S \subseteq Blocks(s), NEW x \in S
  PROVE  Count(s, S) = Count(s, S \ {x}) + (item_next(s, x) - x - Header)
<1> DEFINE X == item_to_data(x)..(item_next(s, x) - 1)
           R == BytesOf(s, S \ {x})
<1>1. Header \in Nat /\ x \in Nat /\ item_next(s, x) \in Nat /\ item_next(s, x) >= x + Header
  BY HeapAddresses DEF Physical, Blocks
<1>2. BytesOf(s, S) = R \cup X
  BY DEF BytesOf
<1>3. R \cap X = {}
  <2>1. \A y \in S \ {x} : (item_to_data(y)..(item_next(s, y) - 1)) \cap X = {}
    BY BytesApart
  <2> QED
    BY <2>1 DEF BytesOf
<1>4. IsFiniteSet(R) /\ Cardinality(R) \in Nat
  BY CountType DEF Count
<1>5. IsFiniteSet(X) /\ Cardinality(X) = item_next(s, x) - x - Header
  <2>1. item_to_data(x) \in Int /\ item_to_data(x) = x + Header
    BY <1>1 DEF item_to_data
  <2>2. item_next(s, x) - 1 \in Int
    BY <1>1
  <2>3. /\ IsFiniteSet(X)
        /\ Cardinality(X) = IF item_to_data(x) > item_next(s, x) - 1 THEN 0
                            ELSE (item_next(s, x) - 1) - item_to_data(x) + 1
    BY <2>1, <2>2, FS_Interval
  <2> HIDE DEF X
  <2> QED
    BY <1>1, <2>1, <2>3
<1> HIDE DEF X, R
<1>6. Cardinality(R \cup X) = Cardinality(R) + Cardinality(X) - Cardinality({})
  BY <1>3, <1>4, <1>5, FS_Union
<1>7. Cardinality({}) = 0
  BY FS_EmptySet
<1>8. Cardinality(X) \in Int
  BY <1>1, <1>5
<1> QED
  BY <1>2, <1>4, <1>5, <1>6, <1>7, <1>8 DEF Count, R

\* What is owed modulo the range of available_size.
LEMMA OwedPlus ==
  ASSUME NEW u \in Int, NEW n \in Int, NEW k \in Int
  PROVE  U32(Owed(n, u) + k) = Owed(n + k, u) /\ Owed(n, u) \in Int
<1> DEFINE x == n - (EndItem - PoolSize) + u
           quot == x \div Wrap
           r == x % Wrap
<1>1. Wrap \in Nat \ {0} /\ EndItem \in Int /\ PoolSize \in Int
  BY HeapAddresses
<1>2. x \in Int /\ n + k - (EndItem - PoolSize) + u = x + k
  BY <1>1
<1>3. Owed(n, u) = x % Wrap /\ Owed(n + k, u) = (x + k) % Wrap
  <2>1. Owed(n, u) = x % Wrap
    BY DEF Owed, U32
  <2>2. Owed(n + k, u) = (n + k - (EndItem - PoolSize) + u) % Wrap
    BY <1>1 DEF Owed, U32
  <2> HIDE DEF x
  <2> QED
    BY <1>2, <2>1, <2>2
<1> HIDE DEF x
<1>4. r \in Int /\ quot \in Int /\ x = Wrap * quot + r
  <2>1. r \in 0..(Wrap - 1) /\ quot \in Int /\ x = Wrap * quot + r
    BY <1>1, <1>2, ModLemma
  <2> QED
    BY <1>1, <2>1
<1> HIDE DEF quot, r
<1>5. r + k = Wrap * (-quot) + (x + k)
  <2>1. /\ Wrap * (quot + (-quot)) = Wrap * quot + Wrap * (-quot)
        /\ Wrap * quot \in Int /\ Wrap * (-quot) \in Int
    BY <1>1, <1>4, TimesLemma
  <2>2. Wrap * (quot + (-quot)) = 0
    BY <1>1, <1>4
  <2> QED
    BY <1>2, <1>4, <2>1, <2>2
<1>6. Apart(r + k, x + k, Wrap)
  BY <1>4, <1>5 DEF Apart
<1>7. (r + k) % Wrap = (x + k) % Wrap
  <2>1. r + k \in Int /\ x + k \in Int
    BY <1>2, <1>4
  <2> QED
    BY <1>1, <1>6, <2>1, ModMultiple
<1> QED
  BY <1>3, <1>4, <1>7 DEF U32, r

\* What is not charged is available as if it were free.
LEMMA OwedShift ==
  ASSUME NEW u \in Int, NEW n \in Int, NEW k \in Int
  PROVE  Owed(n + k, u) = Owed(n, u + k)
<1>1. EndItem \in Int /\ PoolSize \in Int
  BY HeapAddresses
<1>2. PICK x \in Int : x = n - (EndItem - PoolSize) + (u + k)
  BY <1>1
<1>3. Owed(n, u + k) = U32(x)
  BY <1>2 DEF Owed
<1>4. (n + k) - (EndItem - PoolSize) + u = x
  BY <1>1, <1>2
<1>5. Owed(n + k, u) = U32(x)
  BY <1>4 DEF Owed
<1> QED
  BY <1>3, <1>5

\* The size of a block fits.
LEMMA DataSize ==
  ASSUME NEW s, Physical(s), NEW a \in Blocks(s)
  PROVE  /\ item_data_size(s, a) = item_next(s, a) - a - Header
         /\ item_data_size(s, a) \in Nat /\ a \in Nat /\ item_next(s, a) \in Nat
         /\ item_next(s, a) <= EndItem /\ a < StartItem
<1>1. /\ Header \in Nat /\ a \in Nat /\ item_next(s, a) \in DOMAIN s.item \ {StartItem}
      /\ item_next(s, a) \in Nat /\ item_next(s, a) >= a + Header /\ a < StartItem
  BY HeapAddresses DEF Physical, Blocks
<1>2. item_next(s, a) <= EndItem
  <2>1. CASE item_next(s, a) = EndItem
    BY <1>1, <2>1
  <2>2. CASE item_next(s, a) # EndItem
    <3>1. item_next(s, a) \in Blocks(s)
      BY <1>1, <2>2 DEF Blocks
    <3>2. item_next(s, a) < StartItem
      BY <3>1 DEF Physical
    <3> QED
      BY <1>1, <3>2, HeapAddresses
  <2> QED
    BY <2>1, <2>2
<1>3. item_next(s, a) - a - Header \in 0..(Wrap - 1) /\ Wrap \in Nat \ {0}
  BY <1>1, <1>2, HeapAddresses
<1> DEFINE d == item_next(s, a) - a - Header
<1>4. d % Wrap = d
  <2>1. d \in 0..(Wrap - 1) /\ d \in Int
    BY <1>3
  <2> HIDE DEF d
  <2> QED
    BY <1>3, <2>1, ModLemma
<1> QED
  BY <1>1, <1>2, <1>3, <1>4 DEF item_data_size, U32

-----------------------------------------------------------------------------
(* Freeing *)

\* The blocks in S are on the free list, and no two of them are neighbours.
Listed(s, S) ==
  /\ HeapType(s) /\ Physical(s) /\ S \subseteq Blocks(s)
  /\ FreeRing(s, S) /\ NoNeighbours(s, S)

\* They are the free ones, and available_size counts them.
Sound(s, S, u) ==
  /\ Listed(s, S) /\ \A x \in Blocks(s) : ITEM_IS_FREE(s, x) <=> x \in S
  /\ s.avail = Owed(Count(s, S), u)

\* The same, but for a block that is counted and not yet listed.
Pending(s, S, a, u) ==
  /\ Listed(s, S) /\ a \in Blocks(s) \ S
  /\ \A x \in Blocks(s) \ {a} : ITEM_IS_FREE(s, x) <=> x \in S
  /\ s.avail = Owed(Count(s, S \cup {a}), u)

\* From s to t the used blocks in U have stayed.
Stay(s, t, U) == U \subseteq Blocks(t) /\ \A x \in U : item_next(t, x) = item_next(s, x)

\* Credit changes available_size, modulo its range.
LEMMA CreditLemma ==
  ASSUME NEW s, HeapType(s), NEW k \in Int
  PROVE  /\ HeapType(Credit(s, k)) /\ Credit(s, k).item = s.item
         /\ Credit(s, k).avail = U32(s.avail + k)
<1>1. /\ s.item \in [DOMAIN s.item -> ItemSet] /\ s.avail \in Int
      /\ s = [avail |-> s.avail, item |-> s.item]
  BY DEF HeapType
<1>2. Credit(s, k) = [avail |-> U32(s.avail + k), item |-> s.item]
  BY <1>1 DEF Credit
<1>3. U32(s.avail + k) \in Int
  <2>1. s.avail + k \in Int /\ Wrap \in Nat \ {0}
    BY <1>1, HeapAddresses
  <2> QED
    BY <2>1 DEF U32
<1> QED
  BY <1>1, <1>2, <1>3 DEF HeapType

\* Nothing but available_size differs.
Credited(s, k, t) ==
  /\ HeapType(t) /\ t.item = s.item /\ t.avail = U32(s.avail + k)
  /\ Blocks(t) = Blocks(s)
  /\ \A x : item_next(t, x) = item_next(s, x) /\ ITEM_IS_FREE(t, x) = ITEM_IS_FREE(s, x)
  /\ \A S : /\ FreeRing(t, S) = FreeRing(s, S) /\ Count(t, S) = Count(s, S)
            /\ NoNeighbours(t, S) = NoNeighbours(s, S) /\ Listed(t, S) = Listed(s, S)
  /\ Physical(t) = Physical(s)

\* Crediting changes no block.
LEMMA CreditKeeps ==
  ASSUME NEW s, HeapType(s), NEW k \in Int, NEW t, t = Credit(s, k)
  PROVE  Credited(s, k, t)
<1>1. HeapType(t) /\ t.item = s.item /\ t.avail = U32(s.avail + k)
  BY CreditLemma
<1>2. /\ Blocks(t) = Blocks(s)
      /\ \A x : item_next(t, x) = item_next(s, x) /\ ITEM_IS_FREE(t, x) = ITEM_IS_FREE(s, x)
  BY <1>1 DEF Blocks, item_next, ITEM_IS_FREE
<1>3. Physical(t) = Physical(s)
  BY <1>1, <1>2 DEF Physical
<1>4. \A S : /\ FreeRing(t, S) = FreeRing(s, S) /\ Count(t, S) = Count(s, S)
             /\ NoNeighbours(t, S) = NoNeighbours(s, S)
  BY <1>1, <1>2 DEF FreeRing, RingAt, Count, BytesOf, NoNeighbours
<1> QED
  BY <1>1, <1>2, <1>3, <1>4 DEF Credited, Listed

\* A change of the free list leaves the blocks in order.
LEMMA SamePhysical ==
  ASSUME NEW s, Physical(s), NEW t, SameBlocks(s, t)
  PROVE  /\ Physical(t) /\ Blocks(t) = Blocks(s)
         /\ \A x \in DOMAIN s.item : item_next(t, x) = item_next(s, x)
                                     /\ ITEM_IS_FREE(t, x) = ITEM_IS_FREE(s, x)
<1>1. /\ DOMAIN t.item = DOMAIN s.item
      /\ \A x \in DOMAIN s.item : t.item[x].next = s.item[x].next /\ t.item[x].prev = s.item[x].prev
  BY DEF SameBlocks
<1>2. \A x \in DOMAIN s.item : item_next(t, x) = item_next(s, x)
                               /\ ITEM_IS_FREE(t, x) = ITEM_IS_FREE(s, x)
  BY <1>1 DEF item_next, ITEM_IS_FREE
<1>3. /\ {StartItem, EndItem} \subseteq DOMAIN s.item
      /\ ~ITEM_IS_FREE(s, StartItem) /\ ~ITEM_IS_FREE(s, EndItem)
  BY DEF Physical
<1>4. Physical(t)
  BY <1>1, <1>2, <1>3, PhysicalFrame
<1> QED
  BY <1>1, <1>2, <1>4 DEF Blocks

\* A neighbour in address order is no item of the ends, and links agree.
LEMMA Neighbours ==
  ASSUME NEW s, Physical(s), NEW a \in Blocks(s)
  PROVE  /\ a \in DOMAIN s.item /\ a \in Nat
         /\ item_next(s, a) \in DOMAIN s.item \ {a, StartItem}
         /\ s.item[item_next(s, a)].prev = a
         /\ s.item[a].prev \in DOMAIN s.item \ {a, EndItem} /\ item_next(s, s.item[a].prev) = a
<1>1. Header \in Nat \ {0}
  BY HeapAddresses
<1>2. /\ a \in DOMAIN s.item /\ a # StartItem /\ a # EndItem
  BY DEF Blocks
<1>3. /\ item_next(s, a) \in DOMAIN s.item \ {StartItem} /\ item_next(s, a) >= a + Header
      /\ a \in Nat /\ item_next(s, a) \in Nat
      /\ s.item[item_next(s, a)].prev = a
      /\ s.item[a].prev \in DOMAIN s.item \ {EndItem} /\ item_next(s, s.item[a].prev) = a
  BY <1>2 DEF Physical
<1>4. item_next(s, a) # a
  BY <1>1, <1>3
<1> QED
  BY <1>2, <1>3, <1>4

\* The free block n that follows a leaves both lists, and a reaches to its end.
TakenNext(s, S, a, n, t) ==
  /\ Listed(t, S \ {n}) /\ a \in Blocks(t) \ (S \ {n}) /\ Blocks(t) = Blocks(s) \ {n}
  /\ HeapType(t) /\ Physical(t) /\ DOMAIN t.item = DOMAIN s.item \ {n} /\ t.avail = s.avail
  /\ item_next(t, a) = item_next(s, n) /\ item_next(t, a) \notin S
  /\ \A x \in DOMAIN s.item \ {n} : /\ x # a => item_next(t, x) = item_next(s, x)
                                    /\ ITEM_IS_FREE(t, x) = ITEM_IS_FREE(s, x)

\* The first half of joining the block that follows.
LEMMA TakeNext ==
  ASSUME NEW s, NEW S, Listed(s, S), NEW a, a \in Blocks(s) \ S, NEW n, n = item_next(s, a), n \in S,
         NEW t, t = phys_list_remove(free_list_remove(s, n), n)
  PROVE  TakenNext(s, S, a, n, t)
<1> DEFINE D == DOMAIN s.item
           T == S \ {n}
           s1 == free_list_remove(s, n)
<1>1. /\ HeapType(s) /\ Physical(s) /\ S \subseteq Blocks(s) /\ FreeRing(s, S)
      /\ NoNeighbours(s, S) /\ a \in Blocks(s) /\ a \notin S /\ StartItem \notin S
  BY DEF Listed, Blocks
<1>2. /\ a \in D /\ a \in Nat /\ n \in D \ {a, StartItem} /\ s.item[n].prev = a
      /\ n \in Blocks(s)
  BY <1>1, Neighbours
<1>3. s.item[n].next_free \in S \cup {StartItem} /\ s.item[n].prev_free \in S \cup {StartItem}
  BY <1>1, RingClosed
<1>4. S \cup {StartItem} \subseteq D
  BY <1>1 DEF Physical, Blocks
<1>5. /\ SameBlocks(s, s1)
      /\ \A x \in D :
           /\ s1.item[x].next_free = IF x = s.item[n].prev_free THEN s.item[n].next_free
                                     ELSE s.item[x].next_free
           /\ s1.item[x].prev_free = IF x = s.item[n].next_free THEN s.item[n].prev_free
                                     ELSE s.item[x].prev_free
  BY <1>1, <1>2, <1>3, <1>4, UnchainLemma
<1> HIDE DEF s1
<1>6. HeapType(s1) /\ s1.avail = s.avail /\ DOMAIN s1.item = D
      /\ \A x \in D : s1.item[x].prev = s.item[x].prev
  BY <1>5 DEF SameBlocks
<1>7. /\ Physical(s1) /\ Blocks(s1) = Blocks(s)
      /\ \A x \in D : item_next(s1, x) = item_next(s, x)
                      /\ ITEM_IS_FREE(s1, x) = ITEM_IS_FREE(s, x)
  BY <1>1, <1>5, SamePhysical
<1>8. /\ n \in DOMAIN s1.item /\ item_next(s1, n) \in DOMAIN s1.item \ {n, StartItem}
      /\ s1.item[n].prev = a /\ a # n
  BY <1>2, <1>6, <1>7, Neighbours
<1>9. Removed(s1, t, n)
  <2>1. t = phys_list_remove(s1, n)
    BY DEF s1
  <2> QED
    BY <1>2, <1>6, <1>8, <2>1, RemovedLemma
<1>10. Physical(t) /\ Blocks(t) = Blocks(s) \ {n}
  BY <1>1, <1>2, <1>7, <1>8, <1>9, PhysicalRemove
<1>11. /\ HeapType(t) /\ t.avail = s.avail /\ DOMAIN t.item = D \ {n}
       /\ \A x \in D \ {n} :
            /\ item_next(t, x) = IF x = a THEN item_next(s, n) ELSE item_next(s, x)
            /\ ITEM_IS_FREE(t, x) = ITEM_IS_FREE(s, x)
            /\ t.item[x].next_free = s1.item[x].next_free
            /\ t.item[x].prev_free = s1.item[x].prev_free
  BY <1>2, <1>6, <1>7, <1>8, <1>9 DEF Removed
<1>12. FreeRing(t, T)
  <2>1. \A x \in (S \ {n}) \cup {StartItem} :
          /\ t.item[x].next_free = IF x = s.item[n].prev_free THEN s.item[n].next_free
                                   ELSE s.item[x].next_free
          /\ t.item[x].prev_free = IF x = s.item[n].next_free THEN s.item[n].prev_free
                                   ELSE s.item[x].prev_free
    BY <1>2, <1>4, <1>5, <1>11
  <2> QED
    BY <1>1, <2>1, RingOut
<1>13. T \subseteq Blocks(t) /\ a \in Blocks(t) \ T /\ T \subseteq D \ {n}
  BY <1>1, <1>2, <1>4, <1>10
<1>14. NoNeighbours(t, T)
  BY <1>1, <1>11, <1>13 DEF NoNeighbours
<1>15. item_next(t, a) = item_next(s, n) /\ item_next(t, a) \notin S
  BY <1>1, <1>2, <1>11 DEF NoNeighbours
<1>16. Listed(t, T)
  BY <1>10, <1>11, <1>12, <1>13, <1>14 DEF Listed
<1> QED
  BY <1>10, <1>11, <1>13, <1>15, <1>16 DEF TakenNext

\* Joining what follows a block that is being freed.
LEMMA MergeNextLemma ==
  ASSUME NEW u \in Int, NEW s, NEW S, NEW a, Pending(s, S, a, u), NEW T, T = S \ {item_next(s, a)},
         NEW t, t = MergeNext(s, a)
  PROVE  /\ Pending(t, T, a, u) /\ item_next(t, a) \notin T
         /\ Blocks(t) \ T = Blocks(s) \ S /\ Stay(s, t, (Blocks(s) \ S) \ {a})
<1> DEFINE D == DOMAIN s.item
           n == item_next(s, a)
<1>1. /\ HeapType(s) /\ Physical(s) /\ S \subseteq Blocks(s) /\ FreeRing(s, S)
      /\ NoNeighbours(s, S) /\ a \in Blocks(s) /\ a \notin S
      /\ \A x \in Blocks(s) \ {a} : ITEM_IS_FREE(s, x) <=> x \in S
      /\ s.avail = Owed(Count(s, S \cup {a}), u)
      /\ StartItem \notin S /\ Header \in Int
  <2>1. Header \in Int
    BY HeapAddresses
  <2> QED
    BY <2>1 DEF Pending, Listed, Blocks
<1>2. /\ a \in D /\ a \in Nat /\ n \in D \ {a, StartItem} /\ s.item[n].prev = a
  BY <1>1, Neighbours
<1>3. CASE n \notin S
  <2>1. ~ITEM_IS_FREE(s, n)
    <3>1. CASE n = EndItem
      BY <1>1, <3>1 DEF Physical
    <3>2. CASE n # EndItem
      <4>1. n \in Blocks(s) \ {a}
        BY <1>2, <3>2 DEF Blocks
      <4> QED
        BY <1>1, <1>3, <4>1
    <3> QED
      BY <3>1, <3>2
  <2>2. t = s /\ T = S
    BY <1>3, <2>1 DEF MergeNext
  <2>3. Stay(s, s, (Blocks(s) \ S) \ {a})
    BY DEF Stay
  <2> QED
    BY <1>3, <2>2, <2>3
<1>4. CASE n \in S
  <2> DEFINE s2 == phys_list_remove(free_list_remove(s, n), n)
  <2>1. ITEM_IS_FREE(s, n) /\ n \in Blocks(s)
    BY <1>1, <1>2, <1>4
  <2>2. t = Credit(s2, Header)
    BY <2>1 DEF MergeNext
  <2>3. TakenNext(s, S, a, n, s2)
    <3>1. Listed(s, S)
      BY DEF Pending
    <3> HIDE DEF s2, n
    <3>2. n = item_next(s, a) /\ s2 = phys_list_remove(free_list_remove(s, n), n)
      BY DEF n, s2
    <3> QED
      BY <1>1, <1>4, <3>1, <3>2, TakeNext
  <2> HIDE DEF s2
  <2>10. Physical(s2) /\ Blocks(s2) = Blocks(s) \ {n}
    BY <2>3 DEF TakenNext
  <2>11. /\ HeapType(s2) /\ s2.avail = s.avail
         /\ \A x \in D \ {n} :
              /\ x # a => item_next(s2, x) = item_next(s, x)
              /\ ITEM_IS_FREE(s2, x) = ITEM_IS_FREE(s, x)
    BY <2>3 DEF TakenNext
  <2>13. T \subseteq Blocks(s2) /\ a \in Blocks(s2) \ T /\ T \subseteq (D \ {n}) \ {a}
    BY <1>1, <2>3 DEF TakenNext, Blocks
  <2>15. item_next(s2, a) = item_next(s, n) /\ item_next(s2, a) \notin T
    BY <2>3 DEF TakenNext
  <2>16. \A x \in Blocks(s2) \ {a} : ITEM_IS_FREE(s2, x) <=> x \in T
    BY <1>1, <2>10, <2>11 DEF Blocks
  <2>17. Count(s2, T \cup {a}) = Count(s, S \cup {a}) + Header
    <3>1. Count(s, S \cup {a}) = Count(s, S) + (n - a - Header)
      <4>1. S \cup {a} \subseteq Blocks(s) /\ (S \cup {a}) \ {a} = S
        BY <1>1
      <4> QED
        BY <1>1, <4>1, CountOne
    <3>2. Count(s, S) = Count(s, T) + (item_next(s, n) - n - Header)
      BY <1>1, <1>4, CountOne
    <3>3. Count(s2, T \cup {a}) = Count(s2, T) + (item_next(s, n) - a - Header)
      <4>1. T \cup {a} \subseteq Blocks(s2) /\ (T \cup {a}) \ {a} = T
        BY <2>13
      <4> QED
        BY <2>10, <2>15, <4>1, CountOne
    <3>4. Count(s2, T) = Count(s, T)
      <4>1. \A x \in T : item_next(s2, x) = item_next(s, x)
        BY <2>11, <2>13
      <4> QED
        BY <4>1, CountSame
    <3>5. Count(s, T) \in Int
      <4>1. T \subseteq Blocks(s)
        BY <1>1
      <4> QED
        BY <1>1, <4>1, CountType
    <3>6. n \in Int /\ item_next(s, n) \in Int
      BY <1>1, <1>2, <2>1, DataSize
    <3> QED
      BY <1>1, <1>2, <3>1, <3>2, <3>3, <3>4, <3>5, <3>6
  <2>19. /\ HeapType(t) /\ t.avail = U32(s2.avail + Header) /\ Blocks(t) = Blocks(s2)
         /\ \A x : item_next(t, x) = item_next(s2, x) /\ ITEM_IS_FREE(t, x) = ITEM_IS_FREE(s2, x)
         /\ Listed(t, T) = Listed(s2, T) /\ Count(t, T \cup {a}) = Count(s2, T \cup {a})
    BY <1>1, <2>2, <2>11, CreditKeeps DEF Credited
  <2>20. t.avail = Owed(Count(t, T \cup {a}), u)
    <3>1. Count(s, S \cup {a}) \in Int
      <4>1. S \cup {a} \subseteq Blocks(s)
        BY <1>1
      <4> QED
        BY <1>1, <4>1, CountType
    <3>2. U32(Owed(Count(s, S \cup {a}), u) + Header) = Owed(Count(s, S \cup {a}) + Header, u)
      BY <1>1, <3>1, OwedPlus
    <3> QED
      BY <1>1, <2>11, <2>17, <2>19, <3>2
  <2>21. Listed(s2, T)
    BY <2>3 DEF TakenNext
  <2>22. Pending(t, T, a, u)
    BY <2>13, <2>16, <2>19, <2>20, <2>21 DEF Pending
  <2>23. Blocks(t) \ T = Blocks(s) \ S
    BY <1>4, <2>10, <2>19
  <2>24. Stay(s, t, (Blocks(s) \ S) \ {a})
    BY <1>4, <2>10, <2>11, <2>19 DEF Stay, Blocks
  <2> QED
    BY <2>15, <2>19, <2>22, <2>23, <2>24
<1> QED
  BY <1>3, <1>4

\* Setting and clearing marks leaves both lists.
LEMMA ListedFrame ==
  ASSUME NEW s, NEW S, Listed(s, S), NEW t, HeapType(t), DOMAIN t.item = DOMAIN s.item,
         \A x \in DOMAIN s.item :
           /\ item_next(t, x) = item_next(s, x) /\ t.item[x].prev = s.item[x].prev
           /\ x \in S \cup {StartItem} => /\ t.item[x].next_free = s.item[x].next_free
                                          /\ t.item[x].prev_free = s.item[x].prev_free,
         ~ITEM_IS_FREE(t, StartItem), ~ITEM_IS_FREE(t, EndItem)
  PROVE  /\ Listed(t, S) /\ Blocks(t) = Blocks(s)
         /\ \A X : X \subseteq Blocks(s) => Count(t, X) = Count(s, X)
<1>1. /\ Physical(s) /\ S \subseteq Blocks(s) /\ FreeRing(s, S) /\ NoNeighbours(s, S)
  BY DEF Listed
<1>2. S \cup {StartItem} \subseteq DOMAIN s.item
  BY <1>1 DEF Physical, Blocks
<1>3. Physical(t)
  BY <1>1, PhysicalFrame
<1>4. FreeRing(t, S)
  BY <1>1, <1>2, RingFrame
<1>5. NoNeighbours(t, S)
  BY <1>1, <1>2 DEF NoNeighbours
<1>6. ASSUME NEW X, X \subseteq Blocks(s) PROVE Count(t, X) = Count(s, X)
  <2>1. \A x \in X : item_next(t, x) = item_next(s, x)
    BY <1>6 DEF Blocks
  <2> QED
    BY <2>1, CountSame
<1>7. Blocks(t) = Blocks(s)
  BY DEF Blocks
<1> QED
  BY <1>1, <1>3, <1>4, <1>5, <1>6, <1>7 DEF Listed

\* A block that is freed joins the one before it, or goes on the free list.
LEMMA MergePrevLemma ==
  ASSUME NEW u \in Int, NEW s, NEW S, NEW a, Pending(s, S, a, u), item_next(s, a) \notin S,
         NEW t, t = MergePrev(s, a)
  PROVE  \E T : Sound(t, T, u) /\ Blocks(t) \ T = (Blocks(s) \ S) \ {a}
                /\ Stay(s, t, (Blocks(s) \ S) \ {a})
<1> DEFINE D == DOMAIN s.item
           n == item_next(s, a)
           p == s.item[a].prev
<1>1. /\ HeapType(s) /\ Physical(s) /\ S \subseteq Blocks(s) /\ FreeRing(s, S)
      /\ NoNeighbours(s, S) /\ a \in Blocks(s) /\ a \notin S /\ Listed(s, S)
      /\ \A x \in Blocks(s) \ {a} : ITEM_IS_FREE(s, x) <=> x \in S
      /\ s.avail = Owed(Count(s, S \cup {a}), u)
      /\ StartItem \notin S /\ Header \in Int
  <2>1. Header \in Int
    BY HeapAddresses
  <2> QED
    BY <2>1 DEF Pending, Listed, Blocks
<1>2. /\ a \in D /\ a \in Nat /\ n \in D \ {a, StartItem} /\ s.item[n].prev = a
      /\ p \in D \ {a, EndItem} /\ item_next(s, p) = a
  BY <1>1, Neighbours
<1>3. /\ StartItem \in D /\ EndItem \in D /\ ~ITEM_IS_FREE(s, StartItem) /\ ~ITEM_IS_FREE(s, EndItem)
      /\ S \cup {StartItem} \subseteq D /\ a # StartItem /\ a # EndItem /\ StartItem \in Nat
  BY <1>1, HeapAddresses DEF Physical, Blocks
<1>4. Count(s, S \cup {a}) = Count(s, S) + (n - a - Header) /\ Count(s, S) \in Int
      /\ Count(s, S \cup {a}) \in Int
  <2>1. S \cup {a} \subseteq Blocks(s) /\ (S \cup {a}) \ {a} = S
    BY <1>1
  <2> QED
    BY <1>1, <2>1, CountOne, CountType
<1>5. CASE p \in S
  <2> DEFINE s1 == phys_list_remove(s, a)
             s2 == Credit(s1, Header)
  <2>1. ITEM_IS_FREE(s, p) /\ p \in Blocks(s)
    BY <1>1, <1>2, <1>5
  <2>2. t = ITEM_SET_FREE(s2, p)
    BY <2>1 DEF MergePrev
  <2>3. Removed(s, s1, a)
    BY <1>1, <1>2, RemovedLemma
  <2> HIDE DEF s1
  <2>4. Physical(s1) /\ Blocks(s1) = Blocks(s) \ {a}
    BY <1>1, <2>1, <2>3, PhysicalRemove
  <2>5. /\ HeapType(s1) /\ s1.avail = s.avail /\ DOMAIN s1.item = D \ {a}
        /\ \A x \in D \ {a} :
             /\ item_next(s1, x) = IF x = p THEN n ELSE item_next(s, x)
             /\ ITEM_IS_FREE(s1, x) = ITEM_IS_FREE(s, x)
             /\ s1.item[x].next_free = s.item[x].next_free
             /\ s1.item[x].prev_free = s.item[x].prev_free
    BY <2>3 DEF Removed
  <2>6. S \subseteq Blocks(s1) /\ S \cup {StartItem} \subseteq D \ {a}
    BY <1>1, <1>3, <2>4
  <2>7. FreeRing(s1, S)
    BY <1>1, <2>5, <2>6, RingFrame
  <2>8. NoNeighbours(s1, S)
    BY <1>1, <2>5, <2>6 DEF NoNeighbours
  <2>9. Listed(s1, S)
    BY <2>4, <2>5, <2>6, <2>7, <2>8 DEF Listed
  <2>10. Count(s1, S) = Count(s, S \cup {a}) + Header
    <3>1. Count(s, S) = Count(s, S \ {p}) + (a - p - Header)
      BY <1>1, <1>2, <1>5, CountOne
    <3>2. Count(s1, S) = Count(s1, S \ {p}) + (n - p - Header)
      <4>1. item_next(s1, p) = n
        BY <1>2, <2>5
      <4> QED
        BY <1>5, <2>4, <2>6, <4>1, CountOne
    <3>3. Count(s1, S \ {p}) = Count(s, S \ {p})
      <4>1. \A x \in S \ {p} : item_next(s1, x) = item_next(s, x)
        BY <2>5, <2>6
      <4> QED
        BY <4>1, CountSame
    <3>4. Count(s, S \ {p}) \in Int
      <4>1. S \ {p} \subseteq Blocks(s)
        BY <1>1
      <4> QED
        BY <1>1, <4>1, CountType
    <3>5. n \in Int /\ p \in Int
      BY <1>1, <2>1, DataSize
    <3> QED
      BY <1>1, <1>2, <1>4, <3>1, <3>2, <3>3, <3>4, <3>5
  <2>11. /\ HeapType(s2) /\ s2.item = s1.item /\ s2.avail = U32(s1.avail + Header)
         /\ Blocks(s2) = Blocks(s1)
         /\ \A x : item_next(s2, x) = item_next(s1, x) /\ ITEM_IS_FREE(s2, x) = ITEM_IS_FREE(s1, x)
         /\ Listed(s2, S) /\ \A X : Count(s2, X) = Count(s1, X)
    BY <1>1, <2>5, <2>9, CreditKeeps DEF Credited
  <2> HIDE DEF s2
  <2>12. /\ HeapType(t) /\ t.avail = s2.avail /\ DOMAIN t.item = DOMAIN s2.item
         /\ ITEM_IS_FREE(t, p)
         /\ \A x \in DOMAIN s2.item :
              /\ item_next(t, x) = item_next(s2, x) /\ t.item[x].prev = s2.item[x].prev
              /\ x # p => ITEM_IS_FREE(t, x) = ITEM_IS_FREE(s2, x)
              /\ t.item[x].next_free = s2.item[x].next_free
              /\ t.item[x].prev_free = s2.item[x].prev_free
    <3>1. p \in DOMAIN s2.item
      BY <1>2, <2>5, <2>11
    <3> QED
      BY <2>2, <2>11, <3>1, SetFreeLemma
  <2>13. DOMAIN s2.item = D \ {a}
    BY <2>5, <2>11
  <2>14. ~ITEM_IS_FREE(t, StartItem) /\ ~ITEM_IS_FREE(t, EndItem)
    <3>1. /\ StartItem \in D \ {a} /\ EndItem \in D \ {a}
          /\ p # StartItem /\ p # EndItem
      BY <1>3, <2>1 DEF Blocks
    <3> QED
      BY <1>3, <2>5, <2>11, <2>12, <2>13, <3>1
  <2>15. Listed(t, S) /\ Blocks(t) = Blocks(s1) /\ Count(t, S) = Count(s1, S)
    BY <2>6, <2>11, <2>12, <2>14, ListedFrame
  <2>16. \A x \in Blocks(t) : ITEM_IS_FREE(t, x) <=> x \in S
    <3> SUFFICES ASSUME NEW x \in Blocks(t) PROVE ITEM_IS_FREE(t, x) <=> x \in S
      OBVIOUS
    <3>1. x \in D \ {a} /\ x \in Blocks(s) \ {a}
      BY <2>4, <2>15 DEF Blocks
    <3> QED
      BY <1>1, <1>5, <2>5, <2>11, <2>12, <2>13, <3>1
  <2>17. t.avail = Owed(Count(t, S), u)
    <3>1. U32(Owed(Count(s, S \cup {a}), u) + Header) = Owed(Count(s, S \cup {a}) + Header, u)
      BY <1>1, <1>4, OwedPlus
    <3> QED
      BY <1>1, <2>5, <2>10, <2>11, <2>12, <2>15, <3>1
  <2>18. Sound(t, S, u)
    BY <2>15, <2>16, <2>17 DEF Sound
  <2>19. Blocks(t) \ S = (Blocks(s) \ S) \ {a}
    BY <2>4, <2>15
  <2>20. Stay(s, t, (Blocks(s) \ S) \ {a})
    BY <1>5, <2>5, <2>11, <2>12, <2>13, <2>19 DEF Stay, Blocks
  <2> QED
    BY <2>18, <2>19, <2>20
<1>6. CASE p \notin S
  <2> DEFINE s1 == free_list_insert_after(s, StartItem, a)
             T == S \cup {a}
  <2>1. ~ITEM_IS_FREE(s, p)
    <3>1. CASE p = StartItem
      BY <1>3, <3>1
    <3>2. CASE p # StartItem
      <4>1. p \in Blocks(s) \ {a}
        BY <1>2, <3>2 DEF Blocks
      <4> QED
        BY <1>1, <1>6, <4>1
    <3> QED
      BY <3>1, <3>2
  <2>2. t = ITEM_SET_FREE(s1, a)
    BY <2>1 DEF MergePrev
  <2>3. s.item[StartItem].next_free \in S \cup {StartItem}
    BY <1>1, RingClosed
  <2>4. /\ SameBlocks(s, s1)
        /\ \A x \in D :
             /\ s1.item[x].next_free = IF x = StartItem THEN a
                                       ELSE IF x = a THEN s.item[StartItem].next_free
                                       ELSE s.item[x].next_free
             /\ s1.item[x].prev_free = IF x = s.item[StartItem].next_free THEN a
                                       ELSE IF x = a THEN StartItem
                                       ELSE s.item[x].prev_free
    <3>1. s.item[StartItem].next_free \in D \ {a}
      BY <1>1, <1>3, <2>3
    <3> QED
      BY <1>1, <1>2, <1>3, <3>1, ChainLemma
  <2> HIDE DEF s1
  <2>5. /\ HeapType(s1) /\ s1.avail = s.avail /\ DOMAIN s1.item = D
    BY <2>4 DEF SameBlocks
  <2>6. /\ Physical(s1) /\ Blocks(s1) = Blocks(s)
        /\ \A x \in D : item_next(s1, x) = item_next(s, x)
                        /\ ITEM_IS_FREE(s1, x) = ITEM_IS_FREE(s, x)
    BY <1>1, <2>4, SamePhysical
  <2>7. FreeRing(s1, T)
    <3>1. s.item[StartItem].next_free # a
      BY <1>1, <1>3, <2>3
    <3>2. s1.item[a].next_free = s.item[StartItem].next_free /\ s1.item[a].prev_free = StartItem
      BY <1>2, <1>3, <2>4, <3>1
    <3>3. \A x \in S \cup {StartItem} :
            /\ s1.item[x].next_free = IF x = StartItem THEN a ELSE s.item[x].next_free
            /\ s1.item[x].prev_free = IF x = s.item[StartItem].next_free THEN a
                                      ELSE s.item[x].prev_free
      BY <1>1, <1>3, <2>4
    <3> QED
      BY <1>1, <1>3, <3>2, <3>3, RingIn
  <2>8. NoNeighbours(s1, T)
    <3>1. n \notin T /\ \A x \in S : item_next(s, x) \notin T
      <4>1. \A x \in S : item_next(s, x) # a
        <5>1. \A x \in S : s.item[item_next(s, x)].prev = x
          BY <1>1, Neighbours
        <5> QED
          BY <1>6, <5>1
      <4> QED
        BY <1>1, <1>2, <4>1 DEF NoNeighbours
    <3> QED
      BY <1>2, <1>3, <2>6, <3>1 DEF NoNeighbours
  <2>9. Listed(s1, T)
    BY <1>1, <2>5, <2>6, <2>7, <2>8 DEF Listed
  <2>10. /\ HeapType(t) /\ t.avail = s1.avail /\ DOMAIN t.item = DOMAIN s1.item
         /\ ITEM_IS_FREE(t, a)
         /\ \A x \in DOMAIN s1.item :
              /\ item_next(t, x) = item_next(s1, x) /\ t.item[x].prev = s1.item[x].prev
              /\ x # a => ITEM_IS_FREE(t, x) = ITEM_IS_FREE(s1, x)
              /\ t.item[x].next_free = s1.item[x].next_free
              /\ t.item[x].prev_free = s1.item[x].prev_free
    BY <1>2, <2>2, <2>5, SetFreeLemma
  <2>11. ~ITEM_IS_FREE(t, StartItem) /\ ~ITEM_IS_FREE(t, EndItem)
    BY <1>3, <2>5, <2>6, <2>10
  <2>12. Listed(t, T) /\ Blocks(t) = Blocks(s1) /\ Count(t, T) = Count(s1, T)
    <3>1. T \subseteq Blocks(s1)
      BY <1>1, <2>6
    <3> QED
      BY <2>9, <2>10, <2>11, <3>1, ListedFrame
  <2>13. Count(s1, T) = Count(s, T)
    <3>1. \A x \in T : item_next(s1, x) = item_next(s, x)
      BY <1>2, <1>3, <2>6
    <3> QED
      BY <3>1, CountSame
  <2>14. \A x \in Blocks(t) : ITEM_IS_FREE(t, x) <=> x \in T
    <3> SUFFICES ASSUME NEW x \in Blocks(t) PROVE ITEM_IS_FREE(t, x) <=> x \in T
      OBVIOUS
    <3>1. x \in D /\ x \in Blocks(s)
      BY <2>6, <2>12 DEF Blocks
    <3> QED
      BY <1>1, <2>5, <2>6, <2>10, <3>1
  <2>15. Sound(t, T, u)
    BY <1>1, <2>5, <2>10, <2>12, <2>13, <2>14 DEF Sound
  <2>16. Blocks(t) \ T = (Blocks(s) \ S) \ {a}
    BY <2>6, <2>12
  <2>17. Stay(s, t, (Blocks(s) \ S) \ {a})
    BY <2>5, <2>6, <2>10, <2>12 DEF Stay, Blocks
  <2> HIDE DEF T
  <2> QED
    BY <2>15, <2>16, <2>17
<1> QED
  BY <1>5, <1>6

\* The heap is sound with block a free, alone or in a larger block.
Freed(s, S, a, t, u) ==
  \E T : /\ Sound(t, T, u) /\ Blocks(t) \ T = (Blocks(s) \ S) \ {a}
         /\ Stay(s, t, (Blocks(s) \ S) \ {a})

\* A block that is used, or was split from one, joins its free neighbours.
LEMMA CoalesceLemma ==
  ASSUME NEW u \in Int, NEW s, NEW S, Listed(s, S), NEW a, a \in Blocks(s) \ S,
         \A x \in Blocks(s) \ {a} : ITEM_IS_FREE(s, x) <=> x \in S,
         s.avail = Owed(Count(s, S), u),
         NEW t, t = memheap_coalesce(s, a)
  PROVE  Freed(s, S, a, t, u)
<1> DEFINE s1 == Credit(s, item_data_size(s, a))
           s2 == MergeNext(s1, a)
           U == S \ {item_next(s1, a)}
<1>1. t = MergePrev(s2, a)
  BY DEF memheap_coalesce
<1>2. HeapType(s) /\ Physical(s) /\ S \subseteq Blocks(s)
  BY DEF Listed
<1>3. item_data_size(s, a) = item_next(s, a) - a - Header /\ item_data_size(s, a) \in Int
  BY <1>2, DataSize
<1>4. /\ HeapType(s1) /\ s1.avail = U32(s.avail + item_data_size(s, a)) /\ Blocks(s1) = Blocks(s)
      /\ \A x : item_next(s1, x) = item_next(s, x) /\ ITEM_IS_FREE(s1, x) = ITEM_IS_FREE(s, x)
      /\ Listed(s1, S) /\ Count(s1, S \cup {a}) = Count(s, S \cup {a})
  BY <1>2, <1>3, CreditKeeps DEF Credited
<1>5. Count(s, S \cup {a}) = Count(s, S) + item_data_size(s, a) /\ Count(s, S) \in Int
  <2>1. S \cup {a} \subseteq Blocks(s) /\ (S \cup {a}) \ {a} = S
    BY <1>2
  <2> QED
    BY <1>2, <1>3, <2>1, CountOne, CountType
<1>6. s1.avail = Owed(Count(s1, S \cup {a}), u)
  <2>1. U32(Owed(Count(s, S), u) + item_data_size(s, a)) = Owed(Count(s, S) + item_data_size(s, a), u)
    BY <1>3, <1>5, OwedPlus
  <2> QED
    BY <1>4, <1>5, <2>1
<1> HIDE DEF s1
<1>7. Pending(s1, S, a, u)
  BY <1>4, <1>6 DEF Pending
<1>8. /\ Pending(s2, U, a, u) /\ item_next(s2, a) \notin U
      /\ Blocks(s2) \ U = Blocks(s1) \ S /\ Stay(s1, s2, (Blocks(s1) \ S) \ {a})
  BY <1>7, MergeNextLemma
<1> HIDE DEF s2, U
<1>9. PICK T : /\ Sound(t, T, u) /\ Blocks(t) \ T = (Blocks(s2) \ U) \ {a}
               /\ Stay(s2, t, (Blocks(s2) \ U) \ {a})
  BY <1>1, <1>8, MergePrevLemma
<1>10. Stay(s, t, (Blocks(s) \ S) \ {a})
  BY <1>4, <1>8, <1>9 DEF Stay
<1>11. Blocks(t) \ T = (Blocks(s) \ S) \ {a}
  BY <1>4, <1>8, <1>9
<1> QED
  BY <1>9, <1>10, <1>11 DEF Freed

-----------------------------------------------------------------------------
(* Splitting and allocating *)

\* Cutting block a at n, with room for a header on both sides, gives one more block.
LEMMA CutInTwo ==
  ASSUME NEW s, HeapType(s), Physical(s), NEW a \in Blocks(s), NEW n \in Nat, n % 2 = 0,
         a + Header <= n, n + Header <= item_next(s, a), n < StartItem,
         NEW t, t = phys_list_insert_after(s, a, n)
  PROVE  /\ n \notin DOMAIN s.item /\ HeapType(t) /\ Physical(t) /\ Blocks(t) = Blocks(s) \cup {n}
         /\ t.avail = s.avail /\ DOMAIN t.item = DOMAIN s.item \cup {n}
         /\ item_next(t, n) = item_next(s, a) /\ ITEM_IS_FREE(t, n)
         /\ \A x \in DOMAIN s.item :
              /\ item_next(t, x) = IF x = a THEN n ELSE item_next(s, x)
              /\ ITEM_IS_FREE(t, x) = ITEM_IS_FREE(s, x)
              /\ t.item[x].next_free = s.item[x].next_free
              /\ t.item[x].prev_free = s.item[x].prev_free
<1>1. /\ Header \in Nat \ {0} /\ StartItem \in Nat /\ EndItem \in Nat /\ StartItem < EndItem
  BY HeapAddresses
<1>2. /\ a \in DOMAIN s.item /\ a \in Nat /\ item_next(s, a) \in DOMAIN s.item
      /\ item_next(s, a) \in Nat
      /\ \A b \in DOMAIN s.item \ {StartItem} : ~(a < b /\ b < item_next(s, a))
  BY DEF Physical, Blocks
<1>3. n \notin DOMAIN s.item
  <2>1. n # StartItem /\ a < n /\ n < item_next(s, a)
    BY <1>1, <1>2
  <2> QED
    BY <1>2, <2>1
<1>4. Inserted(s, t, a, n)
  BY <1>2, <1>3, InsertedLemma
<1>5. Physical(t) /\ Blocks(t) = Blocks(s) \cup {n}
  BY <1>4, PhysicalInsert
<1>6. /\ HeapType(t) /\ t.avail = s.avail /\ DOMAIN t.item = DOMAIN s.item \cup {n}
      /\ item_next(t, n) = item_next(s, a) /\ ITEM_IS_FREE(t, n)
  BY <1>4 DEF Inserted
<1>7. \A x \in DOMAIN s.item :
        /\ item_next(t, x) = IF x = a THEN n ELSE item_next(s, x)
        /\ ITEM_IS_FREE(t, x) = ITEM_IS_FREE(s, x)
        /\ t.item[x].next_free = s.item[x].next_free
        /\ t.item[x].prev_free = s.item[x].prev_free
  BY <1>4 DEF Inserted
<1> QED
  BY <1>3, <1>5, <1>6, <1>7

\* After Carve the block is used, large enough, and the heap is sound without it.
Carved(s, S, t, a, size, u) ==
  \E T : /\ Sound(t, T, u) /\ Blocks(t) \ T = (Blocks(s) \ S) \cup {a}
         /\ Stay(s, t, Blocks(s) \ S) /\ item_data_size(t, a) >= size
         /\ item_next(t, a) # EndItem

\* Marking block a as used, when it is on no list, is the last step of Carve.
LEMMA UseLemma ==
  ASSUME NEW u \in Int, NEW s, NEW S, Listed(s, S), NEW a, a \in Blocks(s) \ S,
         \A x \in Blocks(s) \ {a} : ITEM_IS_FREE(s, x) <=> x \in S,
         NEW n \in Int, NEW k \in Int, s.avail = Owed(n, u), Count(s, S) = n + k,
         NEW t, t = ITEM_SET_USED(Credit(s, k), a)
  PROVE  /\ Sound(t, S, u) /\ Blocks(t) = Blocks(s)
         /\ \A x \in Blocks(s) : item_next(t, x) = item_next(s, x)
<1> DEFINE c == Credit(s, k)
           D == DOMAIN s.item
<1>1. HeapType(s) /\ Physical(s) /\ S \subseteq Blocks(s)
  BY DEF Listed
<1>2. /\ HeapType(c) /\ c.item = s.item /\ c.avail = U32(s.avail + k) /\ Blocks(c) = Blocks(s)
      /\ \A x : item_next(c, x) = item_next(s, x) /\ ITEM_IS_FREE(c, x) = ITEM_IS_FREE(s, x)
      /\ Listed(c, S) /\ Count(c, S) = Count(s, S)
  <2>1. Credited(s, k, c)
    BY <1>1, CreditKeeps
  <2> HIDE DEF c
  <2> QED
    BY <2>1 DEF Credited
<1>3. a \in D /\ a \in Nat /\ a # StartItem /\ a # EndItem /\ S \subseteq D
  BY <1>1 DEF Physical, Blocks
<1> HIDE DEF c
<1>4. t = ITEM_SET_USED(c, a)
  BY DEF c
<1>5. /\ HeapType(t) /\ t.avail = c.avail /\ DOMAIN t.item = DOMAIN c.item
      /\ ~ITEM_IS_FREE(t, a)
      /\ \A x \in DOMAIN c.item :
           /\ item_next(t, x) = item_next(c, x) /\ t.item[x].prev = c.item[x].prev
           /\ x # a => /\ ITEM_IS_FREE(t, x) = ITEM_IS_FREE(c, x)
                       /\ t.item[x].next_free = c.item[x].next_free
                       /\ t.item[x].prev_free = c.item[x].prev_free
  BY <1>2, <1>3, <1>4, SetUsedLemma
<1>6. ~ITEM_IS_FREE(t, StartItem) /\ ~ITEM_IS_FREE(t, EndItem)
  <2>1. {StartItem, EndItem} \subseteq D /\ ~ITEM_IS_FREE(s, StartItem) /\ ~ITEM_IS_FREE(s, EndItem)
    BY <1>1 DEF Physical
  <2> QED
    BY <1>2, <1>3, <1>5, <2>1
<1>7. Listed(t, S) /\ Blocks(t) = Blocks(c) /\ Count(t, S) = Count(c, S)
  BY <1>2, <1>3, <1>1, <1>5, <1>6, ListedFrame
<1>8. \A x \in Blocks(t) : ITEM_IS_FREE(t, x) <=> x \in S
  <2> SUFFICES ASSUME NEW x \in Blocks(t) PROVE ITEM_IS_FREE(t, x) <=> x \in S
    OBVIOUS
  <2>1. x \in Blocks(s) /\ x \in D
    BY <1>2, <1>7 DEF Blocks
  <2>2. CASE x = a
    BY <1>5, <2>2
  <2>3. CASE x # a
    BY <1>2, <1>5, <2>1, <2>3
  <2> QED
    BY <2>2, <2>3
<1>9. t.avail = Owed(Count(t, S), u)
  <2>1. U32(Owed(n, u) + k) = Owed(n + k, u)
    BY OwedPlus
  <2> QED
    BY <1>2, <1>5, <1>7, <2>1
<1> QED
  BY <1>2, <1>5, <1>7, <1>8, <1>9 DEF Sound, Blocks

\* What is known of the place where a block of the wanted size ends.
EndsAt(a, size, n) ==
  /\ n = item_split_at(a, size) /\ n \in Nat /\ n % 2 = 0 /\ n = a + Header + size
  /\ n + Header <= StartItem /\ size \in Nat /\ size + Header \in Nat
  /\ U32(size + Header) = size + Header

\* Neither the address nor the size wraps below the control block.
LEMMA EndsAtLemma ==
  ASSUME NEW a \in Nat, a % 2 = 0, NEW size \in Nat, size % 2 = 0,
         item_split_at(a, size) + Header <= StartItem
  PROVE  EndsAt(a, size, item_split_at(a, size))
<1> DEFINE n == a + Header + size
<1>1. /\ Header \in Nat \ {0} /\ StartItem \in Nat
      /\ EndItem + Header <= Wrap /\ StartItem + Header = EndItem
      /\ Wrap \in Nat \ {0}
  BY HeapAddresses
<1>2. Header % 2 = 0
  BY HeapAssumption
<1>3. item_split_at(a, size) = n
  BY DEF item_split_at
<1>4. n \in Nat /\ n % 2 = 0 /\ n + Header <= StartItem
  BY <1>1, <1>2, <1>3
<1>5. size + Header \in 0..(Wrap - 1)
  BY <1>1, <1>3
<1>6. U32(size + Header) = size + Header
  <2>1. size + Header \in Int
    BY <1>1
  <2> QED
    BY <1>1, <1>5, <2>1, ModLemma DEF U32
<1> QED
  BY <1>1, <1>3, <1>4, <1>6 DEF EndsAt

\* The tail of block a becomes a free block in its place on the list.
LEMMA CarveSplit ==
  ASSUME NEW u \in Int, NEW s, NEW S, Sound(s, S, u), NEW a \in S, NEW size, NEW n, EndsAt(a, size, n),
         item_data_size(s, a) >= size + Header,
         NEW t, t = ITEM_SET_USED(Credit(free_list_replace(phys_list_insert_after(s, a, n), a, n),
                                         -(size + Header)), a)
  PROVE  Carved(s, S, t, a, size, u)
<1> DEFINE D == DOMAIN s.item
           m == item_next(s, a)
           s1 == phys_list_insert_after(s, a, n)
           s2 == free_list_replace(s1, a, n)
           T == (S \ {a}) \cup {n}
<1>1. /\ HeapType(s) /\ Physical(s) /\ S \subseteq Blocks(s) /\ FreeRing(s, S) /\ NoNeighbours(s, S)
      /\ \A x \in Blocks(s) : ITEM_IS_FREE(s, x) <=> x \in S
      /\ s.avail = Owed(Count(s, S), u) /\ StartItem \notin S /\ a \in Blocks(s)
  BY DEF Sound, Listed, Blocks
<1>2. /\ n \in Nat /\ n % 2 = 0 /\ n = a + Header + size /\ n + Header <= StartItem
      /\ size \in Nat
  BY DEF EndsAt
<1>3. /\ item_data_size(s, a) = m - a - Header /\ item_data_size(s, a) \in Nat /\ a \in Nat
      /\ m \in Nat /\ Header \in Nat \ {0} /\ StartItem \in Nat /\ m \in D
  <2>1. m \in D
    BY <1>1 DEF Physical
  <2> QED
    BY <1>1, <2>1, DataSize, HeapAddresses
<1>4. a + Header <= n /\ n + Header <= m /\ n < StartItem /\ n < m
  BY <1>2, <1>3
<1>5. /\ n \notin D /\ HeapType(s1) /\ Physical(s1) /\ Blocks(s1) = Blocks(s) \cup {n}
      /\ s1.avail = s.avail /\ DOMAIN s1.item = D \cup {n}
      /\ item_next(s1, n) = m /\ ITEM_IS_FREE(s1, n)
      /\ \A x \in D :
           /\ item_next(s1, x) = IF x = a THEN n ELSE item_next(s, x)
           /\ ITEM_IS_FREE(s1, x) = ITEM_IS_FREE(s, x)
           /\ s1.item[x].next_free = s.item[x].next_free
           /\ s1.item[x].prev_free = s.item[x].prev_free
  BY <1>1, <1>2, <1>4, CutInTwo
<1>6. /\ S \cup {StartItem} \subseteq D /\ a \in D /\ a # n /\ n # StartItem /\ n \notin S
      /\ s.item[a].next_free \in S \cup {StartItem} /\ s.item[a].prev_free \in S \cup {StartItem}
  <2>1. S \cup {StartItem} \subseteq D
    BY <1>1 DEF Physical, Blocks
  <2> QED
    BY <1>1, <1>5, <2>1, RingClosed
<1> HIDE DEF s1
<1>7. /\ SameBlocks(s1, s2)
      /\ \A x \in DOMAIN s1.item :
           /\ s2.item[x].next_free = IF x = s1.item[a].prev_free THEN n
                                     ELSE IF x = n THEN s1.item[a].next_free
                                     ELSE s1.item[x].next_free
           /\ s2.item[x].prev_free = IF x = s1.item[a].next_free THEN n
                                     ELSE IF x = n THEN s1.item[a].prev_free
                                     ELSE s1.item[x].prev_free
  <2>1. /\ a \in DOMAIN s1.item /\ n \in DOMAIN s1.item
        /\ s1.item[a].next_free \in DOMAIN s1.item \ {n}
        /\ s1.item[a].prev_free \in DOMAIN s1.item \ {n}
    BY <1>5, <1>6
  <2> QED
    BY <1>2, <1>5, <1>6, <2>1, SwapLemma
<1> HIDE DEF s2
<1>8. /\ HeapType(s2) /\ s2.avail = s.avail /\ DOMAIN s2.item = D \cup {n}
  BY <1>5, <1>7 DEF SameBlocks
<1>9. /\ Physical(s2) /\ Blocks(s2) = Blocks(s) \cup {n}
      /\ \A x \in D \cup {n} : item_next(s2, x) = item_next(s1, x)
                               /\ ITEM_IS_FREE(s2, x) = ITEM_IS_FREE(s1, x)
  BY <1>5, <1>7, SamePhysical
<1>10. FreeRing(s2, T)
  <2>1. s2.item[n].next_free = s.item[a].next_free /\ s2.item[n].prev_free = s.item[a].prev_free
    BY <1>5, <1>6, <1>7
  <2>2. \A x \in (S \ {a}) \cup {StartItem} :
          /\ s2.item[x].next_free = IF x = s.item[a].prev_free THEN n ELSE s.item[x].next_free
          /\ s2.item[x].prev_free = IF x = s.item[a].next_free THEN n ELSE s.item[x].prev_free
    BY <1>5, <1>6, <1>7
  <2> QED
    BY <1>1, <1>6, <2>1, <2>2, RingSwap
<1>11. /\ \A x \in S \ {a} : item_next(s2, x) = item_next(s, x)
       /\ item_next(s2, n) = m /\ item_next(s2, a) = n
  BY <1>5, <1>6, <1>9
<1>12. NoNeighbours(s2, T)
  <2>1. m \notin T
    BY <1>1, <1>3, <1>5 DEF NoNeighbours
  <2>2. \A x \in S : item_next(s, x) \notin T
    <3>1. \A x \in S : item_next(s, x) \in D
      BY <1>1 DEF Physical, Blocks
    <3> QED
      BY <1>1, <1>5, <3>1 DEF NoNeighbours
  <2> QED
    BY <1>11, <2>1, <2>2 DEF NoNeighbours
<1>13. T \subseteq Blocks(s2) /\ a \in Blocks(s2) \ T
  BY <1>1, <1>6, <1>9
<1>14. Listed(s2, T)
  BY <1>8, <1>9, <1>10, <1>12, <1>13 DEF Listed
<1>15. \A x \in Blocks(s2) \ {a} : ITEM_IS_FREE(s2, x) <=> x \in T
  <2> SUFFICES ASSUME NEW x \in Blocks(s2) \ {a} PROVE ITEM_IS_FREE(s2, x) <=> x \in T
    OBVIOUS
  <2>1. CASE x = n
    BY <1>5, <1>9, <2>1
  <2>2. CASE x # n
    <3>1. x \in Blocks(s) /\ x \in D
      BY <1>9, <2>2 DEF Blocks
    <3> QED
      BY <1>1, <1>5, <1>9, <2>2, <3>1
  <2> QED
    BY <2>1, <2>2
<1>16. Count(s2, T) = Count(s, S) + (-(size + Header)) /\ Count(s, S) \in Int
  <2>1. Count(s, S) = Count(s, S \ {a}) + (m - a - Header)
    BY <1>1, CountOne
  <2>2. Count(s2, T) = Count(s2, S \ {a}) + (m - n - Header)
    <3>1. T \ {n} = S \ {a}
      BY <1>6
    <3>2. n \in T
      OBVIOUS
    <3> HIDE DEF T
    <3> QED
      BY <1>9, <1>11, <1>13, <3>1, <3>2, CountOne
  <2>3. Count(s2, S \ {a}) = Count(s, S \ {a})
    BY <1>11, CountSame
  <2>4. Count(s, S \ {a}) \in Int /\ Count(s, S) \in Int
    <3>1. S \ {a} \subseteq Blocks(s)
      BY <1>1
    <3> QED
      BY <1>1, <3>1, CountType
  <2> QED
    BY <1>2, <1>3, <2>1, <2>2, <2>3, <2>4
<1>17. /\ Sound(t, T, u) /\ Blocks(t) = Blocks(s2)
       /\ \A x \in Blocks(s2) : item_next(t, x) = item_next(s2, x)
  <2>1. -(size + Header) \in Int
    BY <1>2, <1>3
  <2>2. t = ITEM_SET_USED(Credit(s2, -(size + Header)), a)
    BY DEF s1, s2
  <2>3. s2.avail = Owed(Count(s, S), u)
    BY <1>1, <1>8
  <2> HIDE DEF T
  <2> QED
    BY <1>13, <1>14, <1>15, <1>16, <2>1, <2>2, <2>3, UseLemma
<1>18. Blocks(t) \ T = (Blocks(s) \ S) \cup {a}
  <2>1. n \notin Blocks(s)
    BY <1>5 DEF Blocks
  <2> QED
    BY <1>1, <1>6, <1>9, <1>17, <2>1
<1>19. Stay(s, t, Blocks(s) \ S)
  <2>1. ASSUME NEW x \in Blocks(s) \ S PROVE x \in Blocks(t) /\ item_next(t, x) = item_next(s, x)
    <3>1. x \in D /\ x # a /\ x \in Blocks(s2)
      BY <1>9 DEF Blocks
    <3> QED
      BY <1>5, <1>9, <1>17, <3>1
  <2> QED
    BY <2>1 DEF Stay
<1>20. item_data_size(t, a) >= size /\ item_next(t, a) # EndItem
  <2>1. Physical(t) /\ a \in Blocks(t)
    BY <1>13, <1>17 DEF Sound, Listed
  <2>2. item_data_size(t, a) = n - a - Header /\ item_next(t, a) = n
    BY <1>11, <1>13, <1>17, <2>1, DataSize
  <2>3. n # EndItem
    BY <1>2, <1>3, HeapAddresses
  <2> QED
    BY <1>2, <1>3, <2>2, <2>3
<1> HIDE DEF T
<1> QED
  BY <1>17, <1>18, <1>19, <1>20 DEF Carved

\* The whole block leaves the free list.
LEMMA CarveWhole ==
  ASSUME NEW u \in Int, NEW s, NEW S, Sound(s, S, u), NEW a \in S,
         NEW size \in Nat, item_data_size(s, a) >= size,
         item_next(s, a) # EndItem,
         NEW t, t = ITEM_SET_USED(Credit(free_list_remove(s, a), -item_data_size(s, a)), a)
  PROVE  Carved(s, S, t, a, size, u)
<1> DEFINE D == DOMAIN s.item
           m == item_next(s, a)
           s1 == free_list_remove(s, a)
           T == S \ {a}
<1>1. /\ HeapType(s) /\ Physical(s) /\ S \subseteq Blocks(s) /\ FreeRing(s, S) /\ NoNeighbours(s, S)
      /\ \A x \in Blocks(s) : ITEM_IS_FREE(s, x) <=> x \in S
      /\ s.avail = Owed(Count(s, S), u) /\ StartItem \notin S /\ a \in Blocks(s)
  BY DEF Sound, Listed, Blocks
<1>2. /\ item_data_size(s, a) = m - a - Header /\ item_data_size(s, a) \in Nat
  BY <1>1, DataSize
<1>3. /\ S \cup {StartItem} \subseteq D /\ a \in D
      /\ s.item[a].next_free \in S \cup {StartItem} /\ s.item[a].prev_free \in S \cup {StartItem}
  <2>1. S \cup {StartItem} \subseteq D
    BY <1>1 DEF Physical, Blocks
  <2> QED
    BY <1>1, <2>1, RingClosed
<1>4. /\ SameBlocks(s, s1)
      /\ \A x \in D :
           /\ s1.item[x].next_free = IF x = s.item[a].prev_free THEN s.item[a].next_free
                                     ELSE s.item[x].next_free
           /\ s1.item[x].prev_free = IF x = s.item[a].next_free THEN s.item[a].prev_free
                                     ELSE s.item[x].prev_free
  <2>1. s.item[a].next_free \in D /\ s.item[a].prev_free \in D
    BY <1>3
  <2> QED
    BY <1>1, <1>3, <2>1, UnchainLemma
<1> HIDE DEF s1
<1>5. HeapType(s1) /\ s1.avail = s.avail
  BY <1>4 DEF SameBlocks
<1>6. /\ Physical(s1) /\ Blocks(s1) = Blocks(s)
      /\ \A x \in D : item_next(s1, x) = item_next(s, x)
                      /\ ITEM_IS_FREE(s1, x) = ITEM_IS_FREE(s, x)
  BY <1>1, <1>4, SamePhysical
<1>7. FreeRing(s1, T)
  <2>1. \A x \in (S \ {a}) \cup {StartItem} :
          /\ s1.item[x].next_free = IF x = s.item[a].prev_free THEN s.item[a].next_free
                                    ELSE s.item[x].next_free
          /\ s1.item[x].prev_free = IF x = s.item[a].next_free THEN s.item[a].prev_free
                                    ELSE s.item[x].prev_free
    BY <1>3, <1>4
  <2> QED
    BY <1>1, <2>1, RingOut
<1>8. NoNeighbours(s1, T)
  BY <1>1, <1>3, <1>6 DEF NoNeighbours
<1>9. Listed(s1, T) /\ a \in Blocks(s1) \ T
  BY <1>1, <1>5, <1>6, <1>7, <1>8 DEF Listed
<1>10. \A x \in Blocks(s1) \ {a} : ITEM_IS_FREE(s1, x) <=> x \in T
  BY <1>1, <1>6 DEF Blocks
<1>11. Count(s1, T) = Count(s, S) + (-item_data_size(s, a)) /\ Count(s, S) \in Int
  <2>1. Count(s, S) = Count(s, S \ {a}) + item_data_size(s, a)
    BY <1>1, <1>2, CountOne
  <2>2. \A x \in T : item_next(s1, x) = item_next(s, x)
    BY <1>3, <1>6
  <2>3. Count(s1, T) = Count(s, T)
    BY <2>2, CountSame
  <2>4. T \subseteq Blocks(s)
    BY <1>1
  <2>5. Count(s, T) \in Int /\ Count(s, S) \in Int
    BY <1>1, <2>4, CountType
  <2> QED
    BY <1>2, <2>1, <2>3, <2>5
<1>12. /\ Sound(t, T, u) /\ Blocks(t) = Blocks(s1)
       /\ \A x \in Blocks(s1) : item_next(t, x) = item_next(s1, x)
  <2>1. -item_data_size(s, a) \in Int
    BY <1>2
  <2>2. t = ITEM_SET_USED(Credit(s1, -item_data_size(s, a)), a)
    BY DEF s1
  <2>3. s1.avail = Owed(Count(s, S), u)
    BY <1>1, <1>5
  <2> HIDE DEF T
  <2> QED
    BY <1>9, <1>10, <1>11, <2>1, <2>2, <2>3, UseLemma
<1>13. Blocks(t) \ T = (Blocks(s) \ S) \cup {a}
  BY <1>1, <1>6, <1>12
<1>14. \A x \in Blocks(s) : item_next(t, x) = item_next(s, x)
  BY <1>6, <1>12 DEF Blocks
<1>15. Stay(s, t, Blocks(s) \ S)
  BY <1>6, <1>12, <1>14 DEF Stay
<1>16. item_data_size(t, a) = item_data_size(s, a) /\ item_next(t, a) # EndItem
  BY <1>1, <1>14 DEF item_data_size
<1> HIDE DEF T
<1> QED
  BY <1>12, <1>13, <1>15, <1>16 DEF Carved

\* Either way of _memheap_alloc with an item that is large enough.
LEMMA CarveLemma ==
  ASSUME NEW u \in Int, NEW s, NEW S, Sound(s, S, u), NEW a \in S, NEW size \in Nat, size % 2 = 0,
         item_split_at(a, size) + Header <= StartItem, item_data_size(s, a) >= size
  PROVE  Carved(s, S, Carve(s, a, size), a, size, u)
<1> DEFINE n == item_split_at(a, size)
<1>1. a \in Nat /\ a % 2 = 0 /\ Physical(s) /\ a \in Blocks(s)
  BY DEF Sound, Listed, Physical, Blocks
<1>2. EndsAt(a, size, n)
  BY <1>1, EndsAtLemma
<1>3. U32(size + Header) = size + Header
  BY <1>2 DEF EndsAt
<1> HIDE DEF n
<1>4. Carve(s, a, size) =
        IF item_data_size(s, a) >= size + Header
        THEN ITEM_SET_USED(Credit(free_list_replace(phys_list_insert_after(s, a, n), a, n),
                                  -(size + Header)), a)
        ELSE ITEM_SET_USED(Credit(free_list_remove(s, a), -item_data_size(s, a)), a)
  BY <1>3 DEF Carve, n
<1>5. CASE item_data_size(s, a) >= size + Header
  BY <1>2, <1>4, <1>5, CarveSplit
<1>6. CASE ~(item_data_size(s, a) >= size + Header)
  <2>1. /\ item_data_size(s, a) = item_next(s, a) - a - Header
        /\ item_next(s, a) \in Nat /\ Header \in Nat \ {0}
        /\ StartItem \in Nat /\ StartItem + Header = EndItem
    BY <1>1, DataSize, HeapAddresses
  <2>2. n = a + Header + size /\ n + Header <= StartItem
    BY <1>2 DEF EndsAt
  <2>3. item_next(s, a) # EndItem
    BY <1>1, <1>6, <2>1, <2>2
  <2> QED
    BY <1>4, <1>6, <2>3, CarveWhole
<1> QED
  BY <1>5, <1>6

-----------------------------------------------------------------------------
(* Resizing *)

\* The last block is free: what is used ends before the sentinel.
LastFree(s, S) == \A x \in Blocks(s) \ S : item_next(s, x) # EndItem

\* Block a has room for size, and no other used block has changed.
Resized(s, S, t, a, size, u) ==
  \E T : /\ Sound(t, T, u) /\ Blocks(t) \ T = Blocks(s) \ S
         /\ Stay(s, t, (Blocks(s) \ S) \ {a}) /\ item_data_size(t, a) >= size
         /\ item_next(t, a) # EndItem

\* The tail of a block is cut off and freed.
LEMMA ShrinkLemma ==
  ASSUME NEW u \in Int, NEW s, NEW S, Sound(s, S, u), LastFree(s, S), NEW a, a \in Blocks(s) \ S,
         NEW size \in Nat, size % 2 = 0, item_data_size(s, a) - size >= Header,
         NEW n, n = item_split_at(a, size),
         NEW t, t = memheap_coalesce(phys_list_insert_after(s, a, n), n)
  PROVE  Resized(s, S, t, a, size, u)
<1> DEFINE D == DOMAIN s.item
           m == item_next(s, a)
           s1 == phys_list_insert_after(s, a, n)
<1>1. /\ HeapType(s) /\ Physical(s) /\ S \subseteq Blocks(s) /\ FreeRing(s, S) /\ NoNeighbours(s, S)
      /\ \A x \in Blocks(s) : ITEM_IS_FREE(s, x) <=> x \in S
      /\ s.avail = Owed(Count(s, S), u) /\ StartItem \notin S /\ a \in Blocks(s)
  BY DEF Sound, Listed, Blocks
<1>2. /\ item_data_size(s, a) = m - a - Header /\ item_data_size(s, a) \in Nat /\ a \in Nat
      /\ m \in Nat /\ Header \in Nat \ {0} /\ StartItem \in Nat /\ a % 2 = 0 /\ m < StartItem
      /\ StartItem + Header = EndItem
  <2>1. m \in Blocks(s) /\ a % 2 = 0
    BY <1>1 DEF Physical, Blocks, LastFree
  <2> QED
    BY <1>1, <2>1, DataSize, HeapAddresses
<1>3. item_split_at(a, size) + Header <= StartItem
  <2> HIDE DEF m
  <2> QED
    BY <1>2 DEF item_split_at
<1>4. EndsAt(a, size, n)
  BY <1>2, <1>3, EndsAtLemma
<1>5. n \in Nat /\ n % 2 = 0 /\ n = a + Header + size
  BY <1>4 DEF EndsAt
<1>6. a + Header <= n /\ n + Header <= m /\ n < StartItem
  BY <1>2, <1>5
<1>7. /\ n \notin D /\ HeapType(s1) /\ Physical(s1) /\ Blocks(s1) = Blocks(s) \cup {n}
      /\ s1.avail = s.avail /\ DOMAIN s1.item = D \cup {n}
      /\ item_next(s1, n) = m /\ ITEM_IS_FREE(s1, n)
      /\ \A x \in D :
           /\ item_next(s1, x) = IF x = a THEN n ELSE item_next(s, x)
           /\ ITEM_IS_FREE(s1, x) = ITEM_IS_FREE(s, x)
           /\ s1.item[x].next_free = s.item[x].next_free
           /\ s1.item[x].prev_free = s.item[x].prev_free
  BY <1>1, <1>5, <1>6, CutInTwo
<1> HIDE DEF s1
<1>8. S \cup {StartItem} \subseteq D /\ a \in D /\ n \notin S /\ n \notin Blocks(s)
  BY <1>1, <1>7 DEF Physical, Blocks
<1>9. FreeRing(s1, S)
  BY <1>1, <1>7, <1>8, RingFrame
<1>10. \A x \in S : item_next(s1, x) = item_next(s, x)
  BY <1>7, <1>8
<1>11. Listed(s1, S)
  BY <1>1, <1>7, <1>9, <1>10 DEF Listed, NoNeighbours
<1>12. \A x \in Blocks(s1) \ {n} : ITEM_IS_FREE(s1, x) <=> x \in S
  BY <1>1, <1>7 DEF Blocks
<1>13. s1.avail = Owed(Count(s1, S), u)
  <2>1. Count(s1, S) = Count(s, S)
    BY <1>10, CountSame
  <2> QED
    BY <1>1, <1>7, <2>1
<1>14. PICK T : /\ Sound(t, T, u) /\ Blocks(t) \ T = (Blocks(s1) \ S) \ {n}
                /\ Stay(s1, t, (Blocks(s1) \ S) \ {n})
  <2>1. n \in Blocks(s1) \ S /\ t = memheap_coalesce(s1, n)
    BY <1>7, <1>8 DEF s1
  <2>2. Freed(s1, S, n, t, u)
    BY <1>11, <1>12, <1>13, <2>1, CoalesceLemma
  <2> QED
    BY <2>2 DEF Freed
<1>15. Blocks(t) \ T = Blocks(s) \ S
  BY <1>7, <1>8, <1>14
<1>16. \A x \in Blocks(s) \ S : x \in Blocks(t) /\ item_next(t, x) = item_next(s1, x)
  BY <1>7, <1>8, <1>14 DEF Stay
<1>17. Stay(s, t, (Blocks(s) \ S) \ {a})
  BY <1>7, <1>16 DEF Stay, Blocks
<1>18. item_data_size(t, a) >= size /\ item_next(t, a) # EndItem
  <2>1. Physical(t) /\ a \in Blocks(t) /\ item_next(t, a) = n
    BY <1>1, <1>7, <1>8, <1>14, <1>16 DEF Sound, Listed
  <2>2. item_data_size(t, a) = n - a - Header
    BY <2>1, DataSize
  <2> QED
    BY <1>2, <1>5, <1>6, <2>1, <2>2
<1> QED
  BY <1>14, <1>15, <1>17, <1>18 DEF Resized

\* The free block that follows gives up its first bytes.
LEMMA GrowLemma ==
  ASSUME NEW u \in Int, NEW s, NEW S, Sound(s, S, u), NEW a, a \in Blocks(s) \ S,
         NEW size \in Nat, size % 2 = 0, size > item_data_size(s, a),
         NEW next, next = item_next(s, a), next \in S,
         NEW n, n = item_split_at(a, size), n + Header <= StartItem,
         item_data_size(s, a) + Header + item_data_size(s, next) >= size + Header,
         NEW t, t = Credit(free_list_insert_after(
                             phys_list_insert_after(
                               phys_list_remove(free_list_remove(s, next), next), a, n),
                             StartItem, n), item_data_size(s, a) - size)
  PROVE  Resized(s, S, t, a, size, u)
<1> DEFINE D == DOMAIN s.item
           m == item_next(s, next)
           s1 == phys_list_remove(free_list_remove(s, next), next)
           s2 == phys_list_insert_after(s1, a, n)
           s3 == free_list_insert_after(s2, StartItem, n)
           R == S \ {next}
           T == R \cup {n}
           k == item_data_size(s, a) - size
<1>1. /\ HeapType(s) /\ Physical(s) /\ S \subseteq Blocks(s) /\ FreeRing(s, S) /\ NoNeighbours(s, S)
      /\ \A x \in Blocks(s) : ITEM_IS_FREE(s, x) <=> x \in S
      /\ s.avail = Owed(Count(s, S), u) /\ StartItem \notin S /\ a \in Blocks(s) /\ next \in Blocks(s)
      /\ Listed(s, S)
  BY DEF Sound, Listed, Blocks
<1>2. /\ item_data_size(s, a) = next - a - Header /\ item_data_size(s, a) \in Nat /\ a \in Nat
      /\ item_data_size(s, next) = m - next - Header /\ item_data_size(s, next) \in Nat
      /\ next \in Nat /\ m \in Nat /\ Header \in Nat \ {0} /\ StartItem \in Nat /\ a % 2 = 0
      /\ StartItem + Header = EndItem
  <2>1. a % 2 = 0
    BY <1>1 DEF Physical, Blocks
  <2> QED
    BY <1>1, <2>1, DataSize, HeapAddresses
<1>4. EndsAt(a, size, n)
  BY <1>2, EndsAtLemma
<1>5. n \in Nat /\ n % 2 = 0 /\ n = a + Header + size
  BY <1>4 DEF EndsAt
<1>6. a + Header <= n /\ n + Header <= m /\ n < StartItem
  BY <1>2, <1>5
<1>7. TakenNext(s, S, a, next, s1)
  BY <1>1, TakeNext
<1> HIDE DEF s1
<1>8. /\ Listed(s1, R) /\ a \in Blocks(s1) /\ a \notin R /\ Blocks(s1) = Blocks(s) \ {next}
      /\ HeapType(s1) /\ Physical(s1) /\ DOMAIN s1.item = D \ {next} /\ s1.avail = s.avail
      /\ item_next(s1, a) = m /\ m \notin S
      /\ \A x \in D \ {next} : /\ x # a => item_next(s1, x) = item_next(s, x)
                               /\ ITEM_IS_FREE(s1, x) = ITEM_IS_FREE(s, x)
  BY <1>7 DEF TakenNext
<1>9. /\ n \notin DOMAIN s1.item /\ HeapType(s2) /\ Physical(s2) /\ Blocks(s2) = Blocks(s1) \cup {n}
      /\ s2.avail = s1.avail /\ DOMAIN s2.item = DOMAIN s1.item \cup {n}
      /\ item_next(s2, n) = m /\ ITEM_IS_FREE(s2, n)
      /\ \A x \in DOMAIN s1.item :
           /\ item_next(s2, x) = IF x = a THEN n ELSE item_next(s1, x)
           /\ ITEM_IS_FREE(s2, x) = ITEM_IS_FREE(s1, x)
           /\ s2.item[x].next_free = s1.item[x].next_free
           /\ s2.item[x].prev_free = s1.item[x].prev_free
  BY <1>5, <1>6, <1>8, CutInTwo
<1> HIDE DEF s2
<1>10. /\ FreeRing(s1, R) /\ NoNeighbours(s1, R) /\ R \subseteq Blocks(s1)
       /\ R \cup {StartItem} \subseteq DOMAIN s1.item /\ StartItem \notin R
       /\ n \notin R /\ n # StartItem /\ n # a
  BY <1>1, <1>8, <1>9 DEF Listed, Physical, Blocks
<1>11. FreeRing(s2, R)
  BY <1>9, <1>10, RingFrame
<1>12. s2.item[StartItem].next_free \in R \cup {StartItem}
  BY <1>10, <1>11, RingClosed
<1>13. /\ SameBlocks(s2, s3)
       /\ \A x \in DOMAIN s2.item :
            /\ s3.item[x].next_free = IF x = StartItem THEN n
                                      ELSE IF x = n THEN s2.item[StartItem].next_free
                                      ELSE s2.item[x].next_free
            /\ s3.item[x].prev_free = IF x = s2.item[StartItem].next_free THEN n
                                      ELSE IF x = n THEN StartItem
                                      ELSE s2.item[x].prev_free
  <2>1. /\ StartItem \in DOMAIN s2.item /\ n \in DOMAIN s2.item
        /\ s2.item[StartItem].next_free \in DOMAIN s2.item \ {n}
    BY <1>9, <1>10, <1>12
  <2> QED
    BY <1>2, <1>5, <1>9, <1>10, <2>1, ChainLemma
<1> HIDE DEF s3
<1>14. HeapType(s3) /\ s3.avail = s.avail
  BY <1>8, <1>9, <1>13 DEF SameBlocks
<1>15. /\ Physical(s3) /\ Blocks(s3) = Blocks(s2)
       /\ \A x \in DOMAIN s2.item : item_next(s3, x) = item_next(s2, x)
                                    /\ ITEM_IS_FREE(s3, x) = ITEM_IS_FREE(s2, x)
  BY <1>9, <1>13, SamePhysical
<1>16. FreeRing(s3, T)
  <2>1. s2.item[StartItem].next_free # n
    BY <1>10, <1>12
  <2>2. s3.item[n].next_free = s2.item[StartItem].next_free /\ s3.item[n].prev_free = StartItem
    BY <1>9, <1>10, <1>13, <2>1
  <2>3. \A x \in R \cup {StartItem} :
          /\ s3.item[x].next_free = IF x = StartItem THEN n ELSE s2.item[x].next_free
          /\ s3.item[x].prev_free = IF x = s2.item[StartItem].next_free THEN n
                                    ELSE s2.item[x].prev_free
    BY <1>9, <1>10, <1>13
  <2>4. StartItem \notin R /\ n \notin R /\ n # StartItem
    BY <1>10
  <2> HIDE DEF R
  <2>5. FreeRing(s3, R \cup {n})
    BY ONLY <1>11, <2>2, <2>3, <2>4, RingIn
  <2> QED
    BY <2>5
<1>17. /\ \A x \in R : item_next(s3, x) = item_next(s, x)
       /\ item_next(s3, n) = m /\ item_next(s3, a) = n
  <2>1. R \subseteq DOMAIN s1.item /\ R \subseteq D \ {next} /\ a \in DOMAIN s1.item /\ a \notin R
    BY <1>8, <1>10 DEF Blocks
  <2> HIDE DEF R
  <2>2. ASSUME NEW x \in R PROVE item_next(s3, x) = item_next(s, x)
    BY <1>8, <1>9, <1>15, <2>1
  <2> QED
    BY <1>9, <1>15, <2>1, <2>2
<1>18. NoNeighbours(s3, T)
  <2>1. m \notin T
    BY <1>2, <1>6, <1>5, <1>8
  <2>2. \A x \in R : item_next(s1, x) \notin T
    <3>1. \A x \in R : item_next(s1, x) \in DOMAIN s1.item
      BY <1>8, <1>10 DEF Physical, Blocks
    <3> QED
      BY <1>9, <1>10, <3>1 DEF NoNeighbours
  <2> QED
    BY <1>8, <1>10, <1>17, <2>1, <2>2 DEF NoNeighbours
<1>19. T \subseteq Blocks(s3) /\ n \in T /\ T \ {n} = R
  BY <1>9, <1>10, <1>15
<1>20. Listed(s3, T)
  BY <1>14, <1>15, <1>16, <1>18, <1>19 DEF Listed
<1>21. \A x \in Blocks(s3) : ITEM_IS_FREE(s3, x) <=> x \in T
  <2> SUFFICES ASSUME NEW x \in Blocks(s3) PROVE ITEM_IS_FREE(s3, x) <=> x \in T
    OBVIOUS
  <2>1. CASE x = n
    BY <1>9, <1>15, <2>1
  <2>2. CASE x # n
    <3>1. x \in Blocks(s) /\ x # next /\ x \in D
      BY <1>8, <1>9, <1>15, <2>2 DEF Blocks
    <3> QED
      BY <1>1, <1>8, <1>9, <1>15, <2>2, <3>1
  <2> QED
    BY <2>1, <2>2
<1>22. Count(s3, T) = Count(s, S) + k /\ Count(s, S) \in Int
  <2>1. Count(s, S) = Count(s, R) + (m - next - Header)
    BY <1>1, CountOne
  <2>2. Count(s3, T) = Count(s3, R) + (m - n - Header)
    <3> HIDE DEF T, R
    <3> QED
      BY <1>15, <1>17, <1>19, CountOne
  <2>3. Count(s3, R) = Count(s, R)
    BY <1>17, CountSame
  <2>4. Count(s, R) \in Int /\ Count(s, S) \in Int
    <3>1. R \subseteq Blocks(s)
      BY <1>1
    <3> QED
      BY <1>1, <3>1, CountType
  <2> HIDE DEF R, T, m
  <2> QED
    BY <1>2, <1>5, <2>1, <2>2, <2>3, <2>4
<1>23. k \in Int /\ t = Credit(s3, k)
  BY <1>2 DEF s1, s2, s3
<1> HIDE DEF T, R, k
<1>24. /\ t.avail = U32(s3.avail + k) /\ Blocks(t) = Blocks(s3)
       /\ \A x : item_next(t, x) = item_next(s3, x) /\ ITEM_IS_FREE(t, x) = ITEM_IS_FREE(s3, x)
       /\ Listed(t, T) /\ Count(t, T) = Count(s3, T) /\ Physical(t)
  <2>1. HeapType(s3)
    BY <1>14, <1>15
  <2>2. Credited(s3, k, t)
    BY ONLY <1>23, <2>1, CreditKeeps
  <2> QED
    BY <1>14, <1>15, <1>20, <2>2 DEF Credited
<1>25. Sound(t, T, u)
  <2>1. U32(Owed(Count(s, S), u) + k) = Owed(Count(s, S) + k, u)
    BY <1>22, <1>23, OwedPlus
  <2> QED
    BY <1>1, <1>14, <1>21, <1>22, <1>24, <2>1 DEF Sound
<1>26. Blocks(t) \ T = Blocks(s) \ S
  <2>1. Blocks(t) = (Blocks(s) \ {next}) \cup {n} /\ n \notin Blocks(s) \ {next}
    BY <1>8, <1>9, <1>15, <1>24 DEF Blocks
  <2> QED
    BY <2>1 DEF T, R
<1>27. Stay(s, t, (Blocks(s) \ S) \ {a})
  <2>1. ASSUME NEW x \in (Blocks(s) \ S) \ {a}
        PROVE  x \in Blocks(t) /\ item_next(t, x) = item_next(s, x)
    <3>1. x \in D \ {next} /\ x \in Blocks(s1)
      BY <1>8 DEF Blocks
    <3> QED
      BY <1>8, <1>9, <1>15, <1>24, <3>1
  <2> QED
    BY <2>1 DEF Stay
<1>28. item_data_size(t, a) >= size /\ item_next(t, a) # EndItem
  <2>1. a \in Blocks(t) /\ item_next(t, a) = n
    BY <1>8, <1>9, <1>15, <1>17, <1>24
  <2>2. item_data_size(t, a) = n - a - Header
    BY <1>24, <2>1, DataSize
  <2> QED
    BY <1>2, <1>5, <1>6, <2>1, <2>2
<1> QED
  BY <1>25, <1>26, <1>27, <1>28 DEF Resized

\* The free block that follows disappears: available_size gets its header and gives up what
\* was asked for, the rest of the block is not charged.
LEMMA SwallowLemma ==
  ASSUME NEW u \in Int, NEW s, NEW S, Sound(s, S, u), NEW a, a \in Blocks(s) \ S,
         NEW size \in Nat, NEW next, next = item_next(s, a), next \in S,
         NEW block, block = item_data_size(s, a), NEW rest, rest = item_data_size(s, next),
         block + Header + rest >= size, item_next(s, next) # EndItem,
         NEW t, t = Credit(Credit(phys_list_remove(free_list_remove(s, next), next), Header),
                           block - size)
  PROVE  Resized(s, S, t, a, size, u + (Header + block + rest - size))
<1> DEFINE D == DOMAIN s.item
           m == item_next(s, next)
           s1 == phys_list_remove(free_list_remove(s, next), next)
           s2 == Credit(s1, Header)
           R == S \ {next}
           k == block - size
           v == u + (Header + block + rest - size)
<1>1. /\ HeapType(s) /\ Physical(s) /\ S \subseteq Blocks(s)
      /\ \A x \in Blocks(s) : ITEM_IS_FREE(s, x) <=> x \in S
      /\ s.avail = Owed(Count(s, S), u) /\ a \in Blocks(s) /\ next \in Blocks(s) /\ Listed(s, S)
  BY DEF Sound, Listed
<1>2. /\ block = next - a - Header /\ block \in Nat /\ a \in Nat
      /\ rest = m - next - Header /\ rest \in Nat /\ next \in Nat /\ m \in Nat /\ Header \in Nat
  BY <1>1, DataSize, HeapAddresses
<1>3. TakenNext(s, S, a, next, s1)
  BY <1>1, TakeNext
<1> HIDE DEF s1
<1>4. /\ Listed(s1, R) /\ a \in Blocks(s1) \ R /\ Blocks(s1) = Blocks(s) \ {next}
      /\ HeapType(s1) /\ Physical(s1) /\ s1.avail = s.avail /\ item_next(s1, a) = m
      /\ \A x \in D \ {next} : /\ x # a => item_next(s1, x) = item_next(s, x)
                               /\ ITEM_IS_FREE(s1, x) = ITEM_IS_FREE(s, x)
  BY <1>3 DEF TakenNext
<1>5. /\ HeapType(s2) /\ s2.avail = U32(s1.avail + Header) /\ Blocks(s2) = Blocks(s1)
      /\ \A x : item_next(s2, x) = item_next(s1, x) /\ ITEM_IS_FREE(s2, x) = ITEM_IS_FREE(s1, x)
      /\ Listed(s2, R) /\ Count(s2, R) = Count(s1, R) /\ Physical(s2)
  <2>1. s2 = Credit(s1, Header) /\ Header \in Int
    BY <1>2
  <2> HIDE DEF s2, R
  <2>2. Credited(s1, Header, s2)
    BY <1>4, <2>1, CreditKeeps
  <2> QED
    BY <1>4, <2>2 DEF Credited
<1>6. k \in Int /\ t = Credit(s2, k) /\ v \in Int
  BY <1>2 DEF s1
<1> HIDE DEF s2
<1>7. /\ t.avail = U32(s2.avail + k) /\ Blocks(t) = Blocks(s1)
      /\ \A x : item_next(t, x) = item_next(s1, x) /\ ITEM_IS_FREE(t, x) = ITEM_IS_FREE(s1, x)
      /\ Listed(t, R) /\ Count(t, R) = Count(s1, R) /\ Physical(t)
  <2> HIDE DEF k, R, v
  <2>1. Credited(s2, k, t)
    BY <1>5, <1>6, CreditKeeps
  <2> QED
    BY <1>5, <2>1 DEF Credited
<1>8. Count(s1, R) = Count(s, S) - rest /\ Count(s, S) \in Int
  <2>1. Count(s, S) = Count(s, R) + (m - next - Header)
    BY <1>1, CountOne
  <2>2. Count(s1, R) = Count(s, R)
    <3>1. \A x \in R : item_next(s1, x) = item_next(s, x)
      BY <1>1, <1>4 DEF Blocks
    <3> QED
      BY <3>1, CountSame
  <2>3. Count(s, R) \in Int /\ Count(s, S) \in Int
    <3>1. R \subseteq Blocks(s)
      BY <1>1
    <3> QED
      BY <1>1, <3>1, CountType
  <2> HIDE DEF R, m
  <2> QED
    BY <1>2, <2>1, <2>2, <2>3
<1> DEFINE c == Count(s, S)
<1>9. t.avail = Owed(c + Header + k, u)
  <2>1. s1.avail = Owed(c, u) /\ c \in Int
    BY <1>1, <1>4, <1>8
  <2> HIDE DEF c, k
  <2>2. s2.avail = Owed(c + Header, u)
    BY <1>2, <1>5, <2>1, OwedPlus
  <2>3. c + Header \in Int
    BY <1>2, <2>1
  <2> QED
    BY <1>6, <1>7, <2>2, <2>3, OwedPlus
<1>10. Owed(c + Header + k, u) = Owed(Count(t, R), v)
  <2>1. Count(t, R) = c - rest /\ c \in Int
    BY <1>7, <1>8
  <2> HIDE DEF c
  <2>2. PICK d \in Int : d = Header + block + rest - size
    BY <1>2
  <2>3. (c - rest) + d = c + Header + k /\ v = u + d /\ c - rest \in Int
    BY <1>2, <2>1, <2>2
  <2> HIDE DEF k, v
  <2> QED
    BY <2>1, <2>3, OwedShift
<1>11. \A x \in Blocks(t) : ITEM_IS_FREE(t, x) <=> x \in R
  BY <1>1, <1>4, <1>7 DEF Blocks
<1>12. Sound(t, R, v)
  BY <1>7, <1>9, <1>10, <1>11 DEF Sound
<1>13. Blocks(t) \ R = Blocks(s) \ S
  BY <1>4, <1>7
<1>14. Stay(s, t, (Blocks(s) \ S) \ {a})
  BY <1>4, <1>7 DEF Stay, Blocks
<1>15. item_data_size(t, a) >= size /\ item_next(t, a) # EndItem
  <2>1. a \in Blocks(t) /\ item_next(t, a) = m
    BY <1>4, <1>7
  <2>2. item_data_size(t, a) = m - a - Header
    BY <1>7, <2>1, DataSize
  <2>3. m # EndItem
    OBVIOUS
  <2> HIDE DEF m
  <2> QED
    BY <1>2, <2>1, <2>2, <2>3
<1> HIDE DEF R, v
<1>16. Resized(s, S, t, a, size, v)
  BY <1>12, <1>13, <1>14, <1>15 DEF Resized
<1> QED
  BY <1>16 DEF v

-----------------------------------------------------------------------------
(* Going along the free list *)

\* The function of the items met is the one its definition asks for.
LEMMA AlongLemma ==
  ASSUME NEW s, IsFiniteSet(DOMAIN s.item)
  PROVE  /\ Along(s)[0] = StartItem /\ DOMAIN Along(s) = 0..Cardinality(DOMAIN s.item)
         /\ Cardinality(DOMAIN s.item) \in Nat
         /\ \A n \in 1..Cardinality(DOMAIN s.item) :
              Along(s)[n] = s.item[Along(s)[n - 1]].next_free
<1> DEFINE M == Cardinality(DOMAIN s.item)
           Follows(f, n) ==
             f = [i \in 0..n |-> IF i = 0 THEN StartItem ELSE s.item[f[i - 1]].next_free]
           S == {n \in 0..M : \E f : Follows(f, n)}
           g == Along(s)
<1>1. M \in Nat
  BY FS_CardinalityType
<1>2. 0 \in S
  <2>1. PICK f : f = [i \in 0..0 |-> StartItem]
    OBVIOUS
  <2>2. Follows(f, 0)
    BY <2>1
  <2> HIDE DEF Follows
  <2> QED
    BY <1>1, <2>2
<1>3. ASSUME NEW n \in 0..M, n < M, n \in S
      PROVE  n + 1 \in S
  <2>1. PICK f : Follows(f, n)
    BY <1>3
  <2>2. /\ f[0] = StartItem
        /\ \A i \in 1..n : f[i] = s.item[f[i - 1]].next_free
    BY <2>1
  <2> DEFINE e == [i \in 0..n + 1 |-> IF i = n + 1 THEN s.item[f[n]].next_free ELSE f[i]]
             d == [i \in 0..n + 1 |-> IF i = 0 THEN StartItem ELSE s.item[e[i - 1]].next_free]
  <2>3. ASSUME NEW i \in 0..n + 1
        PROVE  e[i] = IF i = 0 THEN StartItem ELSE s.item[e[i - 1]].next_free
    <3>1. CASE i = 0
      BY <2>2, <3>1
    <3>2. CASE i = n + 1
      <4>1. i # 0 /\ i - 1 = n /\ e[n] = f[n] /\ e[i] = s.item[f[n]].next_free
        BY <3>2
      <4> HIDE DEF e
      <4> QED
        BY <4>1
    <3>3. CASE i \in 1..n
      <4>1. i # 0 /\ i - 1 \in 0..n /\ e[i] = f[i] /\ e[i - 1] = f[i - 1]
        BY <3>3
      <4> HIDE DEF e
      <4> QED
        BY <2>2, <3>3, <4>1
    <3> QED
      BY <3>1, <3>2, <3>3
  <2>4. e = d
    <3>1. \A i \in 0..n + 1 : e[i] = d[i]
      <4> HIDE DEF e
      <4> QED
        BY <2>3
    <3> HIDE DEF e
    <3>2. e = [i \in 0..n + 1 |-> e[i]]
      BY DEF e
    <3>3. d = [i \in 0..n + 1 |-> d[i]]
      OBVIOUS
    <3> HIDE DEF d
    <3> QED
      BY <3>1, <3>2, <3>3
  <2>5. Follows(e, n + 1)
    <3> HIDE DEF e
    <3> QED
      BY <2>4
  <2>6. n + 1 \in 0..M
    BY <1>1, <1>3
  <2> QED
    BY <2>5, <2>6
<1>4. M \in S
  <2> HIDE DEF S
  <2>1. \A i \in 0..M : i \in S
    <3> HIDE DEF M
    <3> QED
      BY ONLY <1>1, <1>2, <1>3, Climbs
  <2> QED
    BY <1>1, <2>1
<1>5. g = CHOOSE f : Follows(f, M)
  BY DEF Along
<1>6. Follows(g, M)
  <2>1. \E f : Follows(f, M)
    BY <1>4
  <2> HIDE DEF Follows, g
  <2> QED
    BY <1>5, <2>1
<1> HIDE DEF g
<1>7. g[0] = StartItem /\ DOMAIN g = 0..M /\ \A n \in 1..M : g[n] = s.item[g[n - 1]].next_free
  BY <1>1, <1>6
<1> QED
  BY <1>1, <1>7 DEF g

\* The ring of the listed blocks is what is met, once around.
MeetsRing(s, S, c) ==
  /\ RingAt(s, S, Cardinality(S), c) /\ Cardinality(S) \in Nat
  /\ Cardinality(S) + 1 <= Cardinality(DOMAIN s.item)
  /\ \A i \in 0..Cardinality(S) + 1 : Along(s)[i] = c[i]

\* The steps along next_free from start_item come back after one step per listed block.
LEMMA MeetsRingLemma ==
  ASSUME NEW s, NEW S, Listed(s, S)
  PROVE  \E c : MeetsRing(s, S, c)
<1> DEFINE D == DOMAIN s.item
           C == Cardinality(D)
<1>1. /\ Physical(s) /\ S \subseteq D \ {StartItem} /\ FreeRing(s, S) /\ StartItem \in D
      /\ IsFiniteSet(D) /\ StartItem \notin S
  BY DEF Listed, Physical, Blocks
<1>2. PICK K \in Nat : \E c : RingAt(s, S, K, c)
  BY <1>1 DEF FreeRing
<1>3. PICK c : RingAt(s, S, K, c)
  BY <1>2
<1>4. /\ c \in [0..K + 1 -> S \cup {StartItem}] /\ c[0] = StartItem
      /\ \A i, j \in 0..K : c[i] = c[j] => i = j
      /\ \A a \in S : \E i \in 1..K : c[i] = a
      /\ \A i \in 0..K : s.item[c[i]].next_free = c[i + 1]
  BY <1>3 DEF RingAt
<1>5. \A i \in 1..K : c[i] \in S
  <2>1. Meets(S, K, c)
    BY <1>1, <1>3, RingIndex
  <2> QED
    BY <2>1 DEF Meets
<1>6. IsFiniteSet(S) /\ Cardinality(S) \in Nat /\ Cardinality(S) + 1 <= C /\ C \in Nat
  <2>1. IsFiniteSet(D \ {StartItem}) /\ Cardinality(D \ {StartItem}) = C - 1 /\ C \in Nat
    BY <1>1, FS_RemoveElement, FS_CardinalityType
  <2>2. IsFiniteSet(S) /\ Cardinality(S) <= C - 1 /\ Cardinality(S) \in Nat
    BY <1>1, <2>1, FS_Subset, FS_CardinalityType
  <2> HIDE DEF C
  <2> QED
    BY <2>1, <2>2
<1>7. K = Cardinality(S)
  <2> DEFINE f == [i \in 1..K |-> c[i]]
  <2>1. f \in [1..K -> S] /\ \A i \in 1..K : f[i] = c[i]
    BY <1>5
  <2> HIDE DEF f
  <2>2. \A i, j \in 1..K : f[i] = f[j] => i = j
    <3>1. 1..K \subseteq 0..K
      OBVIOUS
    <3> QED
      BY <1>4, <2>1, <3>1
  <2>3. f \in Injection(1..K, S)
    BY <2>1, <2>2 DEF Injection, IsInjective
  <2>4. f \in Surjection(1..K, S)
    BY <1>4, <2>1 DEF Surjection
  <2>5. Cardinality(1..K) = Cardinality(S)
    BY <1>6, <2>3, <2>4, FS_Injection
  <2>6. Cardinality(1..K) = K
    <3>1. Cardinality(1..K) = IF 1 > K THEN 0 ELSE K - 1 + 1
      BY FS_Interval
    <3> QED
      BY <3>1
  <2> QED
    BY <2>5, <2>6
<1>8. /\ Along(s)[0] = StartItem /\ \A n \in 1..C : Along(s)[n] = s.item[Along(s)[n - 1]].next_free
  BY <1>1, AlongLemma
<1> DEFINE Same == {n \in Nat : Along(s)[n] = c[n]}
<1>9. 0 \in Same
  BY <1>4, <1>8
<1>10. ASSUME NEW i \in 0..K + 1, i < K + 1, i \in Same
       PROVE  i + 1 \in Same
  <2>1. i + 1 \in 1..C /\ i \in 0..K /\ i + 1 - 1 = i
    BY <1>6, <1>7, <1>10
  <2>2. Along(s)[i + 1] = s.item[Along(s)[i]].next_free
    BY <1>8, <2>1
  <2> QED
    BY <1>4, <1>10, <2>1, <2>2
<1>11. \A i \in 0..K + 1 : Along(s)[i] = c[i]
  <2>1. K + 1 \in Nat
    OBVIOUS
  <2> HIDE DEF Same
  <2>2. \A i \in 0..K + 1 : i \in Same
    BY ONLY <1>9, <1>10, <2>1, Climbs
  <2> QED
    BY <2>2 DEF Same
<1>12. MeetsRing(s, S, c)
  BY <1>3, <1>6, <1>7, <1>11 DEF MeetsRing
<1> QED
  BY <1>12

\* First fit returns a listed block that is large enough, or start_item.
LEMMA FitLemma ==
  ASSUME NEW s, NEW S, Listed(s, S), NEW size, Fit(s, size) # StartItem
  PROVE  Fit(s, size) \in S /\ item_data_size(s, Fit(s, size)) >= size
<1> DEFINE at == Along(s)
           R == {n \in DOMAIN at \ {0} : at[n] = StartItem \/ item_data_size(s, at[n]) >= size}
<1>1. PICK c : MeetsRing(s, S, c)
  BY MeetsRingLemma
<1>2. PICK K : K = Cardinality(S)
  OBVIOUS
<1>3. IsFiniteSet(DOMAIN s.item)
  BY DEF Listed, Physical
<1>4. PICK C : C = Cardinality(DOMAIN s.item)
  OBVIOUS
<1>5. /\ K \in Nat /\ C \in Nat /\ K + 1 <= C /\ DOMAIN at = 0..C
      /\ \A i \in 0..K + 1 : at[i] = c[i]
      /\ c \in [0..K + 1 -> S \cup {StartItem}] /\ c[K + 1] = StartItem
  BY <1>1, <1>2, <1>3, <1>4, AlongLemma DEF MeetsRing, RingAt
<1>6. Fit(s, size) = at[Min(R)]
  BY DEF Fit, FirstFit
<1> HIDE DEF at
<1>7. K + 1 \in R /\ R \subseteq Nat
  BY <1>5
<1>8. Min(R) \in R /\ Min(R) <= K + 1
  <2> HIDE DEF R
  <2> QED
    BY <1>7, MinIsLeast
<1>9. PICK r : r = Min(R)
  OBVIOUS
<1>10. r \in 0..K + 1 /\ (at[r] = StartItem \/ item_data_size(s, at[r]) >= size)
  <2>1. r \in R /\ r <= K + 1
    BY <1>8, <1>9
  <2> QED
    BY <1>5, <2>1
<1>11. at[r] \in S \cup {StartItem}
  BY <1>5, <1>10
<1> QED
  BY <1>6, <1>9, <1>10, <1>11

-----------------------------------------------------------------------------
(* The invariant *)

\* The used blocks are those of the clients, with room for what they asked for.
Held(s, S, l) ==
  /\ {item_to_data(a) : a \in Blocks(s) \ S} = DOMAIN l
  /\ \A a \in Blocks(s) \ S : item_data_size(s, a) >= l[item_to_data(a)]

HeapState(s, l, u) == \E S : Sound(s, S, u) /\ LastFree(s, S) /\ Held(s, S, l)

HeapIInv == unpaid \in Int /\ HeapState(heap, live, unpaid)

\* The address of a block and that of its data determine each other.
LEMMA DataAddress ==
  ASSUME NEW a \in Nat
  PROVE  /\ data_to_item(item_to_data(a)) = a
         /\ \A b \in Nat : item_to_data(b) = item_to_data(a) => b = a
<1>1. Header \in Nat
  BY HeapAddresses
<1> QED
  BY <1>1 DEF data_to_item, item_to_data

\* After nd_memheap_init there is one free block.
LEMMA HeapStarts == HeapInit => HeapIInv
<1> SUFFICES ASSUME HeapInit PROVE HeapIInv
  OBVIOUS
<1> DEFINE D == DOMAIN heap.item
           S == {0}
<1>1. /\ Header \in Nat \ {0} /\ StartItem \in Nat /\ EndItem \in Nat
      /\ 0 < StartItem /\ StartItem < EndItem /\ StartItem + Header = EndItem /\ EndItem + Header <= Wrap
      /\ Wrap \in Nat \ {0} /\ StartItem % 2 = 0 /\ EndItem % 2 = 0 /\ PoolSize \in Nat
      /\ Header <= PoolSize /\ PoolSize <= StartItem
  BY HeapAddresses
<1> DEFINE i0 == [next |-> EndItem, prev |-> StartItem, next_free |-> StartItem, prev_free |-> StartItem]
           iS == [next |-> 1, prev |-> 0, next_free |-> 0, prev_free |-> 0]
           iE == [next |-> StartItem + 1, prev |-> 0, next_free |-> 0, prev_free |-> 0]
<1>2. /\ heap = [avail |-> heap.avail, item |-> heap.item] /\ heap.avail = PoolSize - Header
      /\ D = {0, StartItem, EndItem}
      /\ heap.item = [x \in {0, StartItem, EndItem} |-> heap.item[x]]
      /\ heap.item[0] = i0 /\ heap.item[StartItem] = iS /\ heap.item[EndItem] = iE
      /\ DOMAIN live = {} /\ unpaid = 0
  <2>1. 0 + 1 = 1
    OBVIOUS
  <2> QED
    BY <1>1, <2>1 DEF HeapInit
<1>3. HeapType(heap)
  <2>1. i0 \in ItemSet /\ iS \in ItemSet /\ iE \in ItemSet
    BY <1>1 DEF ItemSet
  <2>2. heap.item \in [D -> ItemSet]
    <3> HIDE DEF i0, iS, iE
    <3> QED
      BY <1>2, <2>1
  <2>3. heap.avail \in Int
    BY <1>1, <1>2
  <2> QED
    BY <1>2, <2>2, <2>3 DEF HeapType
<1>4. /\ item_next(heap, 0) = EndItem /\ ITEM_IS_FREE(heap, 0)
      /\ item_next(heap, StartItem) = 0 /\ ~ITEM_IS_FREE(heap, StartItem)
      /\ item_next(heap, EndItem) = StartItem /\ ~ITEM_IS_FREE(heap, EndItem)
  <2>1. /\ heap.item[0].next = EndItem /\ heap.item[StartItem].next = 1
        /\ heap.item[EndItem].next = StartItem + 1
    BY <1>2
  <2>2. (StartItem + 1) % 2 = 1 /\ 1 % 2 = 1 /\ (StartItem + 1) - 1 = StartItem
    BY <1>1
  <2> QED
    BY <1>1, <2>1, <2>2 DEF item_next, ITEM_IS_FREE
<1>5. /\ heap.item[0].prev = StartItem /\ heap.item[StartItem].prev = 0 /\ heap.item[EndItem].prev = 0
      /\ heap.item[0].next_free = StartItem /\ heap.item[0].prev_free = StartItem
      /\ heap.item[StartItem].next_free = 0 /\ heap.item[StartItem].prev_free = 0
  BY <1>2
<1>6. Blocks(heap) = {0}
  BY <1>1, <1>2 DEF Blocks
<1>7. Physical(heap)
  <2>1. IsFiniteSet(D)
    <3>1. D \in SUBSET (0..EndItem)
      BY <1>1, <1>2
    <3> HIDE DEF D
    <3>2. 0 \in Int /\ EndItem \in Int
      BY <1>1
    <3>3. IsFiniteSet(0..EndItem)
      BY ONLY <3>2, FS_Interval
    <3> QED
      BY <3>1, <3>3, FS_Subset
  <2>2. \A a \in D : a \in Nat /\ a % 2 = 0
    BY <1>1, <1>2
  <2>3. /\ EndItem \in D \ {StartItem} /\ EndItem >= 0 + Header
        /\ \A b \in D \ {StartItem} : ~(0 < b /\ b < EndItem)
    BY <1>1, <1>2
  <2>4. \A a \in D \ {EndItem} : heap.item[item_next(heap, a)].prev = a
    BY <1>2, <1>4, <1>5
  <2>5. \A b \in D \ {StartItem} :
          heap.item[b].prev \in D \ {EndItem} /\ item_next(heap, heap.item[b].prev) = b
    BY <1>1, <1>2, <1>4, <1>5
  <2>6. \A a \in Blocks(heap) :
          /\ a < StartItem
          /\ item_next(heap, a) \in D \ {StartItem} /\ item_next(heap, a) >= a + Header
          /\ \A b \in D \ {StartItem} : ~(a < b /\ b < item_next(heap, a))
    BY <1>1, <1>4, <1>6, <2>3
  <2>7. {0, StartItem, EndItem} \subseteq D
    BY <1>2
  <2> HIDE DEF D
  <2> QED
    BY <1>4, <2>1, <2>2, <2>4, <2>5, <2>6, <2>7 DEF Physical, D
<1>8. FreeRing(heap, S)
  <2> DEFINE c == [i \in 0..1 + 1 |-> IF i = 1 THEN 0 ELSE StartItem]
  <2>1. c \in [0..1 + 1 -> S \cup {StartItem}] /\ c[0] = StartItem /\ c[1] = 0 /\ c[1 + 1] = StartItem
    OBVIOUS
  <2> HIDE DEF c
  <2>2. \A i, j \in 0..1 : c[i] = c[j] => i = j
    BY <1>1, <2>1
  <2>3. \A i \in 0..1 : i = 0 \/ i = 1
    OBVIOUS
  <2>4. \A i \in 0..1 : heap.item[c[i]].next_free = c[i + 1] /\ heap.item[c[i + 1]].prev_free = c[i]
    BY <1>5, <2>1, <2>3
  <2>5. \A a \in S : \E i \in 1..1 : c[i] = a
    <3>1. 1 \in 1..1
      OBVIOUS
    <3> QED
      BY <2>1, <3>1
  <2>6. RingAt(heap, S, 1, c)
    BY <2>1, <2>2, <2>4, <2>5 DEF RingAt
  <2>7. 1 \in Nat
    OBVIOUS
  <2> QED
    BY <2>6, <2>7 DEF FreeRing
<1>9. Listed(heap, S)
  BY <1>1, <1>3, <1>4, <1>6, <1>7, <1>8 DEF Listed, NoNeighbours
<1>10. heap.avail = Owed(Count(heap, S), unpaid)
  <2>1. Count(heap, S) = Count(heap, S \ {0}) + (EndItem - 0 - Header)
    BY <1>4, <1>6, <1>7, CountOne
  <2>2. Count(heap, S \ {0}) = 0
    <3>1. BytesOf(heap, S \ {0}) = {}
      BY DEF BytesOf
    <3> QED
      BY <3>1, FS_EmptySet DEF Count
  <2>3. Count(heap, S) - (EndItem - PoolSize) + unpaid = PoolSize - Header
    <3>1. unpaid = 0
      BY <1>2
    <3> HIDE DEF S
    <3> QED
      BY <1>1, <2>1, <2>2, <3>1
  <2>4. PoolSize - Header \in 0..(Wrap - 1) /\ PoolSize - Header \in Int
    BY <1>1
  <2>5. (PoolSize - Header) % Wrap = PoolSize - Header
    BY <1>1, <2>4, ModLemma
  <2> QED
    BY <1>2, <2>3, <2>5 DEF Owed, U32
<1>11. Sound(heap, S, unpaid)
  BY <1>4, <1>6, <1>9, <1>10 DEF Sound
<1>12. LastFree(heap, S) /\ Held(heap, S, live)
  BY <1>2, <1>6 DEF LastFree, Held
<1>13. unpaid \in Int
  BY <1>2
<1> QED
  BY <1>11, <1>12, <1>13 DEF HeapIInv, HeapState

\* The block carved out belongs to the client that asked.
LEMMA HeldCarved ==
  ASSUME NEW u \in Int, NEW s, NEW S, NEW l,
         Sound(s, S, u), LastFree(s, S), Held(s, S, l), NEW a \in S, NEW size,
         NEW t, Carved(s, S, t, a, size, u)
  PROVE  \E T : /\ Sound(t, T, u) /\ LastFree(t, T) /\ Held(t, T, With(l, item_to_data(a), size))
                /\ Blocks(t) \ T = (Blocks(s) \ S) \cup {a}
<1> DEFINE U == Blocks(s) \ S
           k == With(l, item_to_data(a), size)
<1>1. PICK T : /\ Sound(t, T, u) /\ Blocks(t) \ T = U \cup {a} /\ Stay(s, t, U)
               /\ item_data_size(t, a) >= size /\ item_next(t, a) # EndItem
  BY DEF Carved
<1>2. \A x \in U \cup {a} : x \in Nat
  BY DEF Sound, Listed, Physical, Blocks
<1>3. \A x \in U : item_next(t, x) = item_next(s, x) /\ item_data_size(t, x) = item_data_size(s, x)
  BY <1>1 DEF Stay, item_data_size
<1>4. LastFree(t, T)
  BY <1>1, <1>3 DEF LastFree
<1>5. DOMAIN k = DOMAIN l \cup {item_to_data(a)} /\ k[item_to_data(a)] = size
      /\ \A p \in DOMAIN l \ {item_to_data(a)} : k[p] = l[p]
  BY DEF With
<1>6. {item_to_data(x) : x \in U} = DOMAIN l /\ \A x \in U : item_data_size(s, x) >= l[item_to_data(x)]
  BY DEF Held
<1> HIDE DEF k
<1>7. {item_to_data(x) : x \in Blocks(t) \ T} = DOMAIN k
  BY <1>1, <1>5, <1>6
<1>8. ASSUME NEW x \in U \cup {a} PROVE item_data_size(t, x) >= k[item_to_data(x)]
  <2>1. CASE x = a
    BY <1>1, <1>5, <2>1
  <2>2. CASE x # a
    <3>1. x \in U /\ item_to_data(x) # item_to_data(a) /\ item_to_data(x) \in DOMAIN l
      BY <1>2, <1>6, <2>2, DataAddress
    <3> QED
      BY <1>3, <1>5, <1>6, <3>1
  <2> QED
    BY <2>1, <2>2
<1>9. Held(t, T, k)
  BY <1>1, <1>7, <1>8 DEF Held
<1> QED
  BY <1>1, <1>4, <1>9 DEF k

\* The block given back belongs to nobody.
LEMMA HeldFreed ==
  ASSUME NEW u \in Int, NEW s, NEW S, NEW l,
         Sound(s, S, u), LastFree(s, S), Held(s, S, l), NEW a, a \in Blocks(s) \ S,
         NEW t, t = memheap_coalesce(s, a)
  PROVE  HeapState(t, Restrict(l, DOMAIN l \ {item_to_data(a)}), u)
<1> DEFINE U == Blocks(s) \ S
           k == Restrict(l, DOMAIN l \ {item_to_data(a)})
<1>1. PICK T : Sound(t, T, u) /\ Blocks(t) \ T = U \ {a} /\ Stay(s, t, U \ {a})
  <2>1. Listed(s, S) /\ s.avail = Owed(Count(s, S), u)
    BY DEF Sound
  <2>2. \A x \in Blocks(s) \ {a} : ITEM_IS_FREE(s, x) <=> x \in S
    BY DEF Sound
  <2>3. Freed(s, S, a, t, u)
    BY <2>1, <2>2, CoalesceLemma
  <2> QED
    BY <2>3 DEF Freed
<1>2. \A x \in U : x \in Nat
  BY DEF Sound, Listed, Physical, Blocks
<1>3. \A x \in U \ {a} : item_next(t, x) = item_next(s, x) /\ item_data_size(t, x) = item_data_size(s, x)
  BY <1>1 DEF Stay, item_data_size
<1>4. LastFree(t, T)
  BY <1>1, <1>3 DEF LastFree
<1>5. DOMAIN k = DOMAIN l \ {item_to_data(a)} /\ \A p \in DOMAIN l \ {item_to_data(a)} : k[p] = l[p]
  BY DEF Restrict
<1>6. {item_to_data(x) : x \in U} = DOMAIN l /\ \A x \in U : item_data_size(s, x) >= l[item_to_data(x)]
  BY DEF Held
<1>7. \A x \in U \ {a} : item_to_data(x) # item_to_data(a)
  BY <1>2, DataAddress
<1> HIDE DEF k
<1>8. {item_to_data(x) : x \in Blocks(t) \ T} = DOMAIN k
  BY <1>1, <1>5, <1>6, <1>7
<1>9. \A x \in U \ {a} : item_data_size(t, x) >= k[item_to_data(x)]
  BY <1>3, <1>5, <1>6, <1>7
<1>10. Held(t, T, k)
  BY <1>1, <1>8, <1>9 DEF Held
<1> QED
  BY <1>1, <1>4, <1>10 DEF HeapState, k

\* A block that is resized in place stays with its client.
LEMMA HeldResized ==
  ASSUME NEW u \in Int, NEW v \in Int, NEW s, NEW S, NEW l,
         Sound(s, S, u), LastFree(s, S), Held(s, S, l), NEW a, a \in Blocks(s) \ S,
         NEW size, NEW t, Resized(s, S, t, a, size, v)
  PROVE  HeapState(t, [l EXCEPT ![item_to_data(a)] = size], v)
<1> DEFINE U == Blocks(s) \ S
           k == [l EXCEPT ![item_to_data(a)] = size]
<1>1. PICK T : /\ Sound(t, T, v) /\ Blocks(t) \ T = U /\ Stay(s, t, U \ {a})
               /\ item_data_size(t, a) >= size /\ item_next(t, a) # EndItem
  BY DEF Resized
<1>2. \A x \in U : x \in Nat
  BY DEF Sound, Listed, Physical, Blocks
<1>3. \A x \in U \ {a} : item_next(t, x) = item_next(s, x) /\ item_data_size(t, x) = item_data_size(s, x)
  BY <1>1 DEF Stay, item_data_size
<1>4. LastFree(t, T)
  BY <1>1, <1>3 DEF LastFree
<1>5. {item_to_data(x) : x \in U} = DOMAIN l /\ \A x \in U : item_data_size(s, x) >= l[item_to_data(x)]
  BY DEF Held
<1>6. item_to_data(a) \in DOMAIN l
  BY <1>5
<1>7. DOMAIN k = DOMAIN l /\ k[item_to_data(a)] = size
      /\ \A p \in DOMAIN l \ {item_to_data(a)} : k[p] = l[p]
  BY <1>6
<1> HIDE DEF k
<1>8. \A x \in U \ {a} : item_to_data(x) # item_to_data(a) /\ item_to_data(x) \in DOMAIN l
  BY <1>2, <1>5, DataAddress
<1>9. ASSUME NEW x \in U PROVE item_data_size(t, x) >= k[item_to_data(x)]
  <2>1. CASE x = a
    BY <1>1, <1>7, <2>1
  <2>2. CASE x # a
    BY <1>3, <1>5, <1>7, <1>8, <2>2
  <2> QED
    BY <2>1, <2>2
<1>10. Held(t, T, k)
  BY <1>1, <1>5, <1>7, <1>9 DEF Held
<1> QED
  BY <1>1, <1>4, <1>10 DEF HeapState, k

\* A request that keeps items at even addresses.
LEMMA AskedSizes ==
  ASSUME HeapUse, NEW size \in Sizes
  PROVE  /\ size \in Nat /\ size % 2 = 0
         /\ \A count \in Counts : count * size \in Nat /\ (count * size) % 2 = 0
<1>1. size \in Nat /\ size % 2 = 0 /\ Counts \subseteq Nat
  BY HeapAssumption DEF HeapUse
<1>2. PICK k \in Nat : size = 2 * k
  <2>1. size \div 2 \in Nat /\ size = 2 * (size \div 2)
    BY <1>1
  <2> QED
    BY <2>1
<1>3. ASSUME NEW count \in Counts
      PROVE  count * size \in Nat /\ (count * size) % 2 = 0
  <2>1. count \in Nat
    BY <1>1
  <2>2. PICK j \in Int : j = count * k
    BY <2>1, TimesLemma
  <2>3. count * (k + k) = count * k + count * k
    BY <2>1, TimesLemma
  <2>4. k + k = size
    BY <1>2
  <2>5. count * size = j + j
    BY <2>2, <2>3, <2>4
  <2>6. count * size \in Nat
    BY <1>1, <2>1
  <2>7. (j + j) % 2 = 0
    OBVIOUS
  <2> QED
    BY <2>5, <2>6, <2>7
<1> QED
  BY <1>1, <1>3

\* What first fit finds can be carved.
LEMMA FitCarved ==
  ASSUME NEW u \in Int, HeapUse, NEW s, NEW S, Sound(s, S, u), NEW size \in Nat, size % 2 = 0,
         NEW a, a = Fit(s, size), a # StartItem, Reached(a, size)
  PROVE  a \in S /\ Carved(s, S, Carve(s, a, size), a, size, u)
<1>1. a \in S /\ item_data_size(s, a) >= size /\ a \in Nat
  <2>1. Listed(s, S)
    BY DEF Sound
  <2>2. a \in S /\ item_data_size(s, a) >= size
    BY <2>1, FitLemma
  <2> QED
    BY <2>1, <2>2 DEF Listed, Physical, Blocks
<1>2. item_split_at(a, size) + Header <= StartItem
  <2>1. /\ Header \in Nat /\ StartItem \in Nat /\ Top \in Nat /\ Top <= StartItem
    BY HeapAddresses, HeapAssumption DEF HeapUse
  <2>2. item_split_at(a, size) + Header <= Top /\ item_split_at(a, size) \in Nat
    BY <1>1, <2>1 DEF Reached, item_split_at
  <2> QED
    BY <2>1, <2>2
<1> QED
  BY <1>1, <1>2, CarveLemma

\* nd_memheap_alloc keeps the invariant: the block it returns is the client's.
LEMMA AllocKeeps ==
  ASSUME HeapUse, HeapIInv, NEW size \in Nat, size % 2 = 0, nd_memheap_alloc(size)
  PROVE  HeapIInv'
<1>0. unpaid \in Int
  BY DEF HeapIInv
<1>1. PICK S : Sound(heap, S, unpaid) /\ LastFree(heap, S) /\ Held(heap, S, live)
  BY DEF HeapIInv, HeapState
<1>2. PICK a : a = Fit(heap, size)
  OBVIOUS
<1>3. /\ a # StartItem /\ Reached(a, size) /\ heap' = Carve(heap, a, size)
      /\ live' = With(live, item_to_data(a), size) /\ unpaid' = unpaid
  BY <1>2 DEF nd_memheap_alloc, _memheap_alloc
<1>4. a \in S /\ Carved(heap, S, heap', a, size, unpaid)
  BY <1>0, <1>1, <1>2, <1>3, FitCarved
<1>5. \E T : Sound(heap', T, unpaid) /\ LastFree(heap', T) /\ Held(heap', T, live')
  BY <1>0, <1>1, <1>3, <1>4, HeldCarved
<1> QED
  BY <1>0, <1>3, <1>5 DEF HeapIInv, HeapState

\* A client's block, by its data address.
LEMMA ClientBlock ==
  ASSUME NEW u \in Int, NEW s, NEW S, NEW l, Sound(s, S, u), Held(s, S, l), NEW p \in DOMAIN l
  PROVE  /\ data_to_item(p) \in Blocks(s) \ S /\ data_to_item(p) \in Nat
         /\ item_to_data(data_to_item(p)) = p
<1>1. PICK a \in Blocks(s) \ S : p = item_to_data(a)
  BY DEF Held
<1>2. a \in Nat
  BY DEF Sound, Listed, Physical, Blocks
<1> QED
  BY <1>1, <1>2, DataAddress

\* So does nd_memheap_free.
LEMMA FreeKeeps ==
  ASSUME HeapIInv, NEW p, nd_memheap_free(p)
  PROVE  HeapIInv'
<1>0. unpaid \in Int
  BY DEF HeapIInv
<1>1. PICK S : Sound(heap, S, unpaid) /\ LastFree(heap, S) /\ Held(heap, S, live)
  BY DEF HeapIInv, HeapState
<1>2. PICK a : a = data_to_item(p)
  OBVIOUS
<1>3. /\ p \in DOMAIN live /\ heap' = memheap_coalesce(heap, a)
      /\ live' = Restrict(live, DOMAIN live \ {p}) /\ unpaid' = unpaid
  BY <1>2 DEF nd_memheap_free
<1>4. a \in Blocks(heap) \ S /\ item_to_data(a) = p
  BY <1>0, <1>1, <1>2, <1>3, ClientBlock
<1>5. HeapState(heap', Restrict(live, DOMAIN live \ {p}), unpaid)
  BY <1>0, <1>1, <1>3, <1>4, HeldFreed
<1> QED
  BY <1>0, <1>3, <1>5 DEF HeapIInv

\* nd_memheap_realloc to less, with a rest that can hold a header or not.
LEMMA ShrinkKeeps ==
  ASSUME HeapIInv, NEW p \in DOMAIN live, NEW size \in Nat, size % 2 = 0, Shrink(p, size)
  PROVE  HeapIInv'
<1>0. unpaid \in Int
  BY DEF HeapIInv
<1>1. PICK S : Sound(heap, S, unpaid) /\ LastFree(heap, S) /\ Held(heap, S, live)
  BY DEF HeapIInv, HeapState
<1>2. PICK a : a = data_to_item(p)
  OBVIOUS
<1>3. PICK n : n = item_split_at(a, size)
  OBVIOUS
<1>4. /\ size <= item_data_size(heap, a)
      /\ heap' = IF size < item_data_size(heap, a) /\ item_data_size(heap, a) - size >= Header
                 THEN memheap_coalesce(phys_list_insert_after(heap, a, n), n) ELSE heap
      /\ live' = [live EXCEPT ![p] = size] /\ unpaid' = unpaid
  BY <1>2, <1>3 DEF Shrink, Keeps
<1>5. a \in Blocks(heap) \ S /\ item_to_data(a) = p /\ a \in Nat
  BY <1>0, <1>1, <1>2, ClientBlock
<1>6. Resized(heap, S, heap', a, size, unpaid)
  <2>1. CASE size < item_data_size(heap, a) /\ item_data_size(heap, a) - size >= Header
    BY <1>0, <1>1, <1>3, <1>4, <1>5, <2>1, ShrinkLemma
  <2>2. CASE ~(size < item_data_size(heap, a) /\ item_data_size(heap, a) - size >= Header)
    <3>1. heap' = heap
      BY <1>4, <2>2
    <3>2. item_data_size(heap, a) >= size
      <4>1. item_data_size(heap, a) \in Nat
        BY <1>1, <1>5, DataSize DEF Sound, Listed
      <4> QED
        BY <1>4, <4>1
    <3>3. Resized(heap, S, heap, a, size, unpaid)
      BY <1>0, <1>1, <1>5, <3>2 DEF Resized, Stay, LastFree
    <3> QED
      BY <3>1, <3>3
  <2> QED
    BY <2>1, <2>2
<1>7. HeapState(heap', [live EXCEPT ![item_to_data(a)] = size], unpaid)
  BY <1>0, <1>1, <1>5, <1>6, HeldResized
<1> QED
  BY <1>0, <1>4, <1>5, <1>7 DEF HeapIInv

\* nd_memheap_realloc into the free block that follows: Room leaves the rest a header, so that
\* the difference the code tests does not wrap.  The block at the end is never taken whole:
\* up to the control block there is more than a header left of it.
LEMMA GrowInPlaceKeeps ==
  ASSUME HeapUse, HeapIInv, NEW p \in DOMAIN live, NEW size \in Nat, size % 2 = 0,
         GrowInPlace(p, size)
  PROVE  HeapIInv'
<1>0. unpaid \in Int
  BY DEF HeapIInv
<1>1. PICK S : Sound(heap, S, unpaid) /\ LastFree(heap, S) /\ Held(heap, S, live)
  BY DEF HeapIInv, HeapState
<1>2. PICK a : a = data_to_item(p)
  OBVIOUS
<1>3. PICK n : n = item_split_at(a, size)
  OBVIOUS
<1>4. PICK next : next = item_next(heap, a)
  OBVIOUS
<1>5. PICK block : block = item_data_size(heap, a)
  OBVIOUS
<1>6. PICK rest : rest = item_data_size(heap, next)
  OBVIOUS
<1> DEFINE s1 == phys_list_remove(free_list_remove(heap, next), next)
           split == free_list_insert_after(phys_list_insert_after(s1, a, n), StartItem, n)
           more == Header + block + rest - size
<1>7. /\ size > block /\ CanGrow(a, size) /\ Reached(a, size)
      /\ block + Header + rest >= size + Room
      /\ live' = [live EXCEPT ![p] = size]
  BY <1>2, <1>4, <1>5, <1>6 DEF GrowInPlace, Keeps
<1>8. IF U32(block + rest - size) >= Header
      THEN heap' = Credit(split, block - size) /\ unpaid' = unpaid
      ELSE heap' = Credit(Credit(s1, Header), block - size) /\ unpaid' = unpaid + more
  BY <1>2, <1>3, <1>4, <1>5, <1>6 DEF GrowInPlace
<1>9. a \in Blocks(heap) \ S /\ item_to_data(a) = p /\ a \in Nat
  BY <1>0, <1>1, <1>2, ClientBlock
<1>10. next \in S
  <2>1. ITEM_IS_FREE(heap, next)
    BY <1>4, <1>7 DEF CanGrow
  <2>2. /\ Physical(heap) /\ next \in DOMAIN heap.item
        /\ \A x \in Blocks(heap) : ITEM_IS_FREE(heap, x) <=> x \in S
    BY <1>1, <1>4, <1>9, Neighbours DEF Sound, Listed
  <2>3. next \in Blocks(heap)
    BY <2>1, <2>2 DEF Physical, Blocks
  <2> QED
    BY <2>1, <2>2, <2>3
<1>11. /\ Header \in Nat \ {0} /\ StartItem \in Nat /\ Top \in Nat /\ Top <= StartItem
       /\ Room \in Nat /\ Room >= Header /\ Wrap \in Nat \ {0}
       /\ StartItem + Header = EndItem /\ EndItem + Header <= Wrap
  BY HeapAddresses, HeapAssumption DEF HeapUse
<1> DEFINE m == item_next(heap, next)
<1>12. /\ block = next - a - Header /\ block \in Nat /\ next \in Nat
       /\ rest = m - next - Header /\ rest \in Nat /\ m \in Nat /\ m <= EndItem
  <2>1. Physical(heap) /\ next \in Blocks(heap)
    BY <1>1, <1>10 DEF Sound, Listed
  <2> QED
    BY <1>4, <1>5, <1>6, <1>9, <2>1, DataSize
<1> HIDE DEF m
<1>13. n = a + Header + size /\ n \in Nat /\ n + Header <= StartItem
  <2>1. n + Header <= Top /\ n = a + Header + size
    BY <1>3, <1>7 DEF Reached, item_split_at
  <2> QED
    BY <1>9, <1>11, <2>1
<1>14. U32(block + rest - size) = block + rest - size
  <2>1. block + rest - size \in 0..(Wrap - 1) /\ block + rest - size \in Int
    BY <1>7, <1>9, <1>11, <1>12
  <2> QED
    BY <1>11, <2>1, ModLemma DEF U32
<1>15. unpaid' \in Int /\ Resized(heap, S, heap', a, size, unpaid')
  <2>1. CASE block + rest - size >= Header
    <3>1. heap' = Credit(split, block - size) /\ unpaid' = unpaid
      BY <1>8, <1>14, <2>1
    <3>2. item_data_size(heap, a) + Header + item_data_size(heap, next) >= size + Header
      BY <1>5, <1>6, <1>7, <1>11, <1>12
    <3>3. size > item_data_size(heap, a)
      BY <1>5, <1>7
    <3>4. heap' = Credit(split, item_data_size(heap, a) - size)
      BY <1>5, <3>1
    <3>5. Resized(heap, S, heap', a, size, unpaid)
      BY <1>0, <1>1, <1>3, <1>4, <1>9, <1>10, <1>13, <3>2, <3>3, <3>4, GrowLemma
    <3> QED
      BY <1>0, <3>1, <3>5
  <2>2. CASE ~(block + rest - size >= Header)
    <3>1. heap' = Credit(Credit(s1, Header), block - size) /\ unpaid' = unpaid + more
      BY <1>8, <1>14, <2>2
    <3>2. m # EndItem
      BY <1>9, <1>11, <1>12, <1>13, <2>2
    <3>3. block + Header + rest >= size
      BY <1>7, <1>11, <1>12
    <3>4. item_next(heap, next) # EndItem
      BY <3>2 DEF m
    <3>5. Resized(heap, S, heap', a, size, unpaid + more)
      BY <1>0, <1>1, <1>4, <1>5, <1>6, <1>9, <1>10, <3>1, <3>3, <3>4, SwallowLemma
    <3>6. unpaid + more \in Int
      BY <1>0, <1>11, <1>12
    <3> HIDE DEF more
    <3> QED
      BY <3>1, <3>5, <3>6
  <2> QED
    BY <2>1, <2>2
<1> HIDE DEF s1, split
<1>16. HeapState(heap', [live EXCEPT ![item_to_data(a)] = size], unpaid')
  BY <1>0, <1>1, <1>9, <1>15, HeldResized
<1> QED
  BY <1>7, <1>9, <1>15, <1>16 DEF HeapIInv

\* nd_memheap_realloc that moves: the old block is freed when the new one is taken.
LEMMA GrowElsewhereKeeps ==
  ASSUME HeapUse, HeapIInv, NEW p \in DOMAIN live, NEW size \in Nat, size % 2 = 0,
         GrowElsewhere(p, size)
  PROVE  HeapIInv'
<1>0. unpaid \in Int
  BY DEF HeapIInv
<1>1. PICK S : Sound(heap, S, unpaid) /\ LastFree(heap, S) /\ Held(heap, S, live)
  BY DEF HeapIInv, HeapState
<1>2. PICK a : a = data_to_item(p)
  OBVIOUS
<1>3. PICK b : b = Fit(heap, size)
  OBVIOUS
<1>4. PICK home : home = item_to_data(b)
  OBVIOUS
<1>5. PICK c : c = Carve(heap, b, size)
  OBVIOUS
<1>6. /\ b # StartItem /\ Reached(b, size) /\ heap' = memheap_coalesce(c, a)
      /\ live' = With(Restrict(live, DOMAIN live \ {p}), home, size) /\ unpaid' = unpaid
  BY <1>2, <1>3, <1>4, <1>5 DEF GrowElsewhere
<1>7. a \in Blocks(heap) \ S /\ item_to_data(a) = p /\ a \in Nat
  BY <1>0, <1>1, <1>2, ClientBlock
<1>8. b \in S /\ Carved(heap, S, c, b, size, unpaid)
  BY <1>0, <1>1, <1>3, <1>5, <1>6, FitCarved
<1>9. PICK T : /\ Sound(c, T, unpaid) /\ LastFree(c, T) /\ Held(c, T, With(live, home, size))
               /\ Blocks(c) \ T = (Blocks(heap) \ S) \cup {b}
  BY <1>0, <1>1, <1>4, <1>8, HeldCarved
<1>10. home # p
  <2>1. b \in Nat
    BY <1>1, <1>8 DEF Sound, Listed, Physical, Blocks
  <2> QED
    BY <1>4, <1>7, <1>8, <2>1, DataAddress
<1> DEFINE k == With(live, home, size)
<1>11. live' = Restrict(k, DOMAIN k \ {p})
  <2>1. k = [x \in DOMAIN live \cup {home} |-> IF x = home THEN size ELSE live[x]]
    BY DEF With
  <2>2. Restrict(live, DOMAIN live \ {p}) = [x \in DOMAIN live \ {p} |-> live[x]]
    BY DEF Restrict
  <2>3. live' = [x \in (DOMAIN live \ {p}) \cup {home} |-> IF x = home THEN size ELSE live[x]]
    BY <1>6, <2>2 DEF With
  <2>4. Restrict(k, DOMAIN k \ {p}) =
          [x \in (DOMAIN live \cup {home}) \ {p} |-> IF x = home THEN size ELSE live[x]]
    BY <2>1 DEF Restrict
  <2>5. (DOMAIN live \ {p}) \cup {home} = (DOMAIN live \cup {home}) \ {p}
    BY <1>10
  <2> HIDE DEF k
  <2> QED
    BY <2>3, <2>4, <2>5
<1> HIDE DEF k
<1>12. HeapState(heap', Restrict(k, DOMAIN k \ {item_to_data(a)}), unpaid)
  <2>1. a \in Blocks(c) \ T /\ Held(c, T, k)
    BY <1>7, <1>9 DEF k
  <2> QED
    BY <1>0, <1>6, <1>9, <2>1, HeldFreed
<1> QED
  BY <1>0, <1>6, <1>7, <1>11, <1>12 DEF HeapIInv

\* Every call keeps the invariant.
LEMMA HeapStep ==
  ASSUME HeapUse, HeapIInv, [HeapNext]_heapVars
  PROVE  HeapIInv'
<1>1. CASE \E size \in Sizes : nd_memheap_alloc(size)
  BY <1>1, AskedSizes, AllocKeeps
<1>2. CASE \E count \in Counts, size \in Sizes : nd_calloc(count, size)
  <2>1. PICK count \in Counts, size \in Sizes : nd_calloc(count, size)
    BY <1>2
  <2>2. PICK asked : asked = count * size
    OBVIOUS
  <2>3. nd_memheap_alloc(asked)
    BY <2>1, <2>2 DEF nd_calloc
  <2>4. asked \in Nat /\ asked % 2 = 0
    BY <2>2, AskedSizes
  <2> QED
    BY <2>3, <2>4, AllocKeeps
<1>3. CASE \E p \in DOMAIN live : nd_memheap_free(p)
  BY <1>3, FreeKeeps
<1>4. CASE \E p \in DOMAIN live, size \in Sizes : nd_memheap_realloc(p, size)
  <2>1. PICK p \in DOMAIN live, size \in Sizes : nd_memheap_realloc(p, size)
    BY <1>4
  <2>2. size \in Nat /\ size % 2 = 0
    BY AskedSizes
  <2>3. CASE Shrink(p, size)
    BY <2>2, <2>3, ShrinkKeeps
  <2>4. CASE GrowInPlace(p, size)
    BY <2>2, <2>4, GrowInPlaceKeeps
  <2>5. CASE GrowElsewhere(p, size)
    BY <2>2, <2>5, GrowElsewhereKeeps
  <2> QED
    BY <2>1, <2>3, <2>4, <2>5 DEF nd_memheap_realloc
<1>5. CASE UNCHANGED heapVars
  BY <1>5 DEF heapVars, HeapIInv
<1> QED
  BY <1>1, <1>2, <1>3, <1>4, <1>5 DEF HeapNext

\* The invariant says of the lists, the blocks and the count what HeapInv says.
LEMMA HeapInvHolds == HeapIInv => HeapInv
<1> SUFFICES ASSUME HeapIInv PROVE HeapInv
  OBVIOUS
<1>0. unpaid \in Int
  BY DEF HeapIInv
<1>1. PICK S : Sound(heap, S, unpaid) /\ LastFree(heap, S) /\ Held(heap, S, live)
  BY DEF HeapIInv, HeapState
<1>2. /\ Listed(heap, S) /\ Physical(heap) /\ S \subseteq Blocks(heap) /\ FreeRing(heap, S)
      /\ NoNeighbours(heap, S) /\ \A x \in Blocks(heap) : ITEM_IS_FREE(heap, x) <=> x \in S
      /\ heap.avail = Owed(Count(heap, S), unpaid) /\ StartItem \notin S
  BY <1>1 DEF Sound, Listed, Blocks
<1>3. /\ ~ITEM_IS_FREE(heap, StartItem) /\ ~ITEM_IS_FREE(heap, EndItem)
      /\ Items = DOMAIN heap.item /\ Blocks(heap) = Items \ {StartItem, EndItem}
  BY <1>2 DEF Physical, Items, Blocks
<1>4. FreeItems = S
  BY <1>2, <1>3 DEF FreeItems
<1>5. BlocksInOrder
  <2> SUFFICES ASSUME NEW a \in Blocks(heap)
               PROVE  LET n == item_next(heap, a)
                      IN /\ n \in Items /\ n >= a + Header /\ heap.item[n].prev = a
                         /\ \A b \in Items \ {StartItem} : ~(a < b /\ b < n)
    BY <1>3 DEF BlocksInOrder
  <2>1. a \in DOMAIN heap.item \ {EndItem}
    BY DEF Blocks
  <2> QED
    BY <1>2, <1>3, <2>1 DEF Physical
<1>6. FreeListAgrees
  <2>1. PICK c : MeetsRing(heap, S, c)
    BY <1>2, MeetsRingLemma
  <2>2. PICK K : K = Cardinality(S)
    OBVIOUS
  <2>3. /\ K \in Nat /\ \A i \in 0..K + 1 : Along(heap)[i] = c[i]
        /\ c \in [0..K + 1 -> S \cup {StartItem}] /\ c[0] = StartItem
        /\ \A a \in S : \E i \in 1..K : c[i] = a
    BY <2>1, <2>2 DEF MeetsRing, RingAt
  <2>4. \A n \in 0..K : Along(heap)[n] = c[n] /\ c[n] \in S \cup {StartItem}
    BY <2>3
  <2>5. {Along(heap)[n] : n \in 0..K} = S \cup {StartItem}
    <3>1. 0 \in 0..K /\ 1..K \subseteq 0..K
      BY <2>3
    <3> QED
      BY <2>3, <2>4, <3>1
  <2>6. \A a \in S \cup {StartItem} : heap.item[heap.item[a].next_free].prev_free = a
    BY <1>2, RingClosed
  <2> QED
    BY <1>4, <2>2, <2>5, <2>6 DEF FreeListAgrees
<1>7. Coalesced
  <2> SUFFICES ASSUME NEW a \in S, ITEM_IS_FREE(heap, item_next(heap, a)) PROVE FALSE
    BY <1>4 DEF Coalesced
  <2>1. item_next(heap, a) \in DOMAIN heap.item
    BY <1>2 DEF Physical
  <2>2. item_next(heap, a) \in S
    BY <1>3, <1>4, <2>1 DEF FreeItems
  <2> QED
    BY <1>2, <2>2 DEF NoNeighbours
<1>8. BlocksBelong
  <2>1. Items \ (FreeItems \cup {StartItem, EndItem}) = Blocks(heap) \ S
    BY <1>3, <1>4
  <2>2. {item_to_data(a) : a \in Blocks(heap) \ S} = DOMAIN live
    BY <1>1 DEF Held
  <2>3. ASSUME NEW p \in DOMAIN live PROVE item_data_size(heap, data_to_item(p)) >= live[p]
    <3>1. data_to_item(p) \in Blocks(heap) \ S /\ item_to_data(data_to_item(p)) = p
      BY <1>0, <1>1, ClientBlock
    <3>2. item_data_size(heap, data_to_item(p)) >= live[item_to_data(data_to_item(p))]
      BY <1>1, <3>1 DEF Held
    <3> QED
      BY <3>1, <3>2
  <2> QED
    BY <2>1, <2>2, <2>3 DEF BlocksBelong
<1>9. AvailableAgrees
  BY <1>2, <1>4 DEF AvailableAgrees, FreeBytes, Owed, Count, BytesOf
<1> QED
  BY <1>5, <1>6, <1>7, <1>8, <1>9 DEF HeapInv, ListsAgree

\* HeapInv of nd_memheap.c: whatever is allocated, resized and freed, in any order, the list
\* of blocks is in order, the free list has exactly the free ones, none of which are
\* neighbours, every used block is a client's, and available_size counts the free bytes, but
\* for those past the end of the pool and those realloc did not charge.  It holds of every
\* pool and control block apart from it, either below the other, of every header and every
\* bound that HeapUse allows: clients ask for even sizes, no block reaches the control
\* block, and a block enlarged in place leaves, with its neighbour, room for a header.
THEOREM HeapKept == ASSUME HeapUse PROVE HeapSpec => []HeapInv
<1>1. HeapIInv /\ [HeapNext]_heapVars => HeapIInv'
  BY HeapStep
<1> QED
  BY <1>1, HeapStarts, HeapInvHolds, PTL DEF HeapSpec

=============================================================================
