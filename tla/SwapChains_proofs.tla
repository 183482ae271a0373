------------------------- MODULE SwapChains_proofs -------------------------
(***************************************************************************)
(* The display driver for any set of monitors, any number of processors    *)
(* and any number of retries.                                              *)
(***************************************************************************)
EXTENDS SwapChains, TLAPS

USE BoundsAssumption

\* Every step of the driver, its threads and Windows keeps the types of the
\* driver's state (Driver.h:62-66, 115-116).
LEMMA TypeStep == TypeOK /\ [Next]_vars => TypeOK'
<1> SUFFICES ASSUME TypeOK, [Next]_vars PROVE TypeOK'
  OBVIOUS
<1> USE DEF TypeOK
<1>0. 0 \in Optional /\ Processors \subseteq Optional
  BY DEF Optional, Processors
<1>1. CASE DeviceAdd \/ InitAdapter \/ AdapterInitFinished \/ DeviceRemoved \/ ContextDeleted
  BY <1>1 DEF DeviceAdd, InitAdapter, AdapterInitFinished, DeviceRemoved,
              ContextDeleted, calls, thread, frames, DeviceStates
<1>2. ASSUME NEW m \in Monitors, AssignSwapChain(m) PROVE TypeOK'
  BY <1>0, <1>2 DEF AssignSwapChain, Go, frames
<1>3. ASSUME NEW m \in Monitors, DeviceFails(m) PROVE TypeOK'
  BY <1>0, <1>3 DEF DeviceFails, DeleteChain, Go, frames
<1>4. ASSUME NEW m \in Monitors, Construct(m) PROVE TypeOK'
  BY <1>4 DEF Construct, Go, frames, DeviceStates
<1>5. ASSUME NEW m \in Monitors, Publish(m) PROVE TypeOK'
  BY <1>0, <1>5 DEF Publish, Destroy, Go, frames
<1>6. ASSUME NEW m \in Monitors, TakeOut(m) PROVE TypeOK'
  BY <1>0, <1>6 DEF TakeOut, Destroy, Go, frames
<1>7. ASSUME NEW m \in Monitors, Join(m) PROVE TypeOK'
  BY <1>0, <1>7 DEF Join, Go, frames
<1>8. ASSUME NEW n \in Processors, Run(n) PROVE TypeOK'
  <2>1. CASE SetDevice(n) \/ AcquirePending(n)
    BY <2>1 DEF SetDevice, AcquirePending, At, OfThread, calls, frames, DeviceStates
  <2>2. CASE Fails(n)
    BY <2>2 DEF Fails, Ends, DeleteChain, At, OfThread, calls, DeviceStates
  <2>3. CASE AcquireFrame(n)
    BY <2>3 DEF AcquireFrame, OfThread, calls
  <2>4. CASE AccessLost(n)
    BY <2>4 DEF AccessLost, OfThread, calls, frames
  <2>5. CASE WaitFrame(n)
    BY <2>5 DEF WaitFrame, At, OfThread, calls
  <2>6. CASE WaitTerminate(n)
    BY <2>6 DEF WaitTerminate, Ends, DeleteChain, At, OfThread, calls, DeviceStates
  <2> QED BY <1>8, <2>1, <2>2, <2>3, <2>4, <2>5, <2>6 DEF Run
<1>9. ASSUME NEW n \in Processors, FrameArrives(n) PROVE TypeOK'
  BY <1>9 DEF FrameArrives, OfThread, calls
<1>10. CASE GpuResets
  BY <1>10 DEF GpuResets, Removed, calls, frames, DeviceStates
<1>11. CASE UNCHANGED vars
  BY <1>11 DEF vars, calls, thread, frames
<1> QED BY <1>1, <1>2, <1>3, <1>4, <1>5, <1>6, <1>7, <1>8, <1>9, <1>10, <1>11
        DEF Next, Driver, GoesOn, UnassignSwapChain, ResetProcessor

\* The driver's state is always well typed; in particular retryCount never
\* exceeds its bound (Driver.cpp:667).
THEOREM TypeCorrect == Spec => []TypeOK
<1>1. Init => TypeOK
  BY DEF Init, TypeOK, Optional, DeviceStates, Processors
<1> QED BY <1>1, TypeStep, PTL DEF Spec
-----------------------------------------------------------------------------
(* Processors and swap chains.                                             *)

CallInv == \A m \in Monitors :
  /\ newProcessor[m] # 0 <=> call[m] \in {"device", "publish"}
  /\ previousProcessor[m] # 0 <=> call[m] = "join"
ContextInv == context \notin {"up", "dtor"} =>
  \A m \in Monitors : call[m] = "idle" /\ m_ProcessingThreads[m] = 0

\* ThreadsHeld, without the pairs.
HeldOnce == \A l, m \in Monitors :
  /\ m_ProcessingThreads[l] # 0 =>
       /\ m_ProcessingThreads[l] = m_ProcessingThreads[m] => l = m
       /\ m_ProcessingThreads[l] # newProcessor[m]
       /\ m_ProcessingThreads[l] # previousProcessor[m]
  /\ newProcessor[l] # 0 =>
       /\ newProcessor[l] = newProcessor[m] => l = m
       /\ newProcessor[l] # previousProcessor[m]
  /\ previousProcessor[l] # 0 /\ previousProcessor[l] = previousProcessor[m] => l = m
HeldSomewhere == \A n \in Processors : Exists(n) <=> \E m \in Monitors :
  m_ProcessingThreads[m] = n \/ newProcessor[m] = n \/ previousProcessor[m] = n

\* Where a processor is says whether its thread has been started.
Stage(m) ==
  /\ call[m] = "device" => pc[newProcessor[m]] = "none"
  /\ call[m] = "publish" => pc[newProcessor[m]] # "none"
  /\ m_ProcessingThreads[m] # 0 => pc[m_ProcessingThreads[m]] # "none"
  /\ previousProcessor[m] # 0 => pc[previousProcessor[m]] # "none"
StageInv == \A m \in Monitors : Stage(m)
ChainInv == \A n \in Processors :
  /\ chain[n] # "twice"
  /\ pc[n] \notin {"none", "ended"} => chain[n] = "live"
  /\ pc[n] = "ended" => chain[n] = "gone"
  /\ pc[n] = "none" /\ chain[n] = "live" =>
       \E m \in Monitors : call[m] = "device" /\ newProcessor[m] = n
  /\ \A m \in Monitors : call[m] = "device" /\ newProcessor[m] = n => chain[n] = "live"

DriverInv == /\ TypeOK /\ CallInv /\ ContextInv
             /\ HeldOnce /\ HeldSomewhere /\ StageInv /\ ChainInv

\* What is not null is a processor.
LEMMA Named ==
  ASSUME TypeOK, NEW m \in Monitors
  PROVE  /\ newProcessor[m] # 0 => newProcessor[m] \in Processors
         /\ previousProcessor[m] # 0 => previousProcessor[m] \in Processors
         /\ m_ProcessingThreads[m] # 0 => m_ProcessingThreads[m] \in Processors
BY DEF TypeOK, Optional, Processors

\* The device, its adapter and its monitors (Driver.cpp:302-406, 778-810).
LEMMA DeviceStep ==
  ASSUME DriverInv, DeviceAdd \/ InitAdapter \/ AdapterInitFinished
                      \/ DeviceRemoved \/ ContextDeleted
  PROVE  CallInv' /\ ContextInv' /\ HeldOnce' /\ HeldSomewhere' /\ StageInv' /\ ChainInv'
<1>1. UNCHANGED <<calls, m_ProcessingThreads, thread>>
  BY DEF DeviceAdd, InitAdapter, AdapterInitFinished, DeviceRemoved, ContextDeleted
<1>2. CallInv' /\ HeldOnce' /\ HeldSomewhere' /\ StageInv' /\ ChainInv'
  BY <1>1 DEF DriverInv, CallInv, HeldOnce, HeldSomewhere, StageInv, Stage, ChainInv, Exists,
              calls, thread
<1>3. ContextInv'
  BY <1>1 DEF DriverInv, ContextInv, DeviceAdd, InitAdapter, AdapterInitFinished,
              DeviceRemoved, ContextDeleted, AllIdle, calls
<1> QED BY <1>2, <1>3

\* Devices that are removed are nobody's business here (Driver.cpp:449-469).
LEMMA ResetStep ==
  ASSUME DriverInv, GpuResets
  PROVE  CallInv' /\ ContextInv' /\ HeldOnce' /\ HeldSomewhere' /\ StageInv' /\ ChainInv'
BY DEF GpuResets, DriverInv, CallInv, ContextInv, HeldOnce, HeldSomewhere,
       StageInv, Stage, ChainInv, Exists, calls

\* A thread at work, and what Windows does to it (Driver.cpp:545-678).
LEMMA ThreadStep ==
  ASSUME DriverInv, NEW n \in Processors, Run(n) \/ FrameArrives(n)
  PROVE  CallInv' /\ ContextInv' /\ HeldOnce' /\ HeldSomewhere' /\ StageInv' /\ ChainInv'
<1>1. UNCHANGED <<context, calls, m_ProcessingThreads>>
  BY DEF Run, SetDevice, Fails, AcquirePending, AcquireFrame, AccessLost, WaitFrame,
         WaitTerminate, Ends, FrameArrives, OfThread
<1>2. \/ UNCHANGED <<chain, pc>>
      \/ /\ pc[n] \notin {"none", "ended"} /\ UNCHANGED chain
         /\ \E s \in {"acquire", "wait"} : pc' = [pc EXCEPT ![n] = s]
      \/ /\ pc[n] \notin {"none", "ended"} /\ DeleteChain(n)
         /\ pc' = [pc EXCEPT ![n] = "ended"]
  BY DEF Run, SetDevice, Fails, AcquirePending, AcquireFrame, AccessLost, WaitFrame,
         WaitTerminate, Ends, FrameArrives, At
<1> DEFINE Moved(k) == /\ pc'[k] = "none" <=> pc[k] = "none"
                       /\ pc[k] = "none" => chain'[k] = chain[k]
<1> DEFINE Sound(k) == /\ chain'[k] # "twice"
                       /\ pc'[k] \notin {"none", "ended"} => chain'[k] = "live"
                       /\ pc'[k] = "ended" => chain'[k] = "gone"
<1>3. ASSUME NEW k \in Processors PROVE Moved(k) /\ Sound(k)
  <2> USE DEF DriverInv, TypeOK, ChainInv
  <2>1. CASE UNCHANGED <<chain, pc>>
    BY <2>1
  <2>2. CASE /\ pc[n] \notin {"none", "ended"} /\ UNCHANGED chain
             /\ \E s \in {"acquire", "wait"} : pc' = [pc EXCEPT ![n] = s]
    BY <2>2
  <2>3. CASE /\ pc[n] \notin {"none", "ended"} /\ DeleteChain(n)
             /\ pc' = [pc EXCEPT ![n] = "ended"]
    BY <2>3 DEF DeleteChain
  <2> QED BY <1>2, <2>1, <2>2, <2>3
<1>4. CallInv' /\ ContextInv' /\ HeldOnce'
  BY <1>1 DEF DriverInv, CallInv, ContextInv, HeldOnce, calls
<1>5. HeldSomewhere'
  BY <1>1, <1>3 DEF DriverInv, HeldSomewhere, Exists, calls
<1>6. StageInv'
  <2> SUFFICES ASSUME NEW m \in Monitors PROVE Stage(m)'
    BY DEF StageInv
  <2>1. call[m] \in {"device", "publish"} => newProcessor[m] \in Processors
    BY Named DEF DriverInv, CallInv
  <2> QED BY <1>1, <1>3, <2>1, Named DEF DriverInv, StageInv, Stage, calls
<1>7. ChainInv'
  BY <1>1, <1>3, Named DEF DriverInv, ChainInv, StageInv, Stage, calls
<1> QED BY <1>4, <1>5, <1>6, <1>7

\* A swap chain is handed over (Driver.cpp:857-871).
LEMMA AssignStep ==
  ASSUME DriverInv, NEW m \in Monitors, AssignSwapChain(m)
  PROVE  CallInv' /\ ContextInv' /\ HeldOnce' /\ HeldSomewhere' /\ StageInv' /\ ChainInv'
<1> USE DEF DriverInv, TypeOK
<1>1. PICK n \in Processors :
        /\ Unused(n)
        /\ newProcessor' = [newProcessor EXCEPT ![m] = n]
        /\ chain' = [chain EXCEPT ![n] = "live"]
  BY DEF AssignSwapChain
<1>2. /\ call' = [call EXCEPT ![m] = "device"] /\ call[m] = "idle" /\ context = "up"
      /\ UNCHANGED <<context, previousProcessor, m_ProcessingThreads, pc>>
  BY DEF AssignSwapChain, Go
<1>3. ~Exists(n) /\ n # 0
  BY <1>1 DEF Unused, Exists, Processors
<1>4. \A l \in Monitors :
        m_ProcessingThreads[l] # n /\ newProcessor[l] # n /\ previousProcessor[l] # n
  BY <1>3 DEF HeldSomewhere
<1>5. CallInv' /\ ContextInv'
  BY <1>1, <1>2, <1>3 DEF CallInv, ContextInv
<1>6. HeldOnce'
  BY <1>1, <1>2, <1>4 DEF HeldOnce, CallInv
<1>7. HeldSomewhere'
  BY <1>1, <1>2, <1>3 DEF HeldSomewhere, Exists, CallInv
<1>8. StageInv'
  BY <1>1, <1>2, <1>3 DEF StageInv, Stage, Exists
<1>9. ChainInv'
  BY <1>1, <1>2, <1>3, <1>4 DEF ChainInv, Exists
<1> QED BY <1>5, <1>6, <1>7, <1>8, <1>9

\* No device: the swap chain is deleted at once (Driver.cpp:411-417).
LEMMA DeviceFailsStep ==
  ASSUME DriverInv, NEW m \in Monitors, DeviceFails(m)
  PROVE  CallInv' /\ ContextInv' /\ HeldOnce' /\ HeldSomewhere' /\ StageInv' /\ ChainInv'
<1> USE DEF DriverInv, TypeOK
<1> DEFINE n == newProcessor[m]
<1>1. /\ n \in Processors /\ n # 0 /\ pc[n] = "none" /\ chain[n] = "live"
      /\ call[m] = "device"
  BY Named DEF DeviceFails, CallInv, StageInv, Stage, ChainInv
<1>2. /\ call' = [call EXCEPT ![m] = "idle"]
      /\ newProcessor' = [newProcessor EXCEPT ![m] = 0]
      /\ chain' = [chain EXCEPT ![n] = "gone"]
      /\ UNCHANGED <<context, previousProcessor, m_ProcessingThreads, pc>>
  BY <1>1 DEF DeviceFails, DeleteChain, Go
<1>3. \A l \in Monitors : /\ m_ProcessingThreads[l] # n /\ previousProcessor[l] # n
                          /\ newProcessor[l] = n => l = m
  BY <1>1 DEF HeldOnce
<1> HIDE DEF n
<1>4. CallInv' /\ ContextInv'
  BY <1>1, <1>2 DEF CallInv, ContextInv
<1>5. HeldOnce'
  BY <1>2 DEF HeldOnce
<1>6. HeldSomewhere'
  <2> SUFFICES ASSUME NEW k \in Processors
               PROVE  Exists(k)' <=> \E l \in Monitors :
                 (m_ProcessingThreads[l] = k \/ newProcessor[l] = k \/ previousProcessor[l] = k)'
    BY DEF HeldSomewhere
  <2>1. CASE k = n
    BY <1>1, <1>2, <1>3, <2>1 DEF Exists, n
  <2>2. CASE k # n
    <3>1. Exists(k)' <=> Exists(k)
      BY <1>2, <2>2 DEF Exists
    <3>2. \A l \in Monitors : newProcessor'[l] = k <=> newProcessor[l] = k
      BY <1>1, <1>2, <2>2 DEF n, Processors
    <3> QED BY <1>2, <3>1, <3>2 DEF HeldSomewhere
  <2> QED BY <2>1, <2>2
<1>7. StageInv'
  BY <1>2 DEF StageInv, Stage
<1>8. ChainInv'
  BY <1>1, <1>2, <1>3 DEF ChainInv, n
<1> QED BY <1>4, <1>5, <1>6, <1>7, <1>8

\* The processor is made and its thread started (Driver.cpp:420, 519-524).
LEMMA ConstructStep ==
  ASSUME DriverInv, NEW m \in Monitors, Construct(m)
  PROVE  CallInv' /\ ContextInv' /\ HeldOnce' /\ HeldSomewhere' /\ StageInv' /\ ChainInv'
<1> USE DEF DriverInv, TypeOK
<1> DEFINE n == newProcessor[m]
<1>1. /\ n \in Processors /\ n # 0 /\ pc[n] = "none" /\ chain[n] = "live"
      /\ call[m] = "device"
  BY Named DEF Construct, CallInv, StageInv, Stage, ChainInv
<1>2. /\ call' = [call EXCEPT ![m] = "publish"]
      /\ pc' = [pc EXCEPT ![n] = "set"]
      /\ UNCHANGED <<context, newProcessor, previousProcessor, m_ProcessingThreads, chain>>
  BY DEF Construct, Go
<1>3. \A l \in Monitors : /\ m_ProcessingThreads[l] # n /\ previousProcessor[l] # n
                          /\ newProcessor[l] = n => l = m
  BY <1>1 DEF HeldOnce
<1>4. CallInv' /\ ContextInv'
  BY <1>1, <1>2 DEF CallInv, ContextInv
<1>5. HeldOnce'
  BY <1>2 DEF HeldOnce
<1>6. HeldSomewhere'
  BY <1>1, <1>2 DEF HeldSomewhere, Exists
<1>7. StageInv'
  BY <1>1, <1>2, <1>3, Named DEF StageInv, Stage, CallInv
<1>8. ChainInv'
  BY <1>1, <1>2, <1>3 DEF ChainInv
<1> QED BY <1>4, <1>5, <1>6, <1>7, <1>8

\* The slot is filled, what was in it is destroyed (Driver.cpp:422-427).
LEMMA PublishStep ==
  ASSUME DriverInv, NEW m \in Monitors, Publish(m)
  PROVE  CallInv' /\ ContextInv' /\ HeldOnce' /\ HeldSomewhere' /\ StageInv' /\ ChainInv'
<1> USE DEF DriverInv, TypeOK
<1>1. /\ call[m] = "publish" /\ newProcessor[m] # 0 /\ previousProcessor[m] = 0
      /\ context \in {"up", "dtor"}
  BY DEF Publish, CallInv, ContextInv
<1>2. /\ m_ProcessingThreads' = [m_ProcessingThreads EXCEPT ![m] = newProcessor[m]]
      /\ newProcessor' = [newProcessor EXCEPT ![m] = 0]
      /\ previousProcessor' = [previousProcessor EXCEPT ![m] = m_ProcessingThreads[m]]
      /\ call' = [call EXCEPT ![m] = IF m_ProcessingThreads[m] = 0 THEN "idle" ELSE "join"]
      /\ UNCHANGED <<context, chain, pc>>
  BY DEF Publish, Destroy, Go
<1>3. CallInv' /\ ContextInv'
  BY <1>1, <1>2 DEF CallInv, ContextInv
<1>4. HeldOnce'
  BY <1>1, <1>2 DEF HeldOnce
<1>5. HeldSomewhere'
  <2>1. ASSUME NEW k \in Processors, NEW l \in Monitors
        PROVE  (m_ProcessingThreads[l] = k \/ newProcessor[l] = k \/ previousProcessor[l] = k)'
                 <=> m_ProcessingThreads[l] = k \/ newProcessor[l] = k \/ previousProcessor[l] = k
    BY <1>1, <1>2 DEF Processors
  <2> QED BY <1>2, <2>1 DEF HeldSomewhere, Exists
<1>6. StageInv'
  BY <1>1, <1>2 DEF StageInv, Stage
<1>7. ChainInv'
  BY <1>1, <1>2 DEF ChainInv
<1> QED BY <1>3, <1>4, <1>5, <1>6, <1>7

\* The slot is emptied, what was in it is destroyed (Driver.cpp:434-447, 261-269).
LEMMA TakeOutStep ==
  ASSUME DriverInv, NEW m \in Monitors, context \in {"up", "dtor"}, TakeOut(m)
  PROVE  CallInv' /\ ContextInv' /\ HeldOnce' /\ HeldSomewhere' /\ StageInv' /\ ChainInv'
<1> USE DEF DriverInv, TypeOK
<1>1. /\ call[m] = "idle" /\ newProcessor[m] = 0 /\ previousProcessor[m] = 0
      /\ m_ProcessingThreads[m] # 0
  BY DEF TakeOut, CallInv
<1>2. /\ m_ProcessingThreads' = [m_ProcessingThreads EXCEPT ![m] = 0]
      /\ previousProcessor' = [previousProcessor EXCEPT ![m] = m_ProcessingThreads[m]]
      /\ call' = [call EXCEPT ![m] = "join"]
      /\ UNCHANGED <<context, newProcessor, chain, pc>>
  BY <1>1 DEF TakeOut, Destroy, Go
<1>3. CallInv' /\ ContextInv'
  BY <1>1, <1>2 DEF CallInv, ContextInv
<1>4. HeldOnce'
  BY <1>1, <1>2 DEF HeldOnce
<1>5. HeldSomewhere'
  <2>1. ASSUME NEW k \in Processors, NEW l \in Monitors
        PROVE  (m_ProcessingThreads[l] = k \/ newProcessor[l] = k \/ previousProcessor[l] = k)'
                 <=> m_ProcessingThreads[l] = k \/ newProcessor[l] = k \/ previousProcessor[l] = k
    BY <1>1, <1>2 DEF Processors
  <2> QED BY <1>2, <2>1 DEF HeldSomewhere, Exists
<1>6. StageInv'
  BY <1>1, <1>2 DEF StageInv, Stage
<1>7. ChainInv'
  BY <1>1, <1>2 DEF ChainInv
<1> QED BY <1>3, <1>4, <1>5, <1>6, <1>7

\* The thread has ended; the processor is freed (Driver.cpp:526-537).
LEMMA JoinStep ==
  ASSUME DriverInv, NEW m \in Monitors, Join(m)
  PROVE  CallInv' /\ ContextInv' /\ HeldOnce' /\ HeldSomewhere' /\ StageInv' /\ ChainInv'
<1> USE DEF DriverInv, TypeOK
<1> DEFINE n == previousProcessor[m]
<1>1. /\ call[m] = "join" /\ n \in Processors /\ n # 0 /\ newProcessor[m] = 0
      /\ pc[n] = "ended" /\ chain[n] = "gone" /\ context \in {"up", "dtor"}
  BY Named DEF Join, CallInv, ContextInv, ChainInv
<1>2. /\ call' = [call EXCEPT ![m] = "idle"]
      /\ previousProcessor' = [previousProcessor EXCEPT ![m] = 0]
      /\ pc' = [pc EXCEPT ![n] = "none"]
      /\ UNCHANGED <<context, newProcessor, m_ProcessingThreads, chain>>
  BY DEF Join, Go
<1>3. \A l \in Monitors : /\ m_ProcessingThreads[l] # n /\ newProcessor[l] # n
                          /\ previousProcessor[l] = n => l = m
  BY <1>1 DEF HeldOnce
<1> HIDE DEF n
<1>4. CallInv' /\ ContextInv'
  BY <1>1, <1>2 DEF CallInv, ContextInv
<1>5. HeldOnce'
  BY <1>2 DEF HeldOnce
<1>6. HeldSomewhere'
  <2> SUFFICES ASSUME NEW k \in Processors
               PROVE  Exists(k)' <=> \E l \in Monitors :
                 (m_ProcessingThreads[l] = k \/ newProcessor[l] = k \/ previousProcessor[l] = k)'
    BY DEF HeldSomewhere
  <2>1. CASE k = n
    BY <1>1, <1>2, <1>3, <2>1 DEF Exists, n
  <2>2. CASE k # n
    <3>1. Exists(k)' <=> Exists(k)
      BY <1>2, <2>2 DEF Exists
    <3>2. \A l \in Monitors : previousProcessor'[l] = k <=> previousProcessor[l] = k
      BY <1>1, <1>2, <2>2 DEF n, Processors
    <3> QED BY <1>2, <3>1, <3>2 DEF HeldSomewhere
  <2> QED BY <2>1, <2>2
<1>7. StageInv'
  BY <1>1, <1>2, <1>3, Named DEF StageInv, Stage, CallInv
<1>8. ChainInv'
  BY <1>1, <1>2 DEF ChainInv
<1> QED BY <1>4, <1>5, <1>6, <1>7, <1>8

\* Together: the invariant of the driver.
LEMMA DriverInvHolds == Spec => []DriverInv
<1>1. Init => DriverInv
  <2> SUFFICES ASSUME Init PROVE DriverInv
    OBVIOUS
  <2>1. TypeOK
    BY DEF Init, TypeOK, Optional, DeviceStates, Processors
  <2> QED BY <2>1 DEF Init, DriverInv, CallInv, ContextInv, HeldOnce, HeldSomewhere,
                      StageInv, Stage, ChainInv, Exists, Processors
<1>2. DriverInv /\ [Next]_vars => DriverInv'
  <2> SUFFICES ASSUME DriverInv, [Next]_vars
               PROVE  /\ CallInv' /\ ContextInv' /\ HeldOnce' /\ HeldSomewhere'
                      /\ StageInv' /\ ChainInv'
    BY TypeStep DEF DriverInv
  <2>1. CASE DeviceAdd \/ InitAdapter \/ AdapterInitFinished
               \/ DeviceRemoved \/ ContextDeleted
    BY <2>1, DeviceStep
  <2>2. ASSUME NEW m \in Monitors,
               AssignSwapChain(m) \/ UnassignSwapChain(m) \/ ResetProcessor(m) \/ GoesOn(m)
        PROVE  /\ CallInv' /\ ContextInv' /\ HeldOnce' /\ HeldSomewhere'
               /\ StageInv' /\ ChainInv'
    BY <2>2, AssignStep, TakeOutStep, DeviceFailsStep, ConstructStep, PublishStep, JoinStep
       DEF UnassignSwapChain, ResetProcessor, GoesOn
  <2>3. ASSUME NEW n \in Processors, Run(n) \/ FrameArrives(n)
        PROVE  /\ CallInv' /\ ContextInv' /\ HeldOnce' /\ HeldSomewhere'
               /\ StageInv' /\ ChainInv'
    BY <2>3, ThreadStep
  <2>4. CASE GpuResets
    BY <2>4, ResetStep
  <2>5. CASE UNCHANGED vars
    BY <2>5 DEF vars, calls, thread, DriverInv, CallInv, ContextInv, HeldOnce,
                HeldSomewhere, StageInv, Stage, ChainInv, Exists
  <2> QED BY <2>1, <2>2, <2>3, <2>4, <2>5 DEF Next, Driver
<1> QED BY <1>1, <1>2, PTL DEF Spec

\* The terminate events (Driver.cpp:519-537, 629-642).
LEMMA ToldStep ==
  ASSUME DriverInv, ToldWhenJoined, [Next]_vars
  PROVE  ToldWhenJoined'
<1> USE DEF DriverInv, TypeOK, ToldWhenJoined
<1>0. \A m \in Monitors : call[m] = "join" => previousProcessor[m] \in Processors \ {0}
  BY Named DEF CallInv, Processors
<1>1. CASE UNCHANGED <<calls, pc, m_hTerminateEvent>>
  BY <1>1 DEF calls
<1>2. CASE DeviceAdd \/ InitAdapter \/ AdapterInitFinished \/ DeviceRemoved \/ ContextDeleted
             \/ GpuResets \/ UNCHANGED vars
  BY <1>1, <1>2 DEF DeviceAdd, InitAdapter, AdapterInitFinished, DeviceRemoved, ContextDeleted,
     GpuResets, vars, thread
<1>3. ASSUME NEW m \in Monitors, AssignSwapChain(m) \/ DeviceFails(m)
      PROVE  ToldWhenJoined'
  <2>1. /\ UNCHANGED <<previousProcessor, pc, m_hTerminateEvent>>
        /\ call[m] # "join" /\ \E s \in {"idle", "device"} : call' = [call EXCEPT ![m] = s]
    BY <1>3 DEF AssignSwapChain, DeviceFails, Go
  <2> QED
    BY <2>1
\* A new processor is nobody's to destroy.
<1>4. ASSUME NEW m \in Monitors, Construct(m)
      PROVE  ToldWhenJoined'
  <2> DEFINE n == newProcessor[m]
  <2>1. /\ call[m] = "device" /\ call' = [call EXCEPT ![m] = "publish"] /\ n # 0
        /\ pc' = [pc EXCEPT ![n] = "set"] /\ UNCHANGED previousProcessor
        /\ m_hTerminateEvent' = [m_hTerminateEvent EXCEPT ![n] = FALSE]
    BY <1>4 DEF Construct, Go, CallInv
  <2>2. \A l \in Monitors : previousProcessor[l] # n
    BY <2>1 DEF HeldOnce
  <2> HIDE DEF n
  <2> QED
    BY <1>0, <2>1, <2>2
<1>5. ASSUME NEW m \in Monitors, call[m] # "join", UNCHANGED pc,
             Destroy(m, m_ProcessingThreads[m])
      PROVE  ToldWhenJoined'
  <2> DEFINE n == m_ProcessingThreads[m]
  <2>1. CASE n = 0
    <3>1. /\ call' = [call EXCEPT ![m] = "idle"] /\ UNCHANGED m_hTerminateEvent
          /\ \A l \in Monitors : l # m => previousProcessor'[l] = previousProcessor[l]
      BY <1>5, <2>1 DEF Destroy, Go
    <3> QED
      BY <1>5, <3>1
  <2>2. CASE n # 0
    <3>1. /\ call' = [call EXCEPT ![m] = "join"] /\ n \in Processors
          /\ m_hTerminateEvent' = [m_hTerminateEvent EXCEPT ![n] = TRUE]
          /\ previousProcessor' = [previousProcessor EXCEPT ![m] = n]
      BY <1>5, <2>2, Named DEF Destroy, Go
    <3> HIDE DEF n
    <3>2. \A l \in Monitors : call'[l] = "join" =>
            m_hTerminateEvent'[previousProcessor'[l]] \/ pc[previousProcessor'[l]] = "ended"
      BY <1>0, <3>1
    <3>3. \A k \in Processors : m_hTerminateEvent'[k] =>
            \E l \in Monitors : call'[l] = "join" /\ previousProcessor'[l] = k
      BY <1>5, <3>1
    <3> QED
      BY <1>5, <3>2, <3>3
  <2> QED
    BY <2>1, <2>2
<1>6. ASSUME NEW m \in Monitors, Publish(m) \/ TakeOut(m)
      PROVE  ToldWhenJoined'
  BY <1>5, <1>6 DEF Publish, TakeOut
<1>7. ASSUME NEW m \in Monitors, Join(m)
      PROVE  ToldWhenJoined'
  <2> DEFINE n == previousProcessor[m]
  <2>1. /\ call[m] = "join" /\ call' = [call EXCEPT ![m] = "idle"] /\ n \in Processors \ {0}
        /\ pc' = [pc EXCEPT ![n] = "none"]
        /\ m_hTerminateEvent' = [m_hTerminateEvent EXCEPT ![n] = FALSE]
        /\ previousProcessor' = [previousProcessor EXCEPT ![m] = 0]
    BY <1>0, <1>7 DEF Join, Go
  <2>2. \A l \in Monitors : previousProcessor[l] = n => l = m
    BY <2>1 DEF HeldOnce
  <2> HIDE DEF n
  <2>3. \A l \in Monitors : call'[l] = "join" => l # m /\ call[l] = "join"
                              /\ previousProcessor'[l] = previousProcessor[l]
    BY <2>1
  <2>4. \A k \in Processors : m_hTerminateEvent'[k] => k # n /\ m_hTerminateEvent[k]
    BY <2>1
  <2>5. \A l \in Monitors : call[l] = "join" /\ previousProcessor[l] # n =>
                              call'[l] = "join" /\ previousProcessor'[l] = previousProcessor[l]
    BY <2>1 DEF n
  <2> QED
    BY <1>0, <2>1, <2>2, <2>3, <2>4, <2>5
\* A thread that is told ends, and does not take back that it did.
<1>8. ASSUME NEW n \in Processors, Run(n) \/ FrameArrives(n)
      PROVE  ToldWhenJoined'
  <2>1. UNCHANGED calls
    BY <1>8 DEF Run, SetDevice, Fails, AcquirePending, AcquireFrame, AccessLost, WaitFrame,
       WaitTerminate, Ends, FrameArrives, OfThread
  <2>2. \/ UNCHANGED <<pc, m_hTerminateEvent>>
        \/ pc[n] # "ended" /\ UNCHANGED m_hTerminateEvent /\ \E s : pc' = [pc EXCEPT ![n] = s]
        \/ /\ pc' = [pc EXCEPT ![n] = "ended"]
           /\ m_hTerminateEvent' = [m_hTerminateEvent EXCEPT ![n] = FALSE]
    BY <1>8 DEF Run, SetDevice, Fails, AcquirePending, AcquireFrame, AccessLost, WaitFrame,
       WaitTerminate, Ends, FrameArrives, At
  <2>3. \A k \in Processors :
          /\ m_hTerminateEvent[k] \/ pc[k] = "ended" => m_hTerminateEvent'[k] \/ pc'[k] = "ended"
          /\ m_hTerminateEvent'[k] => m_hTerminateEvent[k]
    BY <2>2
  <2> QED
    BY <1>0, <2>1, <2>3 DEF calls
<1> QED
  BY <1>2, <1>3, <1>4, <1>6, <1>7, <1>8
  DEF Next, Driver, GoesOn, UnassignSwapChain, ResetProcessor

\* A swap chain is deleted exactly once, when its consumer is gone
\* (Driver.cpp:415, 553-557).
THEOREM ChainsAccountedHolds == Spec => []ChainsAccounted
<1>1. DriverInv => ChainsAccounted
  BY DEF DriverInv, TypeOK, ChainInv, ChainsAccounted
<1> QED BY <1>1, DriverInvHolds, PTL

\* A processor is in one place only, and each thread's processor is in one:
\* every thread is joined, no processor is freed twice (Driver.cpp:408-447).
THEOREM ThreadsHeldHolds == Spec => []ThreadsHeld
<1>1. DriverInv => ThreadsHeld
  <2> SUFFICES ASSUME DriverInv PROVE ThreadsHeld
    OBVIOUS
  <2>1. ASSUME NEW n \in Processors
        PROVE  Exists(n) <=> \E h \in Places : Held(h) = n
    <3>1. ASSUME NEW m \in Monitors
          PROVE  /\ <<m, "map">> \in Places /\ Held(<<m, "map">>) = m_ProcessingThreads[m]
                 /\ <<m, "new">> \in Places /\ Held(<<m, "new">>) = newProcessor[m]
                 /\ <<m, "previous">> \in Places
                 /\ Held(<<m, "previous">>) = previousProcessor[m]
      BY DEF Places, Held
    <3>2. ASSUME NEW h \in Places
          PROVE  /\ h[1] \in Monitors
                 /\ \/ Held(h) = m_ProcessingThreads[h[1]] \/ Held(h) = newProcessor[h[1]]
                    \/ Held(h) = previousProcessor[h[1]]
      BY DEF Places, Held
    <3>3. Exists(n) <=> \E m \in Monitors :
            m_ProcessingThreads[m] = n \/ newProcessor[m] = n \/ previousProcessor[m] = n
      BY DEF DriverInv, HeldSomewhere
    <3>4. ASSUME NEW m \in Monitors,
                 m_ProcessingThreads[m] = n \/ newProcessor[m] = n \/ previousProcessor[m] = n
          PROVE  \E h \in Places : Held(h) = n
      BY <3>1, <3>4
    <3>5. ASSUME NEW h \in Places, Held(h) = n PROVE Exists(n)
      BY <3>2, <3>3, <3>5
    <3> QED BY <3>3, <3>4, <3>5
  <2>2. ASSUME NEW g \in Places, NEW h \in Places, Held(g) = Held(h), Held(g) # 0
        PROVE  g = h
    <3>1. PICK l \in Monitors, i \in {"map", "new", "previous"} : g = <<l, i>>
      BY DEF Places
    <3>2. PICK m \in Monitors, j \in {"map", "new", "previous"} : h = <<m, j>>
      BY DEF Places
    <3> QED BY <2>2, <3>1, <3>2 DEF DriverInv, HeldOnce, Held
  <2> QED BY <2>1, <2>2 DEF ThreadsHeld
<1> QED BY <1>1, DriverInvHolds, PTL

\* The context goes only after every thread (Driver.cpp:261-269).
THEOREM NoThreadWithoutContextHolds == Spec => []NoThreadWithoutContext
<1>1. DriverInv => NoThreadWithoutContext
  BY DEF DriverInv, ContextInv, CallInv, HeldSomewhere, Exists, Processors,
         NoThreadWithoutContext
<1> QED BY <1>1, DriverInvHolds, PTL

\* A call that waits for a thread has told it to end, and no other thread is
\* told, for any number of monitors and of processors (Driver.cpp:528-535,
\* 629-641).
THEOREM ToldWhenJoinedHolds == Spec => []ToldWhenJoined
<1>1. Init => ToldWhenJoined
  BY DEF Init, ToldWhenJoined, Processors
<1>2. DriverInv /\ ToldWhenJoined /\ [Next]_vars => ToldWhenJoined'
  BY ToldStep
<1> QED BY <1>1, <1>2, DriverInvHolds, PTL DEF Spec
=============================================================================
