----------------------------- MODULE SwapChains -----------------------------
(***************************************************************************)
(* The display driver, Driver.cpp: the monitors it creates, the swap       *)
(* chains Windows hands it for them, and the SwapChainProcessor, with a    *)
(* thread of its own, that consumes each.                                  *)
(*                                                                         *)
(* Windows (IddCx) calls AssignSwapChain and UnassignSwapChain, one call   *)
(* at a time for a monitor but at once for different ones, and deletes the *)
(* driver's context when the device goes and nothing is in progress.  A    *)
(* call that destroys a processor sets its terminate event and joins its   *)
(* thread.  What is under m_ProcessingThreadsMutex or s_DeviceCacheMutex   *)
(* is one step: nothing in it waits for another thread.                    *)
(*                                                                         *)
(* Processors are numbered, and a swap chain has the number of its         *)
(* processor.  A number is used again once processor and swap chain are    *)
(* gone, so that assignments never run out.                                *)
(***************************************************************************)
EXTENDS Naturals, FiniteSets

CONSTANTS
  Monitors,
  MaxProcessors,  \* bound on the processors that exist at once
  MaxRetries      \* ACCESS_LOST in a row that RunCore puts up with

ASSUME BoundsAssumption == MaxProcessors \in Nat /\ MaxRetries \in Nat

Processors == 1..MaxProcessors    \* 0 is null

VARIABLES
  context,        \* the IndirectDeviceContext and its adapter
  arrived,        \* monitors that are plugged in
  \* the call in progress for a monitor: where it is, the processor it
  \* makes, the processor it destroys
  call, newProcessor, previousProcessor,
  m_ProcessingThreads, s_DeviceCache,
  \* of each processor; the swap chain is "live", "gone" or "twice" deleted,
  \* a Direct3DDevice "none", "good" or "removed"
  chain, pc, m_Device, retryCount, m_hTerminateEvent,
  frameEvent, surface   \* hNextSurfaceAvailable; a buffer can be acquired

calls  == <<call, newProcessor, previousProcessor>>
frames == <<frameEvent, surface>>
thread == <<chain, pc, m_Device, retryCount, m_hTerminateEvent, frames>>
vars   == <<context, arrived, calls, m_ProcessingThreads, s_DeviceCache, thread>>

Optional == 0..MaxProcessors
DeviceStates == {"none", "good", "removed"}

TypeOK ==
  /\ context \in {"none", "added", "adapter", "up", "dtor"}
  /\ arrived \in SUBSET Monitors
  /\ call \in [Monitors -> {"idle", "device", "publish", "join"}]
  /\ newProcessor \in [Monitors -> Optional]
  /\ previousProcessor \in [Monitors -> Optional]
  /\ m_ProcessingThreads \in [Monitors -> Optional]
  /\ s_DeviceCache \in DeviceStates
  /\ chain \in [Processors -> {"live", "gone", "twice"}]
  /\ pc \in [Processors -> {"none", "set", "acquire", "wait", "ended"}]
  /\ m_Device \in [Processors -> DeviceStates]
  /\ retryCount \in [Processors -> 0..MaxRetries]
  /\ m_hTerminateEvent \in [Processors -> BOOLEAN]
  /\ frameEvent \in [Processors -> BOOLEAN]
  /\ surface \in [Processors -> BOOLEAN]

Init ==
  /\ context = "none" /\ arrived = {}
  /\ call = [m \in Monitors |-> "idle"]
  /\ newProcessor = [m \in Monitors |-> 0]
  /\ previousProcessor = [m \in Monitors |-> 0]
  /\ m_ProcessingThreads = [m \in Monitors |-> 0]
  /\ s_DeviceCache = "none"
  /\ chain = [n \in Processors |-> "gone"]
  /\ pc = [n \in Processors |-> "none"]
  /\ m_Device = [n \in Processors |-> "none"]
  /\ retryCount = [n \in Processors |-> 0]
  /\ m_hTerminateEvent = [n \in Processors |-> FALSE]
  /\ frameEvent = [n \in Processors |-> FALSE]
  /\ surface = [n \in Processors |-> FALSE]

-----------------------------------------------------------------------------
(* Device, adapter and monitors.                                           *)

\* A new context; the device cache is static and may be that of the last one.
DeviceAdd ==
  /\ context = "none"
  /\ context' = "added"
  /\ s_DeviceCache' \in {"none", s_DeviceCache}
  /\ UNCHANGED <<arrived, calls, m_ProcessingThreads, thread>>

\* IddCxAdapterInitAsync, if it fails, leaves the device without displays.
InitAdapter ==
  /\ context = "added"
  /\ context' = "adapter"
  /\ UNCHANGED <<arrived, calls, m_ProcessingThreads, s_DeviceCache, thread>>

\* FinishInit: each monitor is created and announced, or fails on its own.
AdapterInitFinished ==
  /\ context = "adapter"
  /\ context' = "up"
  /\ arrived' \in SUBSET Monitors
  /\ UNCHANGED <<calls, m_ProcessingThreads, s_DeviceCache, thread>>

-----------------------------------------------------------------------------
(* Calls that make, replace or remove a processor.                         *)

Go(m, s) == call' = [call EXCEPT ![m] = s]

\* Nobody has anything of processor n any more.
Unused(n) == pc[n] = "none" /\ chain[n] = "gone"

\* Mutant: the event is pulsed, and a thread that is not waiting misses it.
DestroyPulses(m, n) ==
  /\ previousProcessor' = [previousProcessor EXCEPT ![m] = n]
  /\ IF n = 0 THEN /\ Go(m, "idle")
                   /\ UNCHANGED m_hTerminateEvent
              ELSE /\ Go(m, "join")
                   /\ m_hTerminateEvent' = [m_hTerminateEvent EXCEPT ![n] = pc[n] = "wait"]

\* ~SwapChainProcessor, if there is one, sets the event and waits; then the
\* call returns.
Destroy(m, n) ==
  /\ previousProcessor' = [previousProcessor EXCEPT ![m] = n]
  /\ IF n = 0 THEN /\ Go(m, "idle")
                   /\ UNCHANGED m_hTerminateEvent
              ELSE /\ Go(m, "join")
                   /\ m_hTerminateEvent' = [m_hTerminateEvent EXCEPT ![n] = TRUE]

\* WdfObjectDelete.
DeleteChain(n) ==
  chain' = [chain EXCEPT ![n] = IF @ = "live" THEN "gone" ELSE "twice"]

AssignSwapChain(m) ==
  /\ context = "up" /\ m \in arrived /\ call[m] = "idle"
  /\ \E n \in Processors :
       /\ Unused(n) /\ \A k \in 1..(n - 1) : ~Unused(k)
       /\ newProcessor' = [newProcessor EXCEPT ![m] = n]
       /\ chain' = [chain EXCEPT ![n] = "live"]
  /\ Go(m, "device")
  /\ UNCHANGED <<context, arrived, previousProcessor, m_ProcessingThreads,
                 s_DeviceCache, pc, m_Device, retryCount, m_hTerminateEvent, frames>>

\* Mutant: the swap chain is left to a processor that is never made.
DeviceFailsKeepsChain(m) ==
  /\ call[m] = "device" /\ s_DeviceCache = "none"
  /\ newProcessor' = [newProcessor EXCEPT ![m] = 0]
  /\ Go(m, "idle")
  /\ UNCHANGED <<context, arrived, previousProcessor, m_ProcessingThreads,
                 s_DeviceCache, thread>>

\* GetOrCreateDevice returns null.
DeviceFails(m) ==
  /\ call[m] = "device" /\ s_DeviceCache = "none"
  /\ DeleteChain(newProcessor[m])
  /\ newProcessor' = [newProcessor EXCEPT ![m] = 0]
  /\ Go(m, "idle")
  /\ UNCHANGED <<context, arrived, previousProcessor, m_ProcessingThreads,
                 s_DeviceCache, pc, m_Device, retryCount, m_hTerminateEvent, frames>>

\* What is in the cache is returned whether it works or not.  The constructor
\* makes an event that is not set, and a thread that runs at once.
Construct(m) ==
  LET n == newProcessor[m] IN
  /\ call[m] = "device"
  /\ s_DeviceCache' = IF s_DeviceCache = "none" THEN "good" ELSE s_DeviceCache
  /\ m_Device' = [m_Device EXCEPT ![n] = s_DeviceCache']
  /\ m_hTerminateEvent' = [m_hTerminateEvent EXCEPT ![n] = FALSE]
  /\ pc' = [pc EXCEPT ![n] = "set"]
  /\ Go(m, "publish")
  /\ UNCHANGED <<context, arrived, newProcessor, previousProcessor,
                 m_ProcessingThreads, chain, retryCount, frames>>

\* Mutant: the slot is overwritten, and what was in it is forgotten.
PublishForgets(m) ==
  /\ call[m] = "publish"
  /\ m_ProcessingThreads' = [m_ProcessingThreads EXCEPT ![m] = newProcessor[m]]
  /\ newProcessor' = [newProcessor EXCEPT ![m] = 0]
  /\ Destroy(m, 0)
  /\ UNCHANGED <<context, arrived, s_DeviceCache, chain, pc, m_Device, retryCount, frames>>

Publish(m) ==
  /\ call[m] = "publish"
  /\ m_ProcessingThreads' = [m_ProcessingThreads EXCEPT ![m] = newProcessor[m]]
  /\ newProcessor' = [newProcessor EXCEPT ![m] = 0]
  /\ Destroy(m, m_ProcessingThreads[m])
  /\ UNCHANGED <<context, arrived, s_DeviceCache, chain, pc, m_Device, retryCount, frames>>

\* A processor is taken out of the map, to be destroyed.
TakeOut(m) ==
  /\ call[m] = "idle" /\ m_ProcessingThreads[m] # 0
  /\ m_ProcessingThreads' = [m_ProcessingThreads EXCEPT ![m] = 0]
  /\ Destroy(m, m_ProcessingThreads[m])
  /\ UNCHANGED <<context, arrived, newProcessor, s_DeviceCache,
                 chain, pc, m_Device, retryCount, frames>>

UnassignSwapChain(m) == context = "up" /\ TakeOut(m)

\* WaitForSingleObject returns, and with it the call.
Join(m) ==
  LET n == previousProcessor[m] IN
  /\ call[m] = "join" /\ pc[n] = "ended"
  /\ pc' = [pc EXCEPT ![n] = "none"]
  /\ m_hTerminateEvent' = [m_hTerminateEvent EXCEPT ![n] = FALSE]
  /\ previousProcessor' = [previousProcessor EXCEPT ![m] = 0]
  /\ Go(m, "idle")
  /\ UNCHANGED <<context, arrived, newProcessor, m_ProcessingThreads, s_DeviceCache,
                 chain, m_Device, retryCount, frames>>

AllIdle == \A m \in Monitors : call[m] = "idle"

DeviceRemoved ==
  /\ context \notin {"none", "dtor"} /\ AllIdle
  /\ context' = "dtor" /\ arrived' = {}
  /\ UNCHANGED <<calls, m_ProcessingThreads, s_DeviceCache, thread>>

\* ~IndirectDeviceContext: one processor after the other, without the lock.
ResetProcessor(m) == context = "dtor" /\ AllIdle /\ TakeOut(m)

\* Mutant: the map is left to look after itself.
ContextDeletedAtOnce ==
  /\ context = "dtor" /\ AllIdle
  /\ context' = "none"
  /\ UNCHANGED <<arrived, calls, m_ProcessingThreads, s_DeviceCache, thread>>

ContextDeleted ==
  /\ context = "dtor" /\ AllIdle
  /\ \A m \in Monitors : m_ProcessingThreads[m] = 0
  /\ context' = "none"
  /\ UNCHANGED <<arrived, calls, m_ProcessingThreads, s_DeviceCache, thread>>

GoesOn(m) == DeviceFails(m) \/ Construct(m) \/ Publish(m) \/ Join(m)
Driver ==
  \/ DeviceAdd \/ InitAdapter \/ AdapterInitFinished
  \/ DeviceRemoved \/ ContextDeleted
  \/ \E m \in Monitors :
       AssignSwapChain(m) \/ UnassignSwapChain(m) \/ ResetProcessor(m) \/ GoesOn(m)

-----------------------------------------------------------------------------
(* SwapChainProcessor::Run, in a thread for each processor.                *)

At(n, s) == pc' = [pc EXCEPT ![n] = s]
OfThread == UNCHANGED <<context, arrived, calls, m_ProcessingThreads, s_DeviceCache>>

\* A device that was removed is refused.
SetDevice(n) ==
  /\ pc[n] = "set" /\ m_Device[n] = "good"
  /\ At(n, "acquire")
  /\ m_Device' = [m_Device EXCEPT ![n] = "none"]   \* not looked at again
  /\ OfThread
  /\ UNCHANGED <<chain, retryCount, m_hTerminateEvent, frames>>

\* RunCore returns, the swap chain is deleted, the thread ends.
Ends(n) ==
  /\ At(n, "ended")
  /\ DeleteChain(n)
  /\ m_Device' = [m_Device EXCEPT ![n] = "none"]
  /\ retryCount' = [retryCount EXCEPT ![n] = 0]
  /\ frameEvent' = [frameEvent EXCEPT ![n] = FALSE]
  /\ surface' = [surface EXCEPT ![n] = FALSE]
  /\ OfThread

\* No device, a refused one, or a failure to acquire or to finish a frame.
Fails(n) ==
  /\ pc[n] \in {"set", "acquire"}
  /\ Ends(n)
  /\ UNCHANGED m_hTerminateEvent

AcquirePending(n) ==
  /\ pc[n] = "acquire" /\ ~surface[n]
  /\ At(n, "wait")
  /\ OfThread
  /\ UNCHANGED <<chain, m_Device, retryCount, m_hTerminateEvent, frames>>

\* A frame is acquired, dropped and acknowledged.
AcquireFrame(n) ==
  /\ pc[n] = "acquire" /\ surface[n]
  /\ surface' = [surface EXCEPT ![n] = FALSE]
  /\ retryCount' = [retryCount EXCEPT ![n] = 0]
  /\ OfThread
  /\ UNCHANGED <<chain, pc, m_Device, m_hTerminateEvent, frameEvent>>

\* Mutant: the count starts again when it is at its end.
AccessLostForever(n) ==
  /\ pc[n] = "acquire"
  /\ retryCount' = [retryCount EXCEPT ![n] = IF @ < MaxRetries THEN @ + 1 ELSE 0]
  /\ OfThread
  /\ UNCHANGED <<chain, pc, m_Device, m_hTerminateEvent, frames>>

\* Mutant: one time too many.
AccessLostOnceMore(n) ==
  /\ pc[n] = "acquire" /\ retryCount[n] <= MaxRetries
  /\ retryCount' = [retryCount EXCEPT ![n] = @ + 1]
  /\ OfThread
  /\ UNCHANGED <<chain, pc, m_Device, m_hTerminateEvent, frames>>

\* The presenter restarts: sleep and try again.
AccessLost(n) ==
  /\ pc[n] = "acquire" /\ retryCount[n] < MaxRetries
  /\ retryCount' = [retryCount EXCEPT ![n] = @ + 1]
  /\ OfThread
  /\ UNCHANGED <<chain, pc, m_Device, m_hTerminateEvent, frames>>

\* WaitForMultipleObjects returns the first handle that is set and resets it:
\* a frame goes before the end.
WaitFrame(n) ==
  /\ pc[n] = "wait" /\ frameEvent[n]
  /\ frameEvent' = [frameEvent EXCEPT ![n] = FALSE]
  /\ At(n, "acquire")
  /\ OfThread
  /\ UNCHANGED <<chain, m_Device, retryCount, m_hTerminateEvent, surface>>

WaitTerminate(n) ==
  /\ pc[n] = "wait" /\ ~frameEvent[n] /\ m_hTerminateEvent[n]
  /\ m_hTerminateEvent' = [m_hTerminateEvent EXCEPT ![n] = FALSE]
  /\ Ends(n)

Run(n) ==
  \/ SetDevice(n) \/ Fails(n) \/ AcquirePending(n) \/ AcquireFrame(n)
  \/ AccessLost(n) \/ WaitFrame(n) \/ WaitTerminate(n)

-----------------------------------------------------------------------------
(* Windows.                                                                *)

\* The swap chain a monitor is presented on: not one it is being relieved of.
Presented(n) == \E m \in Monitors :
  \/ call[m] = "publish" /\ newProcessor[m] = n
  \/ call[m] \in {"idle", "join"} /\ m_ProcessingThreads[m] = n

FrameArrives(n) ==
  /\ context = "up" /\ Presented(n) /\ pc[n] \in {"acquire", "wait"}
  /\ frameEvent' = [frameEvent EXCEPT ![n] = TRUE]
  /\ surface' = [surface EXCEPT ![n] = TRUE]
  /\ OfThread
  /\ UNCHANGED <<chain, pc, m_Device, retryCount, m_hTerminateEvent>>

\* Every device made before is removed; who uses it may fail from now on.
Removed(d) == IF d = "good" THEN "removed" ELSE d
GpuResets ==
  /\ s_DeviceCache = "good"
  /\ s_DeviceCache' = "removed"
  /\ m_Device' = [n \in Processors |-> Removed(m_Device[n])]
  /\ UNCHANGED <<context, arrived, calls, m_ProcessingThreads,
                 chain, pc, retryCount, m_hTerminateEvent, frames>>

Next ==
  \/ Driver \/ GpuResets
  \/ \E n \in Processors : Run(n) \/ FrameArrives(n)

Spec == Init /\ [][Next]_vars

(* Threads and calls that can run do run.  Nothing says that Windows calls *)
(* the driver, presents anything, or that a call of the driver succeeds.   *)
FairSpec ==
  /\ Spec
  /\ \A m \in Monitors : WF_vars(GoesOn(m))
  /\ \A n \in Processors : WF_vars(Run(n))

(* For refuting only: the device is added and starts, a swap chain that    *)
(* ended is followed by another, and what can be set up is, now and then.  *)
Serves(m) == m_ProcessingThreads[m] # 0 /\ pc[m_ProcessingThreads[m]] # "ended"
WorkingSpec ==
  /\ FairSpec
  /\ WF_vars(DeviceAdd) /\ WF_vars(InitAdapter) /\ WF_vars(AdapterInitFinished)
  /\ \A m \in Monitors : SF_vars(~Serves(m) /\ AssignSwapChain(m)) /\ SF_vars(Construct(m))
  /\ \A n \in Processors : SF_vars(SetDevice(n))
-----------------------------------------------------------------------------
(* Safety.                                                                 *)

\* A swap chain is deleted once, and as soon as nobody is going to consume
\* it: also when no device could be made for it, when its thread gave up on
\* its own while it is still in the map, and when another one replaced it.
ChainsAccounted == \A n \in Processors :
  /\ chain[n] # "twice"
  /\ chain[n] = "live" <=>
       \/ pc[n] \notin {"none", "ended"}
       \/ \E m \in Monitors : call[m] = "device" /\ newProcessor[m] = n

\* What exists of a processor is in exactly one place: the map, the call that
\* makes it, or the call that destroys it.  A thread without a place would go
\* on for ever, on a processor that nobody joins; with two, its processor is
\* freed twice.
Places == Monitors \X {"map", "new", "previous"}
Held(h) == CASE h[2] = "map" -> m_ProcessingThreads[h[1]]
             [] h[2] = "new" -> newProcessor[h[1]]
             [] h[2] = "previous" -> previousProcessor[h[1]]
Exists(n) == pc[n] # "none" \/ chain[n] # "gone"
ThreadsHeld ==
  /\ \A n \in Processors : Exists(n) <=> \E h \in Places : Held(h) = n
  /\ \A g, h \in Places : Held(g) = Held(h) /\ Held(g) # 0 => g = h

\* A call that waits for a thread has told it to end, and the thread has not
\* spent the event on anything else; and no thread is told that nobody waits
\* for: its monitor would go dark (Driver.cpp:528-535, 629-641).
ToldWhenJoined ==
  /\ \A m \in Monitors : call[m] = "join" =>
       m_hTerminateEvent[previousProcessor[m]] \/ pc[previousProcessor[m]] = "ended"
  /\ \A n \in Processors : m_hTerminateEvent[n] =>
       \E m \in Monitors : call[m] = "join" /\ previousProcessor[m] = n

\* No thread outlives the context: Driver.cpp:263, "Stop every swap-chain
\* consumer thread before tearing down the device."
NoThreadWithoutContext == context = "none" => \A n \in Processors : pc[n] = "none"
-----------------------------------------------------------------------------
(* Liveness.                                                               *)

\* A call into the driver returns, though it joins a thread that looks at its
\* terminate event only when there is neither a buffer nor a frame event, and
\* that sleeps and retries meanwhile.
CallsReturn == \A m \in Monitors : call[m] # "idle" ~> call[m] = "idle"

\* driver/README.md:36: "When the display is enabled, the OS assigns a swap
\* chain [...]; a SwapChainProcessor thread binds a D3D11 device [...] and
\* consumes frames".
DisplayConsumed ==
  []<>(\E m \in Monitors : call[m] = "device")
     => []<>(\E n \in Processors : pc[n] \in {"acquire", "wait"})
=============================================================================
