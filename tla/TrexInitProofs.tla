--------------------------- MODULE TrexInitProofs ---------------------------
(***************************************************************************)
(* Proofs about JNI_OnLoad and the natives of trex.cpp, for every SDK set, *)
(* backtrace depth, number of calls and set of Java threads:               *)
(*   - the type invariant;                                                 *)
(*   - no native calls through a null pointer;                             *)
(*   - a single caller of nHookNativeFunc hooks the target at most once;   *)
(*   - on Dalvik nothing of ART is touched;                                *)
(*   - the frame search finds the class exactly when a frame holds it.     *)
(* Each rests on an inductive strengthening; OnLoadReturns, a liveness     *)
(* property, is checked by TLC only.                                       *)
(***************************************************************************)
EXTENDS TrexInit, TLAPS

USE ConstAssumption

\* The per-thread step of Next, one disjunct per native.
LEMMA ThreadStepCases ==
    ASSUME NEW t \in Threads, ThreadStep(t)
    PROVE  \/ HookCall(t) \/ HookInstall(t) \/ HookClear(t)
           \/ DumpThrowable(t) \/ GetSourceFileCall(t) \/ GetDvmDescriptor(t)
           \/ StackTrace(t)
BY DEF ThreadStep

-----------------------------------------------------------------------------
LEMMA TypeInit == Init => TypeOK
<1> SUFFICES ASSUME Init PROVE TypeOK
  OBVIOUS
<1>1. ClassSlots \subseteq -1 .. Depth
  BY DEF ClassSlots
<1>2. /\ sdk \in Sdks /\ classAt \in -1 .. Depth /\ frame \in 0 .. (Depth + 1)
      /\ registered \in {0, 3, 5} /\ hooks \in Nat
      /\ calls \in [Threads -> 0 .. MaxCalls]
  BY <1>1 DEF Init
<1>3. /\ hasArtMethod \in BOOLEAN /\ artVm \in BOOLEAN /\ nativeClass \in BOOLEAN
      /\ finalCleared \in BOOLEAN /\ targetFn \in BOOLEAN /\ proxyReady \in BOOLEAN
      /\ origin \in BOOLEAN /\ nullCall \in BOOLEAN
  BY Zenon DEF Init
<1>4. /\ artFn \in [ArtFns -> BOOLEAN] /\ dvmFn \in [DvmFns -> BOOLEAN]
      /\ tpc \in [Threads -> {"idle", "install", "clear"}]
  BY DEF Init
<1>. QED
  BY <1>2, <1>3, <1>4 DEF Init, TypeOK

\* The load steps change only the load variables, within their types.
LEMMA TypeLoadStep ==
    ASSUME TypeOK, LoadStep PROVE TypeOK'
<1>1. CASE GetEnvFailed
  BY <1>1 DEF GetEnvFailed, TypeOK, envVars, searchVars, resolvedVars, hookVars
<1>2. CASE ProbeAndOpen
  BY <1>2 DEF ProbeAndOpen, TypeOK, envVars, searchVars, resolvedVars, hookVars
<1>3. CASE SearchStart
  <2>1. FirstFrame \in 0 .. (Depth + 1)
    BY DEF FirstFrame
  <2>. QED
    BY <1>3, <2>1 DEF SearchStart, TypeOK, envVars, resolvedVars, hookVars
<1>4. CASE FrameMatch
  BY <1>4 DEF FrameMatch, TypeOK, envVars, resolvedVars, hookVars
<1>5. CASE FrameNext
  <2>1. FrameLimit \in Int /\ FrameLimit <= Depth + 1
    BY DEF FrameLimit, TraceLen
  <2>2. frame' \in 0 .. (Depth + 1)
    BY <1>5, <2>1 DEF FrameNext, TypeOK
  <2>. QED
    BY <1>5, <2>2 DEF FrameNext, TypeOK, envVars, resolvedVars, hookVars
<1>6. CASE FramesExhausted
  BY <1>6 DEF FramesExhausted, TypeOK, envVars, searchVars, resolvedVars, hookVars
<1>7. CASE RegisterNatives
  BY <1>7 DEF RegisterNatives, TypeOK, envVars, resolvedVars, hookVars
<1>8. CASE DvmSetup
  <2>1. PICK r \in [DvmFns -> BOOLEAN] :
            dvmFn' = r /\ finalCleared' = r["dvmDecodeIndirectRef"]
    BY <1>8 DEF DvmSetup
  <2>2. finalCleared' \in BOOLEAN
    BY <2>1 DEF DvmFns
  <2>. QED
    BY <1>8, <2>1, <2>2 DEF DvmSetup, TypeOK, envVars, searchVars, hookVars
<1>9. CASE ResolveArt
  BY <1>9 DEF ResolveArt, TypeOK, envVars, searchVars, hookVars
<1>10. CASE SetProxy
  BY <1>10 DEF SetProxy, TypeOK, envVars, searchVars, hookVars
<1>. QED
  BY <1>1, <1>2, <1>3, <1>4, <1>5, <1>6, <1>7, <1>8, <1>9, <1>10 DEF LoadStep

\* A native call of thread t counts one call within the bound and leaves
\* JNI_OnLoad's state alone (nHookNativeFunc clears the target pointer).
LEMMA TypeThreadStep ==
    ASSUME TypeOK, NEW t \in Threads, ThreadStep(t) PROVE TypeOK'
<1> DEFINE Kept == UNCHANGED <<sdk, hasArtMethod, classAt, load, artVm, artPath,
                              frame, nativeClass, registered, artFn, dvmFn,
                              finalCleared, proxyReady>>
           HookTyped ==
               /\ hooks' \in Nat /\ origin' \in BOOLEAN /\ targetFn' \in BOOLEAN
               /\ tpc' \in [Threads -> {"idle", "install", "clear"}]
               /\ calls' \in [Threads -> 0 .. MaxCalls]
<1>1. Idle(t) => [calls EXCEPT ![t] = @ + 1] \in [Threads -> 0 .. MaxCalls]
  BY DEF Idle, TypeOK
\* A call of the runtime leaves nullCall a Boolean, whatever it calls.
<1>2. \A fs \in SUBSET BOOLEAN : CallThrough(fs) => nullCall' \in BOOLEAN
  BY Zenon DEF CallThrough
<1>3. /\ {artFn["DecodeJObject"], artFn["Throwable_Dump"]} \in SUBSET BOOLEAN
      /\ {artFn["GetSourceFile"], artFn["DecodeJObject"]} \in SUBSET BOOLEAN
      /\ {dvmFn["dexProtoCopyMethodDescriptor"]} \in SUBSET BOOLEAN
      /\ {origin, proxyReady} \in SUBSET BOOLEAN
  BY DEF TypeOK, ArtFns, DvmFns
<1>4. Kept /\ HookTyped /\ nullCall' \in BOOLEAN
  <2>1. CASE HookCall(t)
    BY <1>1, <2>1 DEF HookCall, TypeOK, envVars, loadVars, searchVars, resolvedVars
  <2>2. CASE HookInstall(t)
    <3>1. Kept /\ targetFn' = targetFn /\ calls' = calls /\ nullCall' = nullCall
      BY <2>2 DEF HookInstall, envVars, loadVars, searchVars, resolvedVars
    <3>2. tpc' \in [Threads -> {"idle", "install", "clear"}]
      BY <2>2 DEF HookInstall, TypeOK
    <3>3. hooks' \in Nat
      BY <2>2 DEF HookInstall, TypeOK
    <3>4. origin' \in BOOLEAN
      BY <2>2, Zenon DEF HookInstall, TypeOK
    <3>. QED
      BY <3>1, <3>2, <3>3, <3>4 DEF TypeOK
  <2>3. CASE HookClear(t)
    BY <2>3 DEF HookClear, TypeOK, envVars, searchVars
  <2>4. CASE DumpThrowable(t)
    <3>1. Kept /\ HookTyped
      BY <1>1, <2>4 DEF DumpThrowable, TypeOK, envVars, loadVars, searchVars,
                        resolvedVars
    <3>2. nullCall' \in BOOLEAN
      BY <1>2, <1>3, <2>4, Zenon DEF DumpThrowable, TypeOK
    <3>. QED
      BY <3>1, <3>2
  <2>5. CASE GetSourceFileCall(t)
    <3>1. Kept /\ HookTyped
      BY <1>1, <2>5 DEF GetSourceFileCall, TypeOK, envVars, loadVars, searchVars,
                        resolvedVars
    <3>2. nullCall' \in BOOLEAN
      BY <1>2, <1>3, <2>5, Zenon DEF GetSourceFileCall, TypeOK
    <3>. QED
      BY <3>1, <3>2
  <2>6. CASE GetDvmDescriptor(t)
    <3>1. Kept /\ HookTyped
      BY <1>1, <2>6 DEF GetDvmDescriptor, TypeOK, envVars, loadVars, searchVars,
                        resolvedVars
    <3>2. nullCall' \in BOOLEAN
      BY <1>2, <1>3, <2>6, Zenon DEF GetDvmDescriptor, TypeOK
    <3>. QED
      BY <3>1, <3>2
  <2>7. CASE StackTrace(t)
    <3>1. Kept /\ HookTyped
      BY <1>1, <2>7 DEF StackTrace, TypeOK, envVars, loadVars, searchVars,
                        resolvedVars
    <3>2. nullCall' \in BOOLEAN
      BY <1>2, <1>3, <2>7, Zenon DEF StackTrace, TypeOK
    <3>. QED
      BY <3>1, <3>2
  <2>. QED
    BY <2>1, <2>2, <2>3, <2>4, <2>5, <2>6, <2>7, ThreadStepCases
<1>. QED
  BY <1>4 DEF TypeOK

LEMMA TypeStep == TypeOK /\ [Next]_vars => TypeOK'
<1> SUFFICES ASSUME TypeOK, [Next]_vars PROVE TypeOK'
  OBVIOUS
<1>1. CASE LoadStep
  BY <1>1, TypeLoadStep
<1>2. CASE \E t \in Threads : ThreadStep(t)
  BY <1>2, TypeThreadStep
<1>3. CASE UNCHANGED vars
  BY <1>3 DEF vars, envVars, loadVars, searchVars, resolvedVars, hookVars, TypeOK
<1>. QED
  BY <1>1, <1>2, <1>3 DEF Next

\* Every state JNI_OnLoad and the natives reach is well typed: in
\* particular the frame index stays within the backtrace plus one and no
\* thread exceeds its calls.
THEOREM TypeCorrect == Spec => []TypeOK
BY TypeInit, TypeStep, PTL DEF Spec

-----------------------------------------------------------------------------
(***************************************************************************)
(* NoNullCall.  The detour calls OriginNativeGetStackTrace and the proxy;  *)
(* it goes live only from a thread inside nHookNativeFunc, and such a      *)
(* thread started after JNI_OnLoad returned, by which time the proxy was   *)
(* stored if the hook target was resolved (lines 276-285 run together).    *)
(* The query natives check every pointer they call.                       *)
(***************************************************************************)
NullInv ==
    /\ TypeOK
    /\ ~nullCall
    /\ hooks > 0 => origin /\ proxyReady
    /\ \A t \in Threads : tpc[t] # "idle" => proxyReady /\ load = "done"
    /\ targetFn => load \in {"proxy", "done"}
    /\ load = "done" /\ targetFn => proxyReady

LEMMA NullInit == Init => NullInv
BY TypeInit DEF Init, NullInv

\* JNI_OnLoad's steps leave the threads alone and never start from "done".
LEMMA LoadStepFrame ==
    ASSUME LoadStep
    PROVE  /\ load # "done" /\ UNCHANGED hookVars
           /\ UNCHANGED <<hooks, origin, tpc, calls, nullCall>>
BY DEF LoadStep, GetEnvFailed, ProbeAndOpen, SearchStart, FrameMatch, FrameNext,
       FramesExhausted, RegisterNatives, DvmSetup, ResolveArt, SetProxy, hookVars

LEMMA NullLoadStep ==
    ASSUME NullInv, LoadStep PROVE NullInv'
<1>1. TypeOK'
  BY TypeLoadStep DEF NullInv
<1>2. /\ load # "done" /\ UNCHANGED <<hooks, origin, tpc, calls, nullCall>>
  BY LoadStepFrame
<1>3. \A t \in Threads : tpc[t] = "idle"
  BY <1>2 DEF NullInv
\* No load step clears the proxy.
<1>4. proxyReady => proxyReady'
  BY DEF LoadStep, GetEnvFailed, ProbeAndOpen, SearchStart, FrameMatch, FrameNext,
         FramesExhausted, RegisterNatives, DvmSetup, ResolveArt, SetProxy,
         resolvedVars
<1>5. (\A t \in Threads : tpc[t] # "idle" => proxyReady /\ load = "done")'
  BY <1>2, <1>3
<1>6. (hooks > 0 => origin /\ proxyReady)' /\ ~nullCall'
  BY <1>2, <1>4 DEF NullInv
\* Where the target pointer and the proxy come from.
<1>7. (targetFn => load \in {"proxy", "done"})' /\ (load = "done" /\ targetFn => proxyReady)'
  <2>1. CASE ResolveArt
    BY <2>1 DEF ResolveArt, resolvedVars
  <2>2. CASE SetProxy
    BY <2>2 DEF SetProxy
  <2>3. CASE DvmSetup
    BY <2>3 DEF DvmSetup, NullInv
  <2>4. CASE GetEnvFailed \/ ProbeAndOpen \/ SearchStart \/ FrameMatch
                \/ FrameNext \/ FramesExhausted \/ RegisterNatives
    <3>1. targetFn' = targetFn /\ load' # "done" /\ load \notin {"proxy", "done"}
      BY <2>4 DEF GetEnvFailed, ProbeAndOpen, SearchStart, FrameMatch, FrameNext,
                  FramesExhausted, RegisterNatives, resolvedVars
    <3>. QED
      BY <3>1 DEF NullInv
  <2>. QED
    BY <2>1, <2>2, <2>3, <2>4 DEF LoadStep
<1>. QED
  BY <1>1, <1>5, <1>6, <1>7 DEF NullInv

LEMMA NullThreadStep ==
    ASSUME NullInv, NEW t \in Threads, ThreadStep(t)
    PROVE  NullInv'
<1>1. TypeOK'
  BY TypeThreadStep DEF NullInv
<1>2. NativesCallable => load = "done"
  BY DEF NativesCallable
\* Every step but HookClear leaves JNI_OnLoad's variables alone.
<1>3. CASE HookCall(t)
  <2>1. load = "done" /\ UNCHANGED <<load, targetFn, proxyReady, hooks, origin, nullCall>>
    BY <1>2, <1>3 DEF HookCall, loadVars, resolvedVars
  <2>2. \A u \in Threads : tpc'[u] # "idle" => proxyReady
    BY <1>3, <2>1 DEF HookCall, NullInv, TypeOK
  <2>. QED
    BY <1>1, <2>1, <2>2 DEF NullInv
<1>4. CASE HookInstall(t)
  <2>1. UNCHANGED <<load, targetFn, proxyReady, nullCall>> /\ tpc[t] = "install"
    BY <1>4 DEF HookInstall, loadVars, resolvedVars
  <2>2. proxyReady /\ load = "done"
    BY <2>1 DEF NullInv
  <2>3. hooks' > 0 => origin' /\ proxyReady'
    BY <1>4, <2>1, <2>2 DEF HookInstall, NullInv
  <2>4. \A u \in Threads : tpc'[u] # "idle" => proxyReady' /\ load' = "done"
    BY <1>4, <2>1, <2>2 DEF HookInstall, NullInv, TypeOK
  <2>. QED
    BY <1>1, <2>1, <2>3, <2>4 DEF NullInv
<1>5. CASE HookClear(t)
  <2>1. UNCHANGED <<load, proxyReady, hooks, origin, nullCall>> /\ ~targetFn'
    BY <1>5 DEF HookClear
  <2>2. \A u \in Threads : tpc'[u] # "idle" => tpc[u] # "idle"
    BY <1>5 DEF HookClear, NullInv, TypeOK
  <2>. QED
    BY <1>1, <2>1, <2>2 DEF NullInv
\* The query natives and getStackTrace change only calls and nullCall.
<1>6. CASE DumpThrowable(t) \/ GetSourceFileCall(t) \/ GetDvmDescriptor(t)
           \/ StackTrace(t)
  <2>1. UNCHANGED <<load, targetFn, proxyReady, hooks, origin, tpc>>
    BY <1>6 DEF DumpThrowable, GetSourceFileCall, GetDvmDescriptor, StackTrace,
                loadVars, resolvedVars
  <2>2. ~nullCall'
    <3>1. CASE DumpThrowable(t)
      BY <3>1 DEF DumpThrowable, CallThrough, NullInv
    <3>2. CASE GetSourceFileCall(t)
      BY <3>2 DEF GetSourceFileCall, CallThrough, NullInv
    <3>3. CASE GetDvmDescriptor(t)
      BY <3>3 DEF GetDvmDescriptor, CallThrough, NullInv
    <3>4. CASE StackTrace(t)
      BY <3>4 DEF StackTrace, CallThrough, NullInv
    <3>. QED
      BY <1>6, <3>1, <3>2, <3>3, <3>4
  <2>. QED
    BY <1>1, <2>1, <2>2 DEF NullInv
<1>. QED
  BY <1>1, <1>3, <1>4, <1>5, <1>6, ThreadStepCases DEF NullInv

LEMMA NullStep ==
    NullInv /\ [Next]_vars => NullInv'
<1> SUFFICES ASSUME NullInv, [Next]_vars PROVE NullInv'
  OBVIOUS
<1>1. CASE LoadStep
  BY <1>1, NullLoadStep
<1>2. CASE \E t \in Threads : ThreadStep(t)
  BY <1>2, NullThreadStep
<1>3. CASE UNCHANGED vars
  BY <1>3 DEF vars, envVars, loadVars, searchVars, resolvedVars, hookVars,
              NullInv, TypeOK
<1>. QED
  BY <1>1, <1>2, <1>3 DEF Next

\* No native of Trex (nDumpThrowable, nGetSourceFile, nGetDvmDescriptor,
\* and the getStackTrace detour on any thread) ever calls through a null
\* pointer, for any number of threads, whatever ElfImg resolves.
THEOREM NoNullCallHolds == Spec => []NoNullCall
<1>1. NullInv => NoNullCall
  BY DEF NullInv, NoNullCall
<1>. QED
  BY <1>1, NullInit, NullStep, PTL DEF Spec

-----------------------------------------------------------------------------
(***************************************************************************)
(* HookAtMostOnce, for a single Java thread t0.  nHookNativeFunc clears    *)
(* the pointer after every attempt (line 60) and nothing sets it again    *)
(* after JNI_OnLoad resolved it, so once the target is hooked and the     *)
(* call has finished, no later call sees a non-null pointer.               *)
(***************************************************************************)
OnceInv(t0) ==
    /\ TypeOK
    /\ hooks <= 1
    /\ load \notin {"proxy", "done"} => ~targetFn /\ hooks = 0 /\ tpc[t0] = "idle"
    /\ tpc[t0] = "install" => hooks = 0
    /\ hooks = 1 /\ tpc[t0] = "idle" => ~targetFn

LEMMA OnceInit ==
    ASSUME NEW t0, Threads = {t0} PROVE Init => OnceInv(t0)
BY TypeInit DEF Init, OnceInv

LEMMA OnceStep ==
    ASSUME NEW t0, Threads = {t0} PROVE OnceInv(t0) /\ [Next]_vars => OnceInv(t0)'
<1> SUFFICES ASSUME OnceInv(t0), [Next]_vars PROVE OnceInv(t0)'
  OBVIOUS
<1>1. TypeOK'
  BY TypeStep DEF OnceInv
<1>2. hooks \in Nat
  BY DEF OnceInv, TypeOK
<1>3. CASE LoadStep
  <2>1. UNCHANGED <<hooks, tpc>> /\ load # "done"
    BY <1>3, LoadStepFrame
  <2>2. CASE ResolveArt \/ SetProxy
    \* load becomes "proxy" or "done"; hooks and the thread are unchanged
    <3>1. load' \in {"proxy", "done"}
      BY <2>2 DEF ResolveArt, SetProxy
    <3>2. hooks = 1 /\ tpc[t0] = "idle" => ~targetFn'
      <4>1. CASE ResolveArt
        BY <4>1, <2>1 DEF ResolveArt, OnceInv
      <4>2. CASE SetProxy
        BY <4>2, <2>1 DEF SetProxy, OnceInv, resolvedVars
      <4>. QED
        BY <2>2, <4>1, <4>2
    <3>. QED
      BY <1>1, <2>1, <3>1, <3>2 DEF OnceInv
  <2>3. CASE GetEnvFailed \/ ProbeAndOpen \/ SearchStart \/ FrameMatch
             \/ FrameNext \/ FramesExhausted \/ RegisterNatives \/ DvmSetup
    <3>1. targetFn' = targetFn /\ load \notin {"proxy", "done"}
      BY <2>3 DEF GetEnvFailed, ProbeAndOpen, SearchStart, FrameMatch, FrameNext,
                  FramesExhausted, RegisterNatives, DvmSetup, resolvedVars
    <3>. QED
      BY <1>1, <2>1, <3>1 DEF OnceInv
  <2>. QED
    BY <1>3, <2>2, <2>3 DEF LoadStep
<1>4. CASE \E t \in Threads : ThreadStep(t)
  <2>1. ThreadStep(t0)
    BY <1>4
  <2>2. CASE HookCall(t0)
    <3>1. UNCHANGED <<load, targetFn, hooks>> /\ tpc[t0] = "idle"
      BY <2>2 DEF HookCall, Idle, loadVars, resolvedVars
    <3>2. tpc'[t0] = IF targetFn THEN "install" ELSE "idle"
      BY <2>2 DEF HookCall, OnceInv, TypeOK
    <3>. QED
      BY <1>1, <1>2, <3>1, <3>2 DEF OnceInv
  <2>3. CASE HookInstall(t0)
    <3>1. UNCHANGED <<load, targetFn>> /\ tpc[t0] = "install" /\ tpc'[t0] = "clear"
      BY <2>3 DEF HookInstall, OnceInv, TypeOK, loadVars, resolvedVars
    <3>2. hooks = 0 /\ hooks' \in {0, 1}
      BY <2>3, <3>1 DEF HookInstall, OnceInv
    <3>. QED
      BY <1>1, <3>1, <3>2 DEF OnceInv
  <2>4. CASE HookClear(t0)
    <3>1. UNCHANGED <<load, hooks>> /\ ~targetFn' /\ tpc[t0] = "clear"
      BY <2>4 DEF HookClear
    <3>2. tpc'[t0] = "idle"
      BY <2>4 DEF HookClear, OnceInv, TypeOK
    <3>. QED
      BY <1>1, <3>1, <3>2 DEF OnceInv
  <2>5. CASE DumpThrowable(t0) \/ GetSourceFileCall(t0) \/ GetDvmDescriptor(t0)
             \/ StackTrace(t0)
    <3>1. UNCHANGED <<load, targetFn, hooks, tpc>>
      BY <2>5 DEF DumpThrowable, GetSourceFileCall, GetDvmDescriptor, StackTrace,
                  loadVars, resolvedVars
    <3>. QED
      BY <1>1, <3>1 DEF OnceInv
  <2>. QED
    BY <2>1, <2>2, <2>3, <2>4, <2>5, ThreadStepCases
<1>5. CASE UNCHANGED vars
  BY <1>1, <1>5 DEF vars, envVars, loadVars, searchVars, resolvedVars, hookVars,
                    OnceInv
<1>. QED
  BY <1>3, <1>4, <1>5 DEF Next

\* Spec 4.5 (one hook per symbol) for a single caller of nHookNativeFunc,
\* whenever Java calls it and however often: the target is hooked at most
\* once.  Spec 5 forbids calling it from several threads at once, and it
\* takes no lock: with two threads it can hook twice.
THEOREM HookAtMostOnceHolds ==
    ASSUME NEW t0, Threads = {t0} PROVE Spec => []HookAtMostOnce
<1>1. OnceInv(t0) => HookAtMostOnce
  BY DEF OnceInv, HookAtMostOnce
<1>. QED
  BY <1>1, OnceInit, OnceStep, PTL DEF Spec

-----------------------------------------------------------------------------
(***************************************************************************)
(* DalvikNeverTouchesArt.  Before the probe nothing has been resolved,     *)
(* registered or hooked; the probe decides art_vm once, and on Dalvik      *)
(* (only 32-bit builds) JNI_OnLoad goes from RegisterNatives to the dvm    *)
(* setup and never to the ART resolution, so the hook target stays null   *)
(* and no thread gets past the null check of nHookNativeFunc.             *)
(***************************************************************************)
Clean ==
    /\ artPath = "none" /\ \A f \in ArtFns : ~artFn[f]
    /\ ~targetFn /\ hooks = 0 /\ \A t \in Threads : tpc[t] = "idle"

DalvikInv ==
    /\ TypeOK
    /\ load = "start" => artVm /\ Clean /\ registered = 0
    /\ ~artVm => /\ ~LP64 /\ Clean /\ registered \in {0, 5}
                 /\ load \notin {"start", "resolve", "proxy"}

LEMMA DalvikInit == Init => DalvikInv
BY TypeInit DEF Init, DalvikInv, Clean

LEMMA DalvikLoadStep ==
    ASSUME DalvikInv, LoadStep PROVE DalvikInv'
<1>1. TypeOK'
  BY TypeLoadStep DEF DalvikInv
<1>2. UNCHANGED <<hooks, tpc>>
  BY LoadStepFrame
<1>3. CASE ProbeAndOpen
  <2>1. load = "start" /\ Clean /\ registered = 0
    BY <1>3 DEF ProbeAndOpen, DalvikInv
  <2>2. ~artVm' => ~LP64 /\ artPath' = "none"
    BY <1>3 DEF ProbeAndOpen
  <2>3. UNCHANGED <<artFn, targetFn, registered>> /\ load' = "search"
    BY <1>3 DEF ProbeAndOpen, searchVars, resolvedVars
  <2>. QED
    BY <1>1, <1>2, <2>1, <2>2, <2>3 DEF DalvikInv, Clean
<1>4. CASE RegisterNatives
  <2>1. UNCHANGED <<artVm, artPath, artFn, targetFn>> /\ load = "register"
    BY <1>4 DEF RegisterNatives, resolvedVars
  <2>2. ~artVm => registered' \in {0, 5} /\ load' \in {"err", "dvm"}
    BY <1>4, <2>1 DEF RegisterNatives, DalvikInv
  <2>3. load' # "start"
    BY <1>4 DEF RegisterNatives
  <2>. QED
    BY <1>1, <1>2, <2>1, <2>2, <2>3 DEF DalvikInv, Clean
<1>5. CASE ResolveArt \/ SetProxy
  \* only on ART: load is "resolve" or "proxy"
  <2>1. artVm /\ UNCHANGED artVm /\ load' # "start"
    BY <1>5 DEF ResolveArt, SetProxy, DalvikInv
  <2>. QED
    BY <1>1, <2>1 DEF DalvikInv
<1>6. CASE GetEnvFailed \/ SearchStart \/ FrameMatch \/ FrameNext
           \/ FramesExhausted \/ DvmSetup
  <2>1. UNCHANGED <<artVm, artPath, artFn, targetFn, registered>>
        /\ load' \notin {"start", "resolve", "proxy"}
    BY <1>6 DEF GetEnvFailed, SearchStart, FrameMatch, FrameNext, FramesExhausted,
                DvmSetup, resolvedVars, searchVars
  <2>. QED
    BY <1>1, <1>2, <2>1 DEF DalvikInv, Clean
<1>. QED
  BY <1>3, <1>4, <1>5, <1>6 DEF LoadStep

LEMMA DalvikThreadStep ==
    ASSUME DalvikInv, NEW t \in Threads, ThreadStep(t) PROVE DalvikInv'
<1>1. TypeOK'
  BY TypeThreadStep DEF DalvikInv
<1>2. UNCHANGED <<load, artVm, artPath, artFn, registered>>
  BY ThreadStepCases DEF HookCall, HookInstall, HookClear, DumpThrowable,
     GetSourceFileCall, GetDvmDescriptor, StackTrace, loadVars, searchVars,
     resolvedVars
\* Where the art pointers are all null, every thread stays idle.
<1>3. ASSUME load = "start" \/ ~artVm
      PROVE  Clean'
  <2>1. Clean /\ tpc[t] = "idle"
    BY <1>3 DEF DalvikInv, Clean
  <2>2. CASE HookCall(t)
    <3>1. UNCHANGED <<targetFn, hooks>>
      BY <2>2 DEF HookCall, loadVars, resolvedVars
    <3>2. tpc' = [tpc EXCEPT ![t] = "idle"]
      BY <2>1, <2>2 DEF HookCall, Clean
    <3>. QED
      BY <1>2, <2>1, <3>1, <3>2 DEF Clean, DalvikInv, TypeOK
  <2>3. CASE HookInstall(t) \/ HookClear(t)
    BY <2>1, <2>3 DEF HookInstall, HookClear
  <2>4. CASE DumpThrowable(t) \/ GetSourceFileCall(t) \/ GetDvmDescriptor(t)
             \/ StackTrace(t)
    <3>1. UNCHANGED <<targetFn, hooks, tpc>>
      BY <2>4 DEF DumpThrowable, GetSourceFileCall, GetDvmDescriptor, StackTrace,
                  loadVars, resolvedVars
    <3>. QED
      BY <1>2, <2>1, <3>1 DEF Clean
  <2>. QED
    BY <2>2, <2>3, <2>4, ThreadStepCases
<1>. QED
  BY <1>1, <1>2, <1>3 DEF DalvikInv

\* Spec 8 for every SDK level and any number of threads: when the probe
\* finds Dalvik, no ART library is opened, no ART symbol resolved, nothing
\* hooked, and the five natives (or none) are registered.
THEOREM DalvikNeverTouchesArtHolds == Spec => []DalvikNeverTouchesArt
<1>1. DalvikInv /\ [Next]_vars => DalvikInv'
  <2> SUFFICES ASSUME DalvikInv, [Next]_vars PROVE DalvikInv'
    OBVIOUS
  <2>1. CASE LoadStep
    BY <2>1, DalvikLoadStep
  <2>2. CASE \E t \in Threads : ThreadStep(t)
    BY <2>2, DalvikThreadStep
  <2>3. CASE UNCHANGED vars
    BY <2>3 DEF vars, envVars, loadVars, searchVars, resolvedVars, hookVars,
                DalvikInv, Clean, TypeOK
  <2>. QED
    BY <2>1, <2>2, <2>3 DEF Next
<1>2. DalvikInv => DalvikNeverTouchesArt
  BY DEF DalvikInv, Clean, DalvikNeverTouchesArt
<1>. QED
  BY <1>1, <1>2, DalvikInit, PTL DEF Spec

-----------------------------------------------------------------------------
(***************************************************************************)
(* SearchFindsClass.  The frame loop walks FirstFrame .. FrameLimit - 1,   *)
(* which is exactly the set of slots a frame can occupy (ClassSlots), and  *)
(* never passes the class's slot without stopping at it.                   *)
(***************************************************************************)
SearchInv ==
    /\ TypeOK
    /\ classAt \in {-1} \cup FirstFrame .. (FrameLimit - 1)
    /\ load \in {"start", "search", "frames"} => ~nativeClass
    /\ load = "frames" /\ classAt # -1 => frame <= classAt
    /\ load = "register" => (nativeClass <=> classAt # -1)

\* The loop's start and bound enclose the frame slots of every layout:
\* 0 .. Depth - 1 on 32-bit builds and on 64-bit Lollipop (array last,
\* len--), 1 .. Depth from Marshmallow on (array first, loop from 1).
LEMMA SlotsAreLoopRange ==
    ASSUME sdk \in Int PROVE ClassSlots = FirstFrame .. (FrameLimit - 1)
<1>1. CASE LP64 /\ sdk >= SDK_M
  <2>1. ClassSlots = 1 .. Depth /\ FirstFrame = 1 /\ FrameLimit = Depth + 1
    BY <1>1 DEF ClassSlots, FirstFrame, FrameLimit, TraceLen, SDK_M
  <2>. QED
    BY <2>1
<1>2. CASE LP64 /\ ~(sdk >= SDK_M)
  <2>1. ClassSlots = 0 .. (Depth - 1) /\ FirstFrame = 0 /\ FrameLimit = Depth
    BY <1>2 DEF ClassSlots, FirstFrame, FrameLimit, TraceLen, SDK_M
  <2>. QED
    BY <2>1
<1>3. CASE ~LP64
  <2>1. ClassSlots = 0 .. (Depth - 1) /\ FirstFrame = 0 /\ FrameLimit = Depth
    BY <1>3 DEF ClassSlots, FirstFrame, FrameLimit, TraceLen, SDK_M
  <2>. QED
    BY <2>1
<1>. QED
  BY <1>1, <1>2, <1>3

LEMMA SearchInit == Init => SearchInv
<1> SUFFICES ASSUME Init PROVE SearchInv
  OBVIOUS
<1>1. TypeOK
  BY TypeInit
<1>2. classAt \in {-1} \cup FirstFrame .. (FrameLimit - 1)
  BY <1>1, SlotsAreLoopRange DEF Init, TypeOK
<1>. QED
  BY <1>1, <1>2 DEF Init, SearchInv

\* Nothing but the load steps touches the search; the thread steps leave
\* every variable of JNI_OnLoad but the target pointer alone.
LEMMA SearchThreadStep ==
    ASSUME SearchInv, NEW t \in Threads, ThreadStep(t) PROVE SearchInv'
<1>1. TypeOK'
  BY TypeThreadStep DEF SearchInv
<1>2. UNCHANGED <<sdk, classAt, load, frame, nativeClass>>
  BY ThreadStepCases DEF HookCall, HookInstall, HookClear, DumpThrowable,
     GetSourceFileCall, GetDvmDescriptor, StackTrace, envVars, loadVars,
     searchVars
<1>. QED
  BY <1>1, <1>2 DEF SearchInv, FirstFrame, FrameLimit, TraceLen

LEMMA SearchLoadStep ==
    ASSUME SearchInv, LoadStep PROVE SearchInv'
<1>1. TypeOK'
  BY TypeLoadStep DEF SearchInv
<1>2. UNCHANGED <<sdk, classAt>>
  BY DEF LoadStep, GetEnvFailed, ProbeAndOpen, SearchStart, FrameMatch,
         FrameNext, FramesExhausted, RegisterNatives, DvmSetup, ResolveArt,
         SetProxy, envVars
<1>3. (classAt \in {-1} \cup FirstFrame .. (FrameLimit - 1))'
  BY <1>2 DEF SearchInv, FirstFrame, FrameLimit, TraceLen
<1> DEFINE Rest == /\ (load \in {"start", "search", "frames"} => ~nativeClass)
                   /\ (load = "frames" /\ classAt # -1 => frame <= classAt)
                   /\ (load = "register" => (nativeClass <=> classAt # -1))
<1>4. FrameLimit \in Int /\ FirstFrame \in Int
  BY DEF FrameLimit, TraceLen, FirstFrame
<1>5. Rest'
  <2>1. CASE GetEnvFailed \/ ProbeAndOpen
    BY <2>1, <1>2 DEF GetEnvFailed, ProbeAndOpen, SearchInv, searchVars
  \* The loop starts at FirstFrame, at or before the class's slot.
  <2>2. CASE SearchStart
    BY <2>2, <1>2, <1>4 DEF SearchStart, SearchInv, TypeOK
  <2>3. CASE FrameMatch
    BY <2>3, <1>2 DEF FrameMatch, SearchInv, TypeOK
  \* A frame that is not the class's: the index stays at or before it.
  <2>4. CASE FrameNext
    BY <2>4, <1>2, <1>4 DEF FrameNext, SearchInv, TypeOK
  \* Past the bound: the class's slot, below the bound, would have been met.
  <2>5. CASE FramesExhausted
    <3>1. classAt = -1
      BY <2>5, <1>4 DEF FramesExhausted, SearchInv, TypeOK
    <3>. QED
      BY <2>5, <1>2, <3>1 DEF FramesExhausted, SearchInv, searchVars
  <2>6. CASE RegisterNatives \/ DvmSetup \/ ResolveArt \/ SetProxy
    BY <2>6 DEF RegisterNatives, DvmSetup, ResolveArt, SetProxy
  <2>. QED
    BY <2>1, <2>2, <2>3, <2>4, <2>5, <2>6 DEF LoadStep
<1>. QED
  BY <1>1, <1>3, <1>5 DEF SearchInv

\* For every trace depth, build and SDK level: when JNI_OnLoad reaches
\* RegisterNatives (trex.cpp 237), native_class is non-null exactly when a
\* frame of the backtrace belongs to the class that declares the natives:
\* the loops of lines 184-195 and 212-231 start and stop so as to visit
\* every frame and skip the runtime's method/dex-pc array.
THEOREM SearchFindsClassHolds == Spec => []SearchFindsClass
<1>1. SearchInv /\ [Next]_vars => SearchInv'
  <2> SUFFICES ASSUME SearchInv, [Next]_vars PROVE SearchInv'
    OBVIOUS
  <2>1. CASE LoadStep
    BY <2>1, SearchLoadStep
  <2>2. CASE \E t \in Threads : ThreadStep(t)
    BY <2>2, SearchThreadStep
  <2>3. CASE UNCHANGED vars
    BY <2>3 DEF vars, envVars, loadVars, searchVars, resolvedVars, hookVars,
                SearchInv, TypeOK, FirstFrame, FrameLimit, TraceLen
  <2>. QED
    BY <2>1, <2>2, <2>3 DEF Next
<1>2. SearchInv => SearchFindsClass
  BY DEF SearchInv, SearchFindsClass
<1>. QED
  BY <1>1, <1>2, SearchInit, PTL DEF Spec

=============================================================================
