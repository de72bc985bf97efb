------------------------------ MODULE TrexInit ------------------------------
(***************************************************************************)
(* The native side of Trex (src/trex/android/src/main/cpp/trex.cpp):      *)
(* JNI_OnLoad probes the runtime (ART or Dalvik, by SDK level and word    *)
(* width), opens libart with ElfImg, walks the caller's stack frames for  *)
(* the Java class that declares the natives, registers them, and resolves *)
(* the internal functions and the hook target.  Java threads then call    *)
(* the natives: nHookNativeFunc installs the inline hook on               *)
(* Throwable_nativeGetStackTrace, whose replacement runs on every         *)
(* getStackTrace; nDumpThrowable, nGetSourceFile and nGetDvmDescriptor    *)
(* call the resolved runtime functions.                                   *)
(*                                                                         *)
(* What ElfImg and dlsym resolve is abstracted to whether each pointer is *)
(* null: a resolution step chooses among both outcomes (ElfImg is checked *)
(* on its own).  The hook primitive (DobbyHook, outside the repository)   *)
(* either fails and changes nothing, or installs the detour and fills the *)
(* origin slot.                                                            *)
(***************************************************************************)
EXTENDS Integers

CONSTANTS
    LP64,               \* the build: __LP64__ defined
    Sdks,               \* values ro.build.version.sdk may have
    Depth,              \* frames in the backtrace JNI_OnLoad inspects
    Threads,            \* Java threads that call the natives
    MaxCalls            \* calls each thread makes

SDK_K == 19
SDK_L == 21
SDK_M == 23
SDK_Q == 29
SDK_R == 30

ArtFns == {"DecodeJObject", "Throwable_Dump", "GetSourceFile"}
DvmFns == {"dvmDecodeIndirectRef", "dexProtoCopyMethodDescriptor"}

ASSUME ConstAssumption ==
    /\ LP64 \in BOOLEAN
    /\ Sdks \subseteq Nat /\ Depth \in Nat /\ MaxCalls \in Nat

VARIABLES
    sdk,            \* atoi(ro.build.version.sdk)
    hasArtMethod,   \* whether FindClass("java/lang/reflect/ArtMethod") succeeds
    classAt,        \* the backtrace index of the frame whose class declares
                    \* nHookNativeFunc, or -1 when no frame does
    load,           \* where JNI_OnLoad is
    artVm,          \* art_vm
    artPath,        \* the path passed to art.Open, or "none"
    frame,          \* the loop index i over the backtrace
    nativeClass,    \* native_class != nullptr
    registered,     \* the number of natives RegisterNatives bound
    artFn,          \* [ArtFns -> BOOLEAN]: the pointer is non-null
    dvmFn,          \* [DvmFns -> BOOLEAN]
    finalCleared,   \* ACC_FINAL cleared on Dalvik's StackTraceElement class
    targetFn,       \* native_get_stack_trace_func != nullptr
    proxyReady,     \* trex_android_class and get_proxy_stack_trace_mid set
    hooks,          \* how many times the target has been hooked
    origin,         \* OriginNativeGetStackTrace != nullptr
    tpc,            \* [Threads -> {"idle", "install", "clear"}]
    calls,          \* [Threads -> Nat]: calls made by each thread
    nullCall        \* native code has called through a null pointer

envVars == <<sdk, hasArtMethod, classAt>>
searchVars == <<frame, nativeClass, registered>>
resolvedVars == <<artFn, dvmFn, finalCleared, targetFn, proxyReady>>
loadVars == <<load, artVm, artPath, searchVars, resolvedVars>>
hookVars == <<hooks, origin, tpc, calls, nullCall>>
vars == <<envVars, loadVars, hookVars>>

\* The array the search walks (the runtime's layout, not Trex code): on
\* 32-bit builds the Depth StackTraceElements of getStackTrace; on 64-bit
\* the internal backtrace of nativeFillInStackTrace, which besides the
\* Depth frames holds the array of methods and dex pcs, last on Lollipop
\* and first from Marshmallow on.
TraceLen == IF LP64 THEN Depth + 1 ELSE Depth
ClassSlots ==
    IF LP64 /\ sdk >= SDK_M THEN 1 .. Depth ELSE 0 .. (Depth - 1)

Init ==
    /\ sdk \in Sdks
    /\ hasArtMethod \in BOOLEAN
    /\ classAt \in {-1} \cup ClassSlots
    /\ load = "start"
    /\ artVm = TRUE
    /\ artPath = "none"
    /\ frame = 0
    /\ nativeClass = FALSE
    /\ registered = 0
    /\ artFn = [f \in ArtFns |-> FALSE]
    /\ dvmFn = [f \in DvmFns |-> FALSE]
    /\ finalCleared = FALSE
    /\ targetFn = FALSE
    /\ proxyReady = FALSE
    /\ hooks = 0
    /\ origin = FALSE
    /\ tpc = [t \in Threads |-> "idle"]
    /\ calls = [t \in Threads |-> 0]
    /\ nullCall = FALSE

-----------------------------------------------------------------------------
(***************************************************************************)
(* JNI_OnLoad, one step per phase and one per iteration of the frame loop. *)
(***************************************************************************)

\* Lines 131-132: GetEnv fails and JNI_OnLoad returns JNI_ERR.
GetEnvFailed ==
    /\ load = "start"
    /\ load' = "err"
    /\ UNCHANGED <<envVars, artVm, artPath, searchVars, resolvedVars, hookVars>>

\* Lines 135-158: on 32-bit builds below L, ART only if SDK is at least K
\* and ArtMethod exists; then open libart from the path the SDK selects.
ProbeAndOpen ==
    /\ load = "start"
    /\ LET art == LP64 \/ sdk >= SDK_L \/ (sdk >= SDK_K /\ hasArtMethod)
       IN /\ artVm' = art
          /\ artPath' = IF ~art THEN "none"
                        ELSE IF sdk >= SDK_R THEN "apex-art"
                        ELSE IF sdk >= SDK_Q THEN "apex-runtime"
                        ELSE "system"
    /\ load' = "search"
    /\ UNCHANGED <<envVars, searchVars, resolvedVars, hookVars>>

\* The first index the loop looks at: on 64-bit Marshmallow and later the
\* first element is skipped (line 184).
FirstFrame == IF LP64 /\ sdk >= SDK_M THEN 1 ELSE 0

\* Mutant of FrameLimit: the loop stops one element early.
FrameLimitShort ==
    (IF LP64 /\ sdk < SDK_M THEN TraceLen - 1 ELSE TraceLen) - 1

\* The loop bound len: GetArrayLength, less one on 64-bit Lollipop
\* (lines 181-182).
FrameLimit == IF LP64 /\ sdk < SDK_M THEN TraceLen - 1 ELSE TraceLen

\* Lines 165-181 (64-bit): Throwable_nativeFillInStackTrace must resolve or
\* JNI_OnLoad returns JNI_ERR; the backtrace is taken.  Lines 199-211
\* (32-bit): the stack trace of a new Throwable is taken.
SearchStart ==
    /\ load = "search"
    /\ \/ LP64 /\ load' = "err" /\ UNCHANGED frame
       \/ load' = "frames" /\ frame' = FirstFrame
    /\ UNCHANGED <<envVars, artVm, artPath, nativeClass, registered,
                   resolvedVars, hookVars>>

\* Lines 185-194 / 212-230: the class of this frame declares nHookNativeFunc.
FrameMatch ==
    /\ load = "frames"
    /\ frame < FrameLimit
    /\ frame = classAt
    /\ nativeClass' = TRUE
    /\ load' = "register"
    /\ UNCHANGED <<envVars, artVm, artPath, frame, registered, resolvedVars,
                   hookVars>>

\* Mutant of FrameNext: the loop index is not advanced.
FrameNextStuck ==
    /\ load = "frames"
    /\ frame < FrameLimit
    /\ frame # classAt
    /\ frame' = frame
    /\ UNCHANGED <<envVars, load, artVm, artPath, nativeClass, registered,
                   resolvedVars, hookVars>>

\* Lines 184 / 212 and 190-192 / 222-227: this frame's class does not
\* declare it (the exception is cleared); the loop goes on.
FrameNext ==
    /\ load = "frames"
    /\ frame < FrameLimit
    /\ frame # classAt
    /\ frame' = frame + 1
    /\ UNCHANGED <<envVars, load, artVm, artPath, nativeClass, registered,
                   resolvedVars, hookVars>>

\* Lines 184 / 212: the loop ends without a class; native_class stays null.
FramesExhausted ==
    /\ load = "frames"
    /\ frame >= FrameLimit
    /\ load' = "register"
    /\ UNCHANGED <<envVars, artVm, artPath, searchVars, resolvedVars, hookVars>>

\* Mutant of RegisterNatives: the count is taken for ART on every build.
RegisterNativesArtCount ==
    /\ load = "register"
    /\ \/ load' = "err" /\ UNCHANGED registered
       \/ /\ nativeClass
          /\ registered' = 3
          /\ load' = IF artVm THEN "resolve" ELSE "dvm"
    /\ UNCHANGED <<envVars, artVm, artPath, frame, nativeClass, resolvedVars,
                   hookVars>>

\* Lines 237-247: three natives on ART, five on Dalvik (32-bit only);
\* JNI_ERR when no class was found or RegisterNatives fails.
RegisterNatives ==
    /\ load = "register"
    /\ \/ load' = "err" /\ UNCHANGED registered
       \/ /\ nativeClass
          /\ registered' = IF ~LP64 /\ ~artVm THEN 5 ELSE 3
          /\ load' = IF artVm THEN "resolve" ELSE "dvm"
    /\ UNCHANGED <<envVars, artVm, artPath, frame, nativeClass, resolvedVars,
                   hookVars>>

\* Lines 249-269: Dalvik resolves two exported functions with dlsym and,
\* if dvmDecodeIndirectRef exists, clears ACC_FINAL on StackTraceElement.
DvmSetup ==
    /\ load = "dvm"
    /\ \E r \in [DvmFns -> BOOLEAN] :
         /\ dvmFn' = r
         /\ finalCleared' = r["dvmDecodeIndirectRef"]
    /\ load' = "done"
    /\ UNCHANGED <<envVars, artVm, artPath, searchVars, artFn, targetFn,
                   proxyReady, hookVars>>

\* Mutant of ResolveArt: JNI_OnLoad returns before storing the proxy.
ResolveArtReturn ==
    /\ load = "resolve"
    /\ \E r \in [ArtFns -> BOOLEAN], t \in BOOLEAN :
         /\ artFn' = r
         /\ targetFn' = t
    /\ load' = "done"
    /\ UNCHANGED <<envVars, artVm, artPath, searchVars, dvmFn, finalCleared,
                   proxyReady, hookVars>>

\* Lines 271-278: the internal functions and the hook target are looked up
\* in libart (null when ElfImg does not find them).
ResolveArt ==
    /\ load = "resolve"
    /\ \E r \in [ArtFns -> BOOLEAN], t \in BOOLEAN :
         /\ artFn' = r
         /\ targetFn' = t
    /\ load' = "proxy"
    /\ UNCHANGED <<envVars, artVm, artPath, searchVars, dvmFn, finalCleared,
                   proxyReady, hookVars>>

\* Lines 280-288: the global class reference and the proxy method ID that
\* the replacement calls are stored; JNI_OnLoad returns.  GetStaticMethodID
\* is not checked: the model takes the Java class (not in this repository)
\* to declare proxy, so the method ID is set.
SetProxy ==
    /\ load = "proxy"
    /\ proxyReady' = TRUE
    /\ load' = "done"
    /\ UNCHANGED <<envVars, artVm, artPath, searchVars, artFn, dvmFn,
                   finalCleared, targetFn, hookVars>>

-----------------------------------------------------------------------------
(***************************************************************************)
(* Java threads.  A native runs on the calling thread; nHookNativeFunc is  *)
(* split at the points where another thread can interleave.               *)
(***************************************************************************)

\* Lines 119-127 and 243: the natives of gMethods are bound once
\* RegisterNatives succeeded.  Java calls them only after
\* System.loadLibrary has returned, that is after JNI_OnLoad returned
\* JNI_VERSION_1_6: initialisation is single-threaded (spec 5).  This
\* conjunct is the environment's calling discipline, not Trex code.
NativesCallable ==
    /\ registered > 0
    /\ load = "done"

\* Thread t may start a call.
Idle(t) == tpc[t] = "idle" /\ calls[t] < MaxCalls

\* A call of functions fs of the runtime: a fault if any of them is null.
CallThrough(fs) == nullCall' = (nullCall \/ \E f \in fs : ~f)

\* Lines 57-58: read native_get_stack_trace_func; nothing to do when null.
HookCall(t) ==
    /\ NativesCallable
    /\ Idle(t)
    /\ calls' = [calls EXCEPT ![t] = @ + 1]
    /\ tpc' = [tpc EXCEPT ![t] = IF targetFn THEN "install" ELSE "idle"]
    /\ UNCHANGED <<hooks, origin, nullCall>>
    /\ UNCHANGED <<envVars, loadVars>>

\* Line 59: Hook() makes the page writable and calls DobbyHook, whose
\* result INLINE_HOOK discards.
HookInstall(t) ==
    /\ tpc[t] = "install"
    /\ \/ /\ hooks' = hooks + 1
          /\ origin' = TRUE
       \/ UNCHANGED <<hooks, origin>>
    /\ tpc' = [tpc EXCEPT ![t] = "clear"]
    /\ UNCHANGED <<calls, nullCall>>
    /\ UNCHANGED <<envVars, loadVars>>

\* Mutant of HookClear: the pointer is not cleared.
HookClearKeep(t) ==
    /\ tpc[t] = "clear"
    /\ targetFn' = targetFn
    /\ tpc' = [tpc EXCEPT ![t] = "idle"]
    /\ UNCHANGED <<hooks, origin, calls, nullCall>>
    /\ UNCHANGED <<envVars, load, artVm, artPath, searchVars, artFn, dvmFn,
                   finalCleared, proxyReady>>

\* Line 60: native_get_stack_trace_func = nullptr, whatever Hook returned.
HookClear(t) ==
    /\ tpc[t] = "clear"
    /\ targetFn' = FALSE
    /\ tpc' = [tpc EXCEPT ![t] = "idle"]
    /\ UNCHANGED <<hooks, origin, calls, nullCall>>
    /\ UNCHANGED <<envVars, load, artVm, artPath, searchVars, artFn, dvmFn,
                   finalCleared, proxyReady>>

\* Mutant of DumpThrowable: Throwable_Dump is not checked.
DumpThrowableUnchecked(t) ==
    /\ NativesCallable
    /\ Idle(t)
    /\ calls' = [calls EXCEPT ![t] = @ + 1]
    /\ \/ /\ artFn["DecodeJObject"]
          /\ CallThrough({artFn["DecodeJObject"], artFn["Throwable_Dump"]})
       \/ ~artFn["DecodeJObject"] /\ UNCHANGED nullCall
    /\ UNCHANGED <<hooks, origin, tpc>>
    /\ UNCHANGED <<envVars, loadVars>>

\* Lines 50-55 (nDumpThrowable): returns null unless both functions were
\* resolved (and the throwable is non-null); else decodes and dumps it.
DumpThrowable(t) ==
    /\ NativesCallable
    /\ Idle(t)
    /\ calls' = [calls EXCEPT ![t] = @ + 1]
    /\ \/ /\ artFn["DecodeJObject"] /\ artFn["Throwable_Dump"]
          /\ CallThrough({artFn["DecodeJObject"], artFn["Throwable_Dump"]})
       \/ /\ ~(artFn["DecodeJObject"] /\ artFn["Throwable_Dump"])
          /\ UNCHANGED nullCall
    /\ UNCHANGED <<hooks, origin, tpc>>
    /\ UNCHANGED <<envVars, loadVars>>

\* Lines 64-69 (nGetSourceFile): the same guard over GetSourceFile.
GetSourceFileCall(t) ==
    /\ NativesCallable
    /\ Idle(t)
    /\ calls' = [calls EXCEPT ![t] = @ + 1]
    /\ \/ /\ artFn["GetSourceFile"] /\ artFn["DecodeJObject"]
          /\ CallThrough({artFn["GetSourceFile"], artFn["DecodeJObject"]})
       \/ /\ ~(artFn["GetSourceFile"] /\ artFn["DecodeJObject"])
          /\ UNCHANGED nullCall
    /\ UNCHANGED <<hooks, origin, tpc>>
    /\ UNCHANGED <<envVars, loadVars>>

\* Lines 75-108 (nGetDvmDescriptor, registered on Dalvik only): the
\* descriptor copy is called only while type_visible, which starts as
\* "dexProtoCopyMethodDescriptor is non-null" and the visibility flags and
\* class loader may turn off.
GetDvmDescriptor(t) ==
    /\ NativesCallable
    /\ registered = 5
    /\ Idle(t)
    /\ calls' = [calls EXCEPT ![t] = @ + 1]
    /\ \/ /\ dvmFn["dexProtoCopyMethodDescriptor"]
          /\ CallThrough({dvmFn["dexProtoCopyMethodDescriptor"]})
       \/ UNCHANGED nullCall
    /\ UNCHANGED <<hooks, origin, tpc>>
    /\ UNCHANGED <<envVars, loadVars>>

\* Lines 40-48: Throwable.getStackTrace on thread t reaches
\* Throwable_nativeGetStackTrace; once hooked, ReplaceNativeGetStackTrace
\* calls the origin trampoline and then the Java proxy through
\* trex_android_class / get_proxy_stack_trace_mid.
StackTrace(t) ==
    /\ Idle(t)
    /\ calls' = [calls EXCEPT ![t] = @ + 1]
    /\ \/ hooks > 0 /\ CallThrough({origin, proxyReady})
       \/ hooks = 0 /\ UNCHANGED nullCall
    /\ UNCHANGED <<hooks, origin, tpc>>
    /\ UNCHANGED <<envVars, loadVars>>

-----------------------------------------------------------------------------
\* JNI_OnLoad's own steps.
LoadStep ==
    \/ GetEnvFailed \/ ProbeAndOpen \/ SearchStart
    \/ FrameMatch \/ FrameNext \/ FramesExhausted
    \/ RegisterNatives \/ DvmSetup \/ ResolveArt \/ SetProxy

ThreadStep(t) ==
    \/ HookCall(t) \/ HookInstall(t) \/ HookClear(t)
    \/ DumpThrowable(t) \/ GetSourceFileCall(t) \/ GetDvmDescriptor(t)
    \/ StackTrace(t)

Next == LoadStep \/ \E t \in Threads : ThreadStep(t)

Spec == Init /\ [][Next]_vars

\* JNI_OnLoad runs on the loading thread and waits on nothing (no lock, no
\* blocking call in the model), so it keeps taking steps; a thread inside
\* nHookNativeFunc likewise finishes the call.  Java threads need not call.
Fairness ==
    /\ WF_vars(LoadStep)
    /\ \A t \in Threads : WF_vars(HookInstall(t) \/ HookClear(t))

FairSpec == Spec /\ Fairness

-----------------------------------------------------------------------------
TypeOK ==
    /\ sdk \in Sdks /\ hasArtMethod \in BOOLEAN /\ classAt \in -1 .. Depth
    /\ load \in {"start", "search", "frames", "register", "dvm", "resolve",
                 "proxy", "done", "err"}
    /\ artVm \in BOOLEAN
    /\ artPath \in {"none", "apex-art", "apex-runtime", "system"}
    /\ frame \in 0 .. (Depth + 1)
    /\ nativeClass \in BOOLEAN
    /\ registered \in {0, 3, 5}
    /\ artFn \in [ArtFns -> BOOLEAN] /\ dvmFn \in [DvmFns -> BOOLEAN]
    /\ finalCleared \in BOOLEAN /\ targetFn \in BOOLEAN /\ proxyReady \in BOOLEAN
    /\ hooks \in Nat /\ origin \in BOOLEAN
    /\ tpc \in [Threads -> {"idle", "install", "clear"}]
    /\ calls \in [Threads -> 0 .. MaxCalls]
    /\ nullCall \in BOOLEAN

\* No native code of Trex ever calls through a null function pointer or
\* uses an unset class or method ID: the query natives check what they
\* call, and the detour, which calls OriginNativeGetStackTrace and the
\* proxy through trex_android_class / get_proxy_stack_trace_mid on every
\* getStackTrace of every thread, goes live only after JNI_OnLoad has set
\* them.
NoNullCall == ~nullCall

\* Spec 4.5: one hook per symbol; hooking an already hooked address is
\* undefined.  nHookNativeFunc clears the pointer so that repeated calls
\* do not hook Throwable_nativeGetStackTrace twice.
HookAtMostOnce == hooks <= 1

\* Spec 8: below the lowest ART level the legacy Dalvik path is taken: no
\* ART library is opened, no ART symbol resolved, nothing hooked, and the
\* two Dalvik-only natives (nGetDvmDescriptor, nGetDvmMethod, which the
\* Java side calls on Dalvik) are registered with the other three.
DalvikNeverTouchesArt ==
    ~artVm =>
        /\ artPath = "none"
        /\ \A f \in ArtFns : ~artFn[f]
        /\ ~targetFn /\ hooks = 0
        /\ registered \in {0, 5}

\* The search over the stack frames (lines 184-195 / 212-231) finds the
\* class that declares the natives whenever a frame of the backtrace holds
\* it, and only then: the loop's start and bound skip exactly the
\* runtime's non-frame element.
SearchFindsClass ==
    load = "register" => (nativeClass <=> classAt # -1)

\* JNI_OnLoad always returns, in success or failure: the frame loop ends
\* whatever frame (if any) holds the class.
OnLoadReturns == <>(load \in {"done", "err"})

=============================================================================
