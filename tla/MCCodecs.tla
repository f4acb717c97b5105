------------------------------ MODULE MCCodecs -------------------------------
(***************************************************************************)
(* The codecs of all backends on the same schemas, one of them at a time.  *)
(* A variable a backend has no use for is Off.                             *)
(***************************************************************************)
EXTENDS WireCases

VARIABLES backend, obj, verdict, stack, cur, dead, ix, lv, askip, afill, flags

Go == INSTANCE GoCodec
Rust == INSTANCE RustCodec
Cpp == INSTANCE CppCodec
Java == INSTANCE JavaCodec
TypeScript == INSTANCE TypeScriptCodec WITH live <- lv, stale <- flags
Zig == INSTANCE ZigCodec WITH fill <- lv
Kotlin == INSTANCE KotlinCodec WITH tgt <- lv
CSharp == INSTANCE CSharpCodec
Python == INSTANCE PythonCodec WITH skip <- askip, slots <- lv, read <- flags
Dart == INSTANCE DartCodec

Off == "off"
counters == <<askip, afill>>
flat == <<cur, ix>>
sticky == <<dead, lv, flags>>
vars == <<schema, wire, backend, obj, verdict, stack, counters, flat, sticky>>

NoCounters == askip = Off /\ afill = Off
NotFlat == cur = Off /\ ix = Off
NotSticky == dead = Off /\ lv = Off /\ flags = Off
NoStack == stack = Off

Init ==
    \/ backend = "go" /\ Go!Init /\ NoCounters /\ NotFlat /\ NotSticky
    \/ backend = "rust" /\ Rust!Init
    \/ backend = "cpp" /\ Cpp!Init /\ NoCounters /\ NotFlat /\ NotSticky
    \/ backend = "java" /\ Java!Init /\ NotSticky
    \/ backend = "typescript" /\ TypeScript!Init /\ NoStack /\ NoCounters
    \/ backend = "zig" /\ Zig!Init /\ dead = Off /\ schema # FloatRows \* those are MCZigRows's
    \/ backend = "kotlin" /\ Kotlin!Init /\ dead = Off /\ flags = Off
    \/ backend = "csharp" /\ CSharp!Init /\ NotSticky
    \/ backend = "python" /\ Python!Init /\ afill = Off /\ dead = Off
    \/ backend = "dart" /\ Dart!Init /\ NoCounters /\ NotFlat /\ NotSticky

GoNext == backend = "go" /\ Go!Next /\ UNCHANGED <<backend, counters, flat, sticky>>
RustNext == backend = "rust" /\ Rust!Next /\ UNCHANGED backend
CppNext == backend = "cpp" /\ Cpp!Next /\ UNCHANGED <<backend, counters, flat, sticky>>
JavaNext == backend = "java" /\ Java!Next /\ UNCHANGED <<backend, sticky>>
TypeScriptNext == backend = "typescript" /\ TypeScript!Next /\ UNCHANGED <<backend, stack, counters>>
ZigNext == backend = "zig" /\ Zig!Next /\ UNCHANGED <<backend, dead>>
KotlinNext == backend = "kotlin" /\ Kotlin!Next /\ UNCHANGED <<backend, dead, flags>>
CSharpNext == backend = "csharp" /\ CSharp!Next /\ UNCHANGED <<backend, sticky>>
PythonNext == backend = "python" /\ Python!Next /\ UNCHANGED <<backend, afill, dead>>
DartNext == backend = "dart" /\ Dart!Next /\ UNCHANGED <<backend, counters, flat, sticky>>

Next ==
    \/ GoNext \/ RustNext \/ CppNext \/ JavaNext \/ TypeScriptNext \/ ZigNext
    \/ KotlinNext \/ CSharpNext \/ PythonNext \/ DartNext

Spec == Init /\ [][Next]_vars

-----------------------------------------------------------------------------
(* The promise of each backend, stated in its module.                      *)

GoSpeaks == backend = "go" => Go!SpeaksTheFormat
RustSpeaks == backend = "rust" => Rust!SpeaksTheFormat
CppSpeaks == backend = "cpp" => Cpp!SpeaksTheFormat
JavaSpeaks == backend = "java" => Java!SpeaksTheFormat
TypeScriptSpeaks == backend = "typescript" => TypeScript!SpeaksTheFormat
ZigSpeaks == backend = "zig" => Zig!SpeaksTheFormat
KotlinSpeaks == backend = "kotlin" => Kotlin!SpeaksTheFormat
CSharpSpeaks == backend = "csharp" => CSharp!SpeaksTheFormat
PythonSpeaks == backend = "python" => Python!SpeaksTheFormat
DartSpeaks == backend = "dart" => Dart!SpeaksTheFormat

=============================================================================
