CONSTANTS
    None = None
    Schemas <- MCSchemas
    Caps <- MCCaps
SPECIFICATION Spec
INVARIANT GoSpeaks RustSpeaks CppSpeaks JavaSpeaks TypeScriptSpeaks ZigSpeaks KotlinSpeaks CSharpSpeaks PythonSpeaks DartSpeaks
