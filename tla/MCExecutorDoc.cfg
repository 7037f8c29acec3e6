SPECIFICATION Spec
CONSTANTS
    Sources = {n1}
    Sessions = {1, 2}
    Msgs = {0, 1}
    Contents = {x}
    Calls = {c1}
    ExitCodes = {e0}
    Nil = Nil
INVARIANTS
    OncePerSourceAndMessage
