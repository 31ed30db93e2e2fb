CONSTANTS
    Calls = {c1}
    Ends = {e1}
    ServerNames = {s1}
    Objs = {o1}
    Nil = Nil
SPECIFICATION NetworkSpec
PROPERTY NoReplyFromDeletedServer
