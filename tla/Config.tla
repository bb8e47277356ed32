------------------------------- MODULE Config -------------------------------
(* pkg/config: what LoadFromFile and Validate say of a configuration file.   *)
(* A string is present (TRUE) or empty (FALSE) where the code asks nothing   *)
(* else of it; a file is its extension, whether it is readable and parses as *)
(* JSON, and the two lists it holds.                                         *)
EXTENDS Integers, SequencesExt

CONSTANT None

Transports == {"stdio", "http", "", "other"}
MaxPort    == 65535

(* Mutants: no command is asked of a stdio server; one port too many.        *)
ServerErrorNoCommand(s) ==
    IF s.name = None                                THEN "name"
    ELSE IF s.transport = ""                        THEN "transport"
    ELSE IF s.transport = "http" /\ ~s.url          THEN "url"
    ELSE IF s.transport \notin {"stdio", "http"}    THEN "unknown transport"
    ELSE None
PortOkPlusOne(p) == p \in 0 .. MaxPort + 1

(* ServerConfig.Validate and ContainerConfig.Validate: what is wrong, if     *)
(* anything.                                                                 *)
ServerError(s) ==
    IF s.name = None                                THEN "name"
    ELSE IF s.transport = ""                        THEN "transport"
    ELSE IF s.transport = "stdio" /\ ~s.command     THEN "command"
    ELSE IF s.transport = "http" /\ ~s.url          THEN "url"
    ELSE IF s.transport \notin {"stdio", "http"}    THEN "unknown transport"
    ELSE None

PortOk(p) == p \in 0 .. MaxPort

ContainerError(k) ==
    IF ~k.image                  THEN "image"
    ELSE IF ~PortOk(k.port)      THEN "port"
    ELSE IF ~PortOk(k.hostPort)  THEN "host port"
    ELSE None

(* LoadFromFile; .yaml and .yml are parsed as JSON.                          *)
LoadError(f) ==
    IF ~f.readable                              THEN "read"
    ELSE IF f.ext \notin {".json", ".yaml", ".yml"} THEN "format"
    ELSE IF ~f.json                             THEN "parse"
    ELSE None

(* The two loops of FileConfig.Validate.                                     *)
BadServer(s)    == ServerError(s) # None
BadContainer(k) == ContainerError(k) # None
FirstServer(f)    == SelectInSeq(f.servers, BadServer)
FirstContainer(f) == SelectInSeq(f.containers, BadContainer)

(* Where FileConfig.Validate stops, and why; None when it accepts.           *)
FileError(f) ==
    IF FirstServer(f) # 0 THEN
        [list |-> "server", at |-> FirstServer(f), why |-> ServerError(f.servers[FirstServer(f)])]
    ELSE IF FirstContainer(f) # 0 THEN
        [list |-> "container", at |-> FirstContainer(f),
         why |-> ContainerError(f.containers[FirstContainer(f)])]
    ELSE None

=============================================================================
