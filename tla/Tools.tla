------------------------------- MODULE Tools --------------------------------
(***************************************************************************)
(* What the keys `t`, `b` and `e` of the boot menu lead to: the console,   *)
(* other bootloaders, and the enrolment of keys, that one with the         *)
(* programs of the running system whose certificate it enrols.  A tool has *)
(* the display and the keyboard to itself until it returns.                *)
(***************************************************************************)
EXTENDS Console, Chainload, Status

VARIABLE tool   \* the one that is run

toolVars == <<console, chainload, systemVars, tool>>

NoConsole == open = FALSE /\ cwd = <<>> /\ line = <<>>
NoChainload ==
    /\ content = <<>> /\ attached = {} /\ plugs = 0 /\ own_device = {} /\ screen = "menu"
    /\ found = <<>> /\ selected = 0 /\ rows = <<>> /\ started = {}

ToolsInit ==
    \/ tool = "console" /\ ConsoleInit /\ NoChainload /\ SystemInit
    \/ tool = "chainload" /\ ChainloadInit /\ NoConsole /\ SystemInit
    \/ tool = "enroll" /\ SystemInit /\ NoConsole /\ NoChainload

ToolsNext ==
    \/ tool = "console" /\ ConsoleNext /\ UNCHANGED <<chainload, systemVars, tool>>
    \/ tool = "chainload" /\ ChainloadNext /\ UNCHANGED <<console, systemVars, tool>>
    \/ tool = "enroll" /\ SystemNext /\ UNCHANGED <<console, chainload, tool>>

ToolsSpec == ToolsInit /\ [][ToolsNext]_toolVars
=============================================================================
