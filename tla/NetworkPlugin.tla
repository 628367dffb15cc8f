---------------------------- MODULE NetworkPlugin ----------------------------
(***************************************************************************)
(* The network plugin (plugins/network/NetworkPlugin.cpp): when it is      *)
(* created the first backend of those built that is supported becomes its  *)
(* backend for good, and the others are deleted.  Only the backend it has  *)
(* adds and removes devices and is updated with the frames.                *)
(***************************************************************************)
EXTENDS NetworkManager, RtNetlink, Sysctl

VARIABLE networkBackend     \* "unloaded", then the backend or "none"

networkVars == <<networkBackend, nmVars, rtVars, sysVars>>

\* The order they are created in.
Backends == <<"NetworkManager", "RtNetlink", "Sysctl">>

\* What a build may have: NetworkManager's if its library was found, and the
\* operating system's own.
Builds == {{own} : own \in {"RtNetlink", "Sysctl"}}
    \union {{"NetworkManager", own} : own \in {"RtNetlink", "Sysctl"}}

\* isSupported(): NetworkManager's state is known, there is a netlink socket;
\* sysctl always is.
Supported == {S \union {"Sysctl"} : S \in SUBSET {"NetworkManager", "RtNetlink"}}

FirstOf(candidates) ==
    LET at == {i \in DOMAIN Backends : Backends[i] \in candidates} IN
    IF at = {} THEN "none" ELSE Backends[CHOOSE i \in at : \A j \in at : i <= j]

NetworkInit ==
    /\ networkBackend = "unloaded"
    /\ NmInit
    /\ RtInit
    /\ SysInit

NetworkLoad ==
    /\ networkBackend = "unloaded"
    /\ \E built \in Builds, S \in Supported : networkBackend' = FirstOf(built \intersect S)
    /\ UNCHANGED <<nmVars, rtVars, sysVars>>

NetworkNext ==
    \/ NetworkLoad
    \/ /\ networkBackend = "NetworkManager"
       /\ NmNext
       /\ UNCHANGED <<networkBackend, rtVars, sysVars>>
    \/ /\ networkBackend = "RtNetlink"
       /\ RtNext
       /\ UNCHANGED <<networkBackend, nmVars, sysVars>>
    \/ /\ networkBackend = "Sysctl"
       /\ SysNext
       /\ UNCHANGED <<networkBackend, nmVars, rtVars>>

NetworkTypeOK ==
    /\ networkBackend \in {Backends[i] : i \in DOMAIN Backends} \union {"unloaded", "none"}
    /\ NmTypeOK
    /\ RtTypeOK
    /\ SysTypeOK
=============================================================================
