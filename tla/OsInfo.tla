------------------------------- MODULE OsInfo -------------------------------
(***************************************************************************)
(* The operating system plugin (plugins/osinfo/osinfo.cpp): what uname and *)
(* os-release say is there at once, plasmashell and hostnamed are asked    *)
(* over D-Bus and answer later, in any order, in part, or with an error.   *)
(* A value is modelled by where it comes from, "empty" if there is none.   *)
(***************************************************************************)
EXTENDS Naturals, Sequences

VARIABLES
    osLoaded,       \* init() has run
    osLinux,        \* LinuxPrivate: hostnamed is asked
    pending,        \* calls without a reply
    kernel,         \* kernelObject: name, version, prettyName
    hostname,       \* hostnameProperty
    osVersion,      \* osVersionProperty
    plasmaVersion,  \* plasmaVersionProperty
    answer          \* history: what hostnamed answered, {} before

osVars == <<osLoaded, osLinux, pending, kernel, hostname, osVersion, plasmaVersion, answer>>

\* What os-release has of a version, as it is preferred.
VersionKeys == <<"VERSION", "VERSION_ID", "VERSION_CODENAME", "IMAGE_VERSION">>
HostKeys == {"KernelName", "KernelRelease", "PrettyHostname", "Hostname"}
Sources == {"empty", "uname", "hostnamed"}

OsTypeOK ==
    /\ osLoaded \in BOOLEAN
    /\ osLinux \in BOOLEAN
    /\ pending \subseteq {"plasmashell", "hostnamed"}
    /\ kernel \in [name : Sources, version : Sources, prettyName : Sources \X Sources]
    /\ hostname \in {"empty", "machine", "Hostname", "PrettyHostname"}
    /\ osVersion \in {VersionKeys[i] : i \in DOMAIN VersionKeys} \union {"empty"}
    /\ plasmaVersion \in {"empty", "version", "Unknown"}
    /\ answer \subseteq HostKeys

OsInit ==
    /\ osLoaded = FALSE
    /\ osLinux = FALSE
    /\ pending = {}
    /\ kernel = [name |-> "empty", version |-> "empty", prettyName |-> <<"empty", "empty">>]
    /\ hostname = "empty"
    /\ osVersion = "empty"
    /\ plasmaVersion = "empty"
    /\ answer = {}

\* The version of a system whose os-release has the keys of K.
Version(K) ==
    LET there == {i \in DOMAIN VersionKeys : VersionKeys[i] \in K} IN
    IF there = {} THEN "empty"
    ELSE VersionKeys[CHOOSE i \in there : \A j \in there : i <= j]

OsLoad ==
    /\ ~osLoaded
    /\ osLoaded' = TRUE
    /\ osLinux' \in BOOLEAN
    /\ pending' = IF osLinux' THEN {"plasmashell", "hostnamed"} ELSE {"plasmashell"}
    /\ kernel' = [name |-> "uname", version |-> "uname",
                   prettyName |-> <<"uname", "uname">>]
    /\ hostname' = "machine"
    /\ \E K \in SUBSET {VersionKeys[i] : i \in DOMAIN VersionKeys} : osVersion' = Version(K)
    /\ UNCHANGED <<plasmaVersion, answer>>

LeftUnset(error) == IF error THEN plasmaVersion ELSE "version"
PlasmaVersion(error) == IF error THEN "Unknown" ELSE "version"

PlasmaReplies(error) ==
    /\ "plasmashell" \in pending
    /\ pending' = pending \ {"plasmashell"}
    /\ plasmaVersion' = PlasmaVersion(error)
    /\ UNCHANGED <<osLoaded, osLinux, kernel, hostname, osVersion, answer>>

\* The kernel's sensors after an answer that has the properties of A: what it has
\* not, stays.
Overridden(A, key, old) == IF key \in A THEN "hostnamed" ELSE old
StalePrettyName(A) ==
    [name |-> Overridden(A, "KernelName", kernel.name),
     version |-> Overridden(A, "KernelRelease", kernel.version),
     prettyName |-> <<Overridden(A, "KernelName", kernel.name), kernel.version>>]
KernelAfter(A) ==
    LET name == Overridden(A, "KernelName", kernel.name)
        version == Overridden(A, "KernelRelease", kernel.version)
    IN [name |-> name, version |-> version, prettyName |-> <<name, version>>]

\* PrettyHostname counts as absent if it is empty.
HostnameAfter(A) ==
    IF "PrettyHostname" \in A THEN "PrettyHostname"
    ELSE IF "Hostname" \in A THEN "Hostname" ELSE hostname

\* An error leaves everything as it is.
HostnamedReplies(error, A) ==
    /\ "hostnamed" \in pending
    /\ pending' = pending \ {"hostnamed"}
    /\ IF error THEN UNCHANGED <<kernel, hostname, answer>>
       ELSE /\ kernel' = KernelAfter(A)
            /\ hostname' = HostnameAfter(A)
            /\ answer' = A
    /\ UNCHANGED <<osLoaded, osLinux, osVersion, plasmaVersion>>

OsNext ==
    \/ OsLoad
    \/ \E error \in BOOLEAN : PlasmaReplies(error)
    \/ \E error \in BOOLEAN, A \in SUBSET HostKeys : HostnamedReplies(error, A)

\* Every D-Bus call is answered, if only by a timeout.
OsFairness == WF_osVars(\E error \in BOOLEAN : PlasmaReplies(error))

OsSpec == OsInit /\ [][OsNext]_osVars /\ OsFairness

\* "Kernel Name and Version" is the name and the version the other two sensors
\* show, also after an answer with one of the two only, and hostnamed's names win
\* over the machine's.
OsNamesAgree ==
    /\ kernel.prettyName = <<kernel.name, kernel.version>>
    /\ "PrettyHostname" \in answer => hostname = "PrettyHostname"

\* The Plasma version does not stay empty, whether or not plasmashell runs.
PlasmaVersionSettles == osLoaded ~> plasmaVersion # "empty"
=============================================================================
