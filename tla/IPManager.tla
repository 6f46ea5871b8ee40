------------------------------ MODULE IPManager ------------------------------
(***************************************************************************)
(* The external IP managers of internal/dataplane/ipattach, netlink and    *)
(* exec, call by call.  Both do the same: they list the interface, add or  *)
(* delete one address, and after an error list the interface again.  Each  *)
(* of these is a netlink request or a command of its own, between which    *)
(* other software on the host changes the interface; any may fail, and an  *)
(* addition or a deletion may have taken place when it does (a command     *)
(* that is killed, an acknowledgement that is not received).               *)
(*                                                                         *)
(* The interface is a set of addresses with prefix lengths; as in Linux,   *)
(* an address may be there with several lengths.                           *)
(***************************************************************************)
EXTENDS Naturals

CONSTANTS
    IP,      \* IPv4 addresses
    Other,   \* any other value of a netip.Addr
    Configs, \* the settings, of an enabled manager
    NoCall

ASSUME OtherAssumption == Other \notin IP
ASSUME NoCallAssumption == NoCall \notin [kind : {"present", "absent"}, ip : IP \cup {Other}]

VARIABLES
    config,    \* m.config
    interface, \* the addresses of the interface
    pc, call,  \* the call in progress
    reply,     \* what it is about to return
    took       \* history: the operation that failed took place

vars == <<config, interface, pc, call, reply, took>>

DefaultCIDRSuffix == 32

NormalizeConfig(cfg) ==
    [cfg EXCEPT !.mode = IF @ = "" THEN "netlink" ELSE @,
                !.suffix = IF @ = 0 THEN DefaultCIDRSuffix ELSE @]

\* NewManager returns no error.
Accepted(cfg) ==
    /\ cfg.mode \in {"exec", "netlink"}
    /\ cfg.suffix \in 1..32
    /\ cfg.interface # ""

Managers == {cfg \in {NormalizeConfig(c) : c \in Configs} : Accepted(cfg)}

Call == [kind : {"present", "absent"}, ip : IP \cup {Other}]

\* Every variable has its type; a call puts no address on the interface that
\* is not an IPv4 address, and no prefix length that none can have.
TypeOK ==
    /\ config \in Managers
    /\ interface \subseteq IP \X (1..32)
    /\ pc \in {"idle", "list", "operate", "again", "return"}
    /\ call \in Call \cup {NoCall}
    /\ pc = "idle" <=> call = NoCall
    /\ reply \in {"changed", "unchanged", "error"}
    /\ took \in BOOLEAN

Init ==
    /\ config \in Managers
    /\ interface \in SUBSET (IP \X {c.suffix : c \in Managers})
    /\ pc = "idle"
    /\ call = NoCall
    /\ reply = "error"
    /\ took = FALSE

-----------------------------------------------------------------------------
\* parseManagedInterfaceAddrs, or the filter of the netlink manager's List.
List == {e[1] : e \in {x \in interface : x[2] = config.suffix}}

Entry == <<call.ip, config.suffix>>

\* The wanted state is there.
Holds == (call.ip \in List) = (call.kind = "present")

Finish(result) ==
    /\ pc' = "return"
    /\ reply' = result

\* EnsurePresent or EnsureAbsent is called.
Begin ==
    /\ pc = "idle"
    /\ pc' = "list"
    /\ call' \in Call
    /\ UNCHANGED <<config, interface, reply, took>>

\* Mutant: validateIPv4Addr is not called.
ListFirst_AnyAddr ==
    /\ pc = "list"
    /\ \/ Finish("error")
       \/ Holds /\ Finish("unchanged")
       \/ ~Holds /\ pc' = "operate" /\ UNCHANGED reply
    /\ UNCHANGED <<config, interface, call, took>>

\* validateIPv4Addr, the first List, and containsAddr.
ListFirst ==
    /\ pc = "list"
    /\ \/ Finish("error")
       \/ call.ip \in IP /\ Holds /\ Finish("unchanged")
       \/ call.ip \in IP /\ ~Holds /\ pc' = "operate" /\ UNCHANGED reply
    /\ UNCHANGED <<config, interface, call, took>>

\* The interface after AddIPv4Addr or DeleteIPv4Addr, or their commands.
Operated ==
    IF call.kind = "present" THEN interface \cup {Entry} ELSE interface \ {Entry}

\* The host refuses to add what is there and to delete what is not.
Operate ==
    /\ pc = "operate"
    /\ \/ /\ ~Holds
          /\ interface' = Operated
          /\ Finish("changed")
          /\ UNCHANGED took
       \/ /\ ~Holds
          /\ interface' = Operated
          /\ pc' = "again"
          /\ took' = TRUE
          /\ UNCHANGED reply
       \/ /\ pc' = "again"
          /\ UNCHANGED <<interface, reply, took>>
    /\ UNCHANGED <<config, call>>

\* Mutant: an operation that failed counts as done when the state is there.
StateAfterOperation_Changed ==
    /\ pc = "again"
    /\ \/ Finish("error")
       \/ Holds /\ Finish("changed")
    /\ took' = FALSE
    /\ UNCHANGED <<config, interface, call>>

\* ensureNetlinkStateAfterOperation, ensureExecStateAfterCommand: the second
\* List fails, or finds the wanted state, or does not.
StateAfterOperation ==
    /\ pc = "again"
    /\ \/ Finish("error")
       \/ Holds /\ Finish("unchanged")
    /\ took' = FALSE
    /\ UNCHANGED <<config, interface, call>>

Return ==
    /\ pc = "return"
    /\ pc' = "idle"
    /\ call' = NoCall
    /\ reply' = "error"
    /\ UNCHANGED <<config, interface, took>>

Manager == ListFirst \/ Operate \/ StateAfterOperation \/ Return

\* Other software adds or deletes an address.
Host ==
    /\ \E e \in IP \X {c.suffix : c \in Managers} :
          interface' \in {interface \cup {e}, interface \ {e}}
    /\ UNCHANGED <<config, pc, call, reply, took>>

Next == Begin \/ Manager \/ Host

Spec == Init /\ [][Next]_vars

-----------------------------------------------------------------------------
\* The call as the atomic manager has it: its moment is the List that finds the
\* wanted state, or the operation, or the failure.
Replies ==
    CASE pc = "return"        -> {reply}
      [] pc = "again" /\ took -> {"unchanged", "error"}
      [] OTHER                -> {}

Atomic ==
    INSTANCE AtomicAttach WITH
        attached <- List, HostAddrs <- IP, IP <- IP \cup {Other}, replies <- Replies

\* Whatever the host does to the interface between the steps of a call, the
\* call is one atomic action of IPAttach: a reported success means that the
\* address was there (or not) at some moment of the call, a reported change is
\* this call's own, so that the engine's rollback never detaches an address
\* that the host put there, and no other managed address is touched.
CallsAreAtomic == Atomic!AtomicSpec
=============================================================================
