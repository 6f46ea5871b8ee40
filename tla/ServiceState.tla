---------------------------- MODULE ServiceState ----------------------------
(***************************************************************************)
(* The desired state that the providers and the dataplane engine keep: one *)
(* entry per Service reference (internal/dataplane/store.go), the external *)
(* addresses it asks for (internal/dataplane/externalips.go) and the one   *)
(* aggregate HAProxy configuration it is rendered to (render.go).          *)
(*                                                                         *)
(* A provider.Service is abstracted to its external IP and a payload that  *)
(* stands for its normalised, sorted ports and backends.  A rendered       *)
(* configuration is abstracted to its frontends, which bind one address    *)
(* each, and to whether it has the bootstrap frontend: a Service without   *)
(* ports leaves no trace in it, so Render is not one-to-one.               *)
(***************************************************************************)
CONSTANTS
    Ref,        \* namespace/name references of Services
    IP,         \* external IPv4 addresses
    Payload,    \* normalised ports and backends of a Service
    Renderable, \* the payloads that ValidateService accepts
    Portless,   \* the payloads without a port
    None        \* no entry for a reference

ASSUME RenderableAssumption == Renderable \subseteq Payload /\ Portless \subseteq Payload
ASSUME NoneAssumption == None \notin [ip : IP, payload : Payload]

Value == [ip : IP, payload : Payload]

\* The contents of a Store.
Config == [Ref -> Value \cup {None}]

\* NewStore.
EmptyConfig == [r \in Ref |-> None]

Has(config, r) == config[r] # None

\* Clone followed by Upsert, and Clone followed by Delete: a new map that
\* shares nothing with the old one.
Upsert(config, r, v) == [config EXCEPT ![r] = v]
Remove(config, r) == [config EXCEPT ![r] = None]

\* desiredExternalIPs: an address shared by several Services is listed once.
DesiredExternalIPs(config) ==
    {ip \in IP : \E r \in Ref : Has(config, r) /\ config[r].ip = ip}

\* ValidateService, called by the handler, by Ensure and again by Render.
ValidateService(v) == v.payload \in Renderable

\* Render: the frontends of every Service that has ports; a bootstrap frontend
\* when there is no Service at all.
RenderService(v) == IF v # None /\ v.payload \notin Portless THEN v ELSE None
Render(config) == [bootstrap |-> config = EmptyConfig,
                   frontends |-> [r \in Ref |-> RenderService(config[r])]]
Rendered == [bootstrap : BOOLEAN, frontends : Config]

\* The addresses of the bind lines.
BoundIPs(text) == DesiredExternalIPs(text.frontends)
=============================================================================
