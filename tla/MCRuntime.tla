------------------------------- MODULE MCRuntime -------------------------------
(***************************************************************************)
(* The room Host's parts, the transport that carries a request to a child,   *)
(* the room's memories and the backups of the database.  They share no state *)
(* that is modelled: the first state chooses the part that runs and the      *)
(* others stay at rest.                                                      *)
(***************************************************************************)
EXTENDS HostPolicy, HostPresence, RustTransport, ChatRoom, Memories, Backups

CONSTANTS p1, a1

VARIABLE part

hostPartsVars == <<hostVars, presenceVars, transportVars, chatVars>>
bookPartsVars == <<memoriesVars, backupsVars>>
partVars == <<hostPartsVars, bookPartsVars, part>>

PartsInit == /\ part \in {"policy", "presence", "transport", "chat", "memories", "backups"}
             /\ HostPolicyInit /\ PresenceInit /\ TransportInit /\ ChatInit
             /\ MemoriesInit /\ BackupsInit
             /\ part # "backups" => schema = 1

PartsNext ==
    \/ /\ part = "policy" /\ HostPolicyNext
       /\ UNCHANGED <<presenceVars, transportVars, chatVars, bookPartsVars, part>>
    \/ /\ part = "presence" /\ PresenceNext
       /\ UNCHANGED <<hostVars, transportVars, chatVars, bookPartsVars, part>>
    \/ /\ part = "transport" /\ TransportNext
       /\ UNCHANGED <<hostVars, presenceVars, chatVars, bookPartsVars, part>>
    \/ /\ part = "chat" /\ ChatNext
       /\ UNCHANGED <<hostVars, presenceVars, transportVars, bookPartsVars, part>>
    \/ /\ part = "memories" /\ MemoriesNext
       /\ UNCHANGED <<hostPartsVars, backupsVars, part>>
    \/ /\ part = "backups" /\ BackupsNext
       /\ UNCHANGED <<hostPartsVars, memoriesVars, part>>

PolicyTask(c) == /\ part = "policy" /\ TaskStep(c)
                 /\ UNCHANGED <<presenceVars, transportVars, chatVars, bookPartsVars, part>>

PartsSpec == /\ PartsInit /\ [][PartsNext]_partVars
             /\ \A c \in Clients : WF_partVars(PolicyTask(c))
=============================================================================
