---------------------------- MODULE ModelRouter ----------------------------
(***************************************************************************)
(* SwitchyardRouter, src/src/routing/router.py: targets read from a file,  *)
(* a pool of clients made on demand, routes that await a client's answer,  *)
(* and reload, while an operator edits the file.                           *)
(*                                                                         *)
(* A target is its model and its rate; a client is the target it was made  *)
(* for and an identity, that of its rate limiter (NIMClient).              *)
(***************************************************************************)
EXTENDS Naturals, Sequences, FiniteSetsExt

CONSTANTS
  Tasks,          \* tasks that call route
  TargetNames,    \* names of targets; "default" is one
  Files,          \* what the file may hold: its models, in order
  NoFile,         \* no file, or one without the key 'models'
  NoTarget, NoClient,
  MaxClients      \* bound on the clients made

VARIABLES
  file,      \* the configuration file
  targets,   \* _targets
  clients,   \* _clients
  made,      \* clients made so far: the identity of the next
  calls      \* the route each caller awaits: target, client, and (history)
             \* whether it started after the last load

router == <<file, targets, clients, made, calls>>

NoCall == [target |-> "default", client |-> NoClient, current |-> FALSE]

RouterTypeOK ==
  /\ file \in Files \cup {NoFile}
  /\ DOMAIN targets = TargetNames /\ DOMAIN clients = TargetNames
  /\ made \in 0..MaxClients
  /\ DOMAIN calls = Tasks

(***************************************************************************)
(* _load_config.                                                           *)
(***************************************************************************)
\* The models read before the first that ModelTarget's check rejects.
Read(models) ==
  {i \in DOMAIN models : \A j \in 1..i : models[j].valid}

\* Disabled models are skipped; of two of one name the last counts.
TargetsOf(models) ==
  LET Named(n) == {i \in Read(models) : models[i].name = n /\ models[i].enabled}
  IN  [n \in TargetNames |-> IF Named(n) = {} THEN NoTarget ELSE models[Max(Named(n))].model]

Superseded == [c \in Tasks |-> [calls[c] EXCEPT !.current = FALSE]]

\* Mutant: the pool is kept.
LoadConfigKeepsClients ==
  /\ file # NoFile
  /\ targets' = TargetsOf(file)
  /\ calls' = Superseded
  /\ UNCHANGED <<file, clients, made>>

\* Without a file, or without models in it, the load raises and changes nothing.
\* Both tables are cleared before the models are read; the load raises at a model
\* that is rejected, or when none is enabled, and leaves what was read until then.
LoadConfig ==
  /\ file # NoFile
  /\ targets' = TargetsOf(file)
  /\ clients' = [n \in TargetNames |-> NoClient]
  /\ calls' = Superseded
  /\ UNCHANGED <<file, made>>

(***************************************************************************)
(* route.                                                                  *)
(***************************************************************************)
\* _resolve_target: "auto" is decided by the words of "auto", which has none.
Resolve(task) == IF task = "auto" THEN "default" ELSE task

\* get_client falls back to "default"; without it the route raises.
Target(task) ==
  IF Resolve(task) \in TargetNames /\ targets[Resolve(task)] # NoTarget
  THEN Resolve(task) ELSE "default"

Pooled(n, client) == [clients EXCEPT ![n] = client]

Route(c, task) ==
  LET n      == Target(task)
      client == IF clients[n] # NoClient THEN clients[n]
                ELSE [target |-> targets[n], id |-> made + 1]
  IN  /\ calls[c] = NoCall
      /\ targets[n] # NoTarget
      /\ client.id <= MaxClients
      /\ clients' = Pooled(n, client)
      /\ made' = IF client.id > made THEN client.id ELSE made
      /\ calls' = [calls EXCEPT ![c] = [target |-> n, client |-> client, current |-> TRUE]]
      /\ UNCHANGED <<file, targets>>

\* The client answers, or raises.
Answer(c) ==
  /\ calls[c] # NoCall
  /\ calls' = [calls EXCEPT ![c] = NoCall]
  /\ UNCHANGED <<file, targets, clients, made>>

Edit == file' \in (Files \cup {NoFile}) \ {file} /\ UNCHANGED <<targets, clients, made, calls>>

\* __init__ loads once; a router whose first load raised does not exist.
RouterInit ==
  /\ file \in {f \in Files : \A i \in DOMAIN f : f[i].valid}
  /\ targets = TargetsOf(file)
  /\ \E n \in TargetNames : targets[n] # NoTarget
  /\ clients = [n \in TargetNames |-> NoClient]
  /\ made = 0
  /\ calls = [c \in Tasks |-> NoCall]

RouterNext ==
  \/ LoadConfig \/ Edit
  \/ \E c \in Tasks : Answer(c) \/ \E task \in TargetNames \cup {"auto", "unknown"} : Route(c, task)

RouterSpec == RouterInit /\ [][RouterNext]_router

(***************************************************************************)
(* Properties.                                                             *)
(***************************************************************************)
\* Between two loads, whatever the file held and at whichever model a load raised, all
\* calls to a target go through the one client made for the target as it was loaded
\* last, so they share its rate limiter; only calls from before the load do not.
\* Code: router.py _load_config, get_client, route, reload.
CallsShareTheCurrentClient ==
  /\ \A n \in TargetNames : clients[n] # NoClient => clients[n].target = targets[n]
  /\ \A c \in Tasks : calls[c].current => calls[c].client = clients[calls[c].target]
==============================================================================
