---------------------------- MODULE CharacterList ----------------------------
(***************************************************************************)
(* The character screen: lists, creations and deletions.  The realm answers *)
(* a creation with a code only, the client wants the new character's GUID:  *)
(* after a success the relay asks for a list of its own, and the next list  *)
(* the realm sends becomes the creation's result instead of being shown.    *)
(*                                                                          *)
(* A packet is <<kind>> or <<kind, name>>, and a list <<"list", names>>.    *)
(* A character's name stands for its GUID.  The connection may be lost; the *)
(* session is found again by its account and keeps what it remembers.       *)
(***************************************************************************)
EXTENDS Sequences, FiniteSets, Naturals

CONSTANTS
    Names,
    NoName,      \* "", and the GUID 0
    MaxLists,    \* bound: lists the client waits for at once
    MaxBreaks    \* bound: connections lost

Constants == NoName \notin Names /\ MaxLists \in Nat /\ MaxBreaks \in Nat

VARIABLES
    characters,             \* realm: the account's characters
    requests, answers,      \* to the realm and back, in order
    writing,                \* what the two goroutines have still to write
    pendingCreateName, awaitingCreateEnum,
    creating, lists,        \* client: the creation and the lists it waits for
    breaks,
    stray,                  \* history: the last connection was lost while the relay
                            \* waited for its list
    wrong                   \* history: on this connection the client was sent what
                            \* it did not ask for

vars == <<characters, requests, answers, writing, pendingCreateName,
          awaitingCreateEnum, creating, lists, breaks, stray, wrong>>

Goroutines == {"handler", "relay"}
NamesOrNone == Names \cup {NoName}
Requests == {<<"enum">>} \cup {<<kind, n>> : kind \in {"create", "delete"}, n \in Names}
Answers == {<<"failed">>, <<"success">>, <<"deleted">>} \cup {<<"list", s>> : s \in SUBSET Names}

TypeOK ==
    /\ characters \subseteq Names
    /\ requests \in Seq(Requests) /\ answers \in Seq(Answers)
    /\ writing \in [Goroutines -> Requests \cup {<<>>}]
    /\ pendingCreateName \in NamesOrNone /\ awaitingCreateEnum \in BOOLEAN
    /\ creating \in NamesOrNone /\ lists \in 0..MaxLists
    /\ breaks \in 0..MaxBreaks /\ stray \in BOOLEAN /\ wrong \in BOOLEAN

Init ==
    /\ characters = {} /\ requests = <<>> /\ answers = <<>>
    /\ writing = [g \in Goroutines |-> <<>>]
    /\ pendingCreateName = NoName /\ awaitingCreateEnum = FALSE
    /\ creating = NoName /\ lists = 0
    /\ breaks = 0 /\ stray = FALSE /\ wrong = FALSE

sessionVars == <<pendingCreateName, awaitingCreateEnum>>

-----------------------------------------------------------------------------
(* The client and the handler of its connection.                           *)

HandlerIdle == writing["handler"] = <<>>
HandlerWrites(request) == writing' = [writing EXCEPT !["handler"] = request]

EnumCharacters ==
    /\ HandlerIdle /\ lists < MaxLists /\ lists' = lists + 1
    /\ HandlerWrites(<<"enum">>)
    /\ UNCHANGED <<characters, requests, answers, sessionVars, creating, breaks,
                   stray, wrong>>

\* The client waits for the result of a creation or deletion before it asks for
\* another.
Settled ==
    /\ HandlerIdle /\ creating = NoName
    /\ \A i \in DOMAIN requests : requests[i][1] # "delete"
    /\ \A i \in DOMAIN answers : answers[i][1] # "deleted"

CreateCharacter(name) ==
    /\ Settled /\ creating' = name
    /\ pendingCreateName' = name /\ awaitingCreateEnum' = FALSE
    /\ HandlerWrites(<<"create", name>>)
    /\ UNCHANGED <<characters, requests, answers, lists, breaks, stray,
                   wrong>>

\* Deletions are forwarded and answered as they come.
DeleteCharacter(name) ==
    /\ Settled /\ name \in characters
    /\ HandlerWrites(<<"delete", name>>)
    /\ UNCHANGED <<characters, requests, answers, sessionVars, creating, lists,
                   breaks, stray, wrong>>

\* WritePacket, outside the session's lock.
Write(g) ==
    /\ writing[g] # <<>>
    /\ requests' = Append(requests, writing[g])
    /\ writing' = [writing EXCEPT ![g] = <<>>]
    /\ UNCHANGED <<characters, answers, sessionVars, creating, lists, breaks,
                   stray, wrong>>

\* The connection is lost, with all that is on its way, and the client makes
\* another.
Reconnect ==
    /\ breaks < MaxBreaks /\ breaks' = breaks + 1
    /\ requests' = <<>> /\ answers' = <<>>
    /\ writing' = [g \in Goroutines |-> <<>>]
    /\ creating' = NoName /\ lists' = 0
    /\ stray' = awaitingCreateEnum /\ wrong' = FALSE
    /\ UNCHANGED <<characters, sessionVars>>

-----------------------------------------------------------------------------
(* The realm (external) answers in order.                                  *)

RealmAnswers ==
    /\ requests # <<>> /\ requests' = Tail(requests)
    /\ LET r == Head(requests) IN
       \/ /\ r[1] = "enum" /\ characters' = characters
          /\ answers' = Append(answers, <<"list", characters>>)
       \/ /\ r[1] = "create" /\ r[2] \notin characters
          /\ characters' = characters \cup {r[2]}
          /\ answers' = Append(answers, <<"success">>)
       \/ /\ r[1] = "create" /\ characters' = characters
          /\ answers' = Append(answers, <<"failed">>)
       \/ /\ r[1] = "delete" /\ characters' = characters \ {r[2]}
          /\ answers' = Append(answers, <<"deleted">>)
    /\ UNCHANGED <<writing, sessionVars, creating, lists, breaks, stray, wrong>>

-----------------------------------------------------------------------------
(* The relay.                                                              *)

RelayIdle == writing["relay"] = <<>>

\* SMSG_CREATE_CHARACTER to the client: guid is NoName after a failure.
Result(success, guid) ==
    /\ creating' = NoName
    /\ wrong' = (wrong \/ creating = NoName \/ (success /\ guid # creating))
    /\ UNCHANGED lists

\* Mutant: the answer to a creation forgets the name, the list comes later.
CreatedForgets ==
    /\ awaitingCreateEnum' = TRUE /\ pendingCreateName' = NoName
    /\ writing' = [writing EXCEPT !["relay"] = <<"enum">>]
    /\ UNCHANGED <<creating, lists, wrong>>
\* SMSG_CREATE_CHARACTER of the realm, the success of a creation with a name.
Created ==
    /\ awaitingCreateEnum' = TRUE /\ UNCHANGED pendingCreateName
    /\ writing' = [writing EXCEPT !["relay"] = <<"enum">>]
    /\ UNCHANGED <<creating, lists, wrong>>

\* SMSG_CREATE_CHARACTER of the realm, any other.
NotCreated(success) ==
    /\ pendingCreateName' = NoName /\ awaitingCreateEnum' = FALSE
    /\ Result(success, NoName) /\ UNCHANGED writing

\* SMSG_ENUM_CHARACTERS_RESULT
EnumResult(names) ==
    /\ UNCHANGED writing
    /\ IF awaitingCreateEnum
       THEN /\ awaitingCreateEnum' = FALSE /\ pendingCreateName' = NoName
            /\ Result(TRUE, IF pendingCreateName \in names THEN pendingCreateName ELSE NoName)
       ELSE /\ UNCHANGED <<sessionVars, creating>>
            /\ wrong' = (wrong \/ lists = 0)
            /\ lists' = IF lists = 0 THEN 0 ELSE lists - 1

Relay ==
    /\ answers # <<>> /\ RelayIdle /\ answers' = Tail(answers)
    /\ LET a == Head(answers) IN
       \/ a[1] = "success" /\ pendingCreateName # NoName /\ Created
       \/ /\ a[1] = "failed" \/ (a[1] = "success" /\ pendingCreateName = NoName)
          /\ NotCreated(a[1] = "success")
       \/ a[1] = "list" /\ EnumResult(a[2])
       \/ a[1] = "deleted" /\ UNCHANGED <<writing, sessionVars, creating, lists, wrong>>
    /\ UNCHANGED <<characters, requests, breaks, stray>>

Next ==
    \/ EnumCharacters
    \/ \E name \in Names : CreateCharacter(name) \/ DeleteCharacter(name)
    \/ \E g \in Goroutines : Write(g)
    \/ Reconnect \/ RealmAnswers \/ Relay

Spec == Init /\ [][Next]_vars

-----------------------------------------------------------------------------
AtRest == requests = <<>> /\ answers = <<>> /\ \A g \in Goroutines : writing[g] = <<>>

\* The list the relay asks for and those the client asks for are told apart by
\* nothing but a flag.  Still, whichever comes first, the client is sent one
\* result for a creation, with the new character, and one list for each it
\* asked for, and is left waiting for nothing once the realm has answered all.
\* The exception is a connection that follows one lost between the success and
\* the relay's list (stray): its first list is sent as a result nobody asked for.
AnswersMatch == ~stray => ~wrong /\ (AtRest => creating = NoName /\ lists = 0)
=============================================================================
