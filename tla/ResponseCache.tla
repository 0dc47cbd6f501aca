----------------------------- MODULE ResponseCache -----------------------------
(***************************************************************************)
(* The disk cache of the LLM calls of an evaluation run                     *)
(* (DiskCachedCuratorLLM and DiskCachedChatClient, roommem.py): a reply is  *)
(* kept in a file whose name is a hash of role, model, prompt and repeat,   *)
(* so that a run that died, or is started once more, gets the replies it    *)
(* had.  The file is opened, which empties it, and then written; one that   *)
(* cannot be read is as good as none.                                       *)
(*                                                                         *)
(* A reply carries the call it was made for, and a text that differs from   *)
(* one call of the provider to the next.                                    *)
(***************************************************************************)
EXTENDS Integers, Sequences, FiniteSets

CONSTANTS
    Calls,          \* what a run asks, in order: [role, prompt, repeat]
    Texts,          \* what a provider may reply
    NoFile, TornFile,
    MaxCacheDeaths  \* bound on deaths of the process

ASSUME ResponseCacheAssumption ==
    /\ Calls \in Seq([role: STRING, prompt: STRING, repeat: Nat]) /\ Calls # <<>>
    /\ Texts # {} /\ MaxCacheDeaths \in Nat
    /\ {NoFile, TornFile} \cap [for: {Calls[i] : i \in DOMAIN Calls}, text: Texts] = {}

VARIABLES
    cache_step,     \* "down", "look", "ask", "open", "write", "ended"
    call,           \* index of the call at hand
    reply,          \* what the provider replied, before it is handed out
    files,          \* key -> file
    usage,          \* LLMUsageTracker of this process: [cached, asked]
    replied,        \* call -> the replies ever handed out for it, in order
    cache_deaths

cacheVars == <<cache_step, call, reply, files, usage, replied, cache_deaths>>

AllCalls == {Calls[i] : i \in DOMAIN Calls}

\* Mutant of KeyOf: the repeat is not part of the key.
KeyOfPrompt(c) == <<c.role, c.prompt>>

\* cache_key; the model of a role never changes within a run.
KeyOf(c) == <<c.role, c.prompt, c.repeat>>

Keys == {KeyOf(c) : c \in AllCalls}
File == files[KeyOf(Calls[call])]
NoUsage == [cached |-> 0, asked |-> 0]
NoReply == [for |-> Calls[1], text |-> CHOOSE t \in Texts : TRUE]

-------------------------------------------------------------------------------
\* The reply is handed to the program, which goes on to its next call.
HandOut(r) ==
    /\ replied' = [replied EXCEPT ![Calls[call]] = Append(@, r)]
    /\ call' = call + 1
    /\ cache_step' = IF call < Len(Calls) THEN "look" ELSE "ended"

StartRun ==
    /\ cache_step = "down"
    /\ cache_step' = "look" /\ call' = 1 /\ usage' = NoUsage
    /\ UNCHANGED <<reply, files, replied, cache_deaths>>

\* The file exists and can be read.
Hit ==
    /\ cache_step = "look"
    /\ File \notin {NoFile, TornFile}
    /\ HandOut(File)
    /\ usage' = [usage EXCEPT !.cached = @ + 1]
    /\ UNCHANGED <<reply, files, cache_deaths>>

Miss ==
    /\ cache_step = "look"
    /\ File \in {NoFile, TornFile}
    /\ cache_step' = "ask"
    /\ UNCHANGED <<call, reply, files, usage, replied, cache_deaths>>

\* The provider replies, which is recorded.
ProviderReplies(text) ==
    /\ cache_step = "ask"
    /\ reply' = [for |-> Calls[call], text |-> text]
    /\ usage' = [usage EXCEPT !.asked = @ + 1]
    /\ cache_step' = "open"
    /\ UNCHANGED <<call, files, replied, cache_deaths>>

\* Mutant of ProviderFails: the call is made once more.
ProviderFailsAgain ==
    /\ cache_step = "ask"
    /\ cache_step' = "look"
    /\ UNCHANGED <<call, reply, files, usage, replied, cache_deaths>>

\* The provider raises: nothing is kept, the program does without the reply.
ProviderFails ==
    /\ cache_step = "ask"
    /\ call' = call + 1
    /\ cache_step' = IF call < Len(Calls) THEN "look" ELSE "ended"
    /\ UNCHANGED <<reply, files, usage, replied, cache_deaths>>

OpenFile ==
    /\ cache_step = "open"
    /\ files' = [files EXCEPT ![KeyOf(Calls[call])] = TornFile]
    /\ cache_step' = "write"
    /\ UNCHANGED <<call, reply, usage, replied, cache_deaths>>

\* Mutant of WriteFile: the reply is handed out, but the file stays open.
WriteFileLater ==
    /\ cache_step = "write"
    /\ HandOut(reply)
    /\ UNCHANGED <<reply, files, usage, cache_deaths>>

WriteFile ==
    /\ cache_step = "write"
    /\ files' = [files EXCEPT ![KeyOf(Calls[call])] = reply]
    /\ HandOut(reply)
    /\ UNCHANGED <<reply, usage, cache_deaths>>

RunDies ==
    /\ cache_step \notin {"down", "ended"}
    /\ cache_deaths < MaxCacheDeaths
    /\ cache_deaths' = cache_deaths + 1
    /\ cache_step' = "down" /\ call' = 1 /\ usage' = NoUsage
    /\ UNCHANGED <<reply, files, replied>>

\* The run is over, and its calls are made once more by the next one.
RunOnceMore ==
    /\ cache_step = "ended"
    /\ cache_deaths < MaxCacheDeaths
    /\ cache_deaths' = cache_deaths + 1
    /\ cache_step' = "down" /\ call' = 1 /\ usage' = NoUsage
    /\ UNCHANGED <<reply, files, replied>>

CacheStep ==
    \/ StartRun
    \/ Hit
    \/ Miss
    \/ \E text \in Texts : ProviderReplies(text)
    \/ ProviderFails
    \/ OpenFile
    \/ WriteFile

CacheFault == RunDies \/ RunOnceMore

CacheInit ==
    /\ cache_step = "down" /\ call = 1 /\ reply = NoReply
    /\ files = [k \in Keys |-> NoFile]
    /\ usage = NoUsage
    /\ replied = [c \in AllCalls |-> <<>>]
    /\ cache_deaths = 0

CacheSpec == CacheInit /\ [][CacheStep \/ CacheFault]_cacheVars

-------------------------------------------------------------------------------
\* A call is answered the same way every time it is made, by a reply that a
\* provider made for this very call, role, prompt and repeat, whatever died in
\* between; and a call that was answered once is never paid for again
\* (DiskCachedCuratorLLM.complete_json, DiskCachedChatClient.complete).
RepliesStay ==
    \A c \in AllCalls :
        /\ \A i \in DOMAIN replied[c] :
              replied[c][i].for = c /\ replied[c][i] = replied[c][1]
        /\ replied[c] # <<>> =>
              /\ files[KeyOf(c)] = replied[c][1]
              /\ cache_step \in {"ask", "open", "write"} => Calls[call] # c
===============================================================================
