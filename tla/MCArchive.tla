------------------------------- MODULE MCArchive -------------------------------
(***************************************************************************)
(* Instances of Archive for TLC: two documents, one of two windows and in   *)
(* two versions, an archive attached to a session, and a listing.           *)
(***************************************************************************)
EXTENDS Archive

InArchive == [identity_kind |-> "archive", archive_id |-> "a"]
OfSource == [identity_kind |-> "source", source_id |-> "s"]
OfSourceFile == [identity_kind |-> "source", source_id |-> "s", file_id |-> "f"]

Doc(id, text, size, identity) ==
    [document |-> id, text |-> text, size |-> size, identity |-> identity]

SomeIngests == {Doc("d", "t", 3, InArchive), Doc("d", "u", 2, InArchive),
                Doc("d", "t", 3, OfSource),
                Doc("e", "t", 3, OfSourceFile), Doc("e", "t", 3, OfSource)}

SomeAttachments == {[archive |-> "a", scope |-> x] : x \in {"session", "user"}}

SomeListings == {[archives |-> {}, scopes |-> <<"session", "user">>, sources |-> {"s"}],
                 [archives |-> {"a"}, scopes |-> <<"session">>, sources |-> {}]}
===============================================================================
