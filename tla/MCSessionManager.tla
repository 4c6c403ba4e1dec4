-------------------------- MODULE MCSessionManager --------------------------
(* A server with the memory store, where everything happens, or with one   *)
(* that is walked along the index, where nothing races the reaper's        *)
(* delete: the file store, or one that cannot enumerate itself.            *)
EXTENDS SessionManager, TLC

Activities ==
    ("memory" :> Activity)
      @@ ("file" :> {"create", "find", "reap"}) @@ ("redis" :> {"create", "find", "reap"})
Sessions == ("memory" :> 1) @@ ("file" :> 2) @@ ("redis" :> 1)
=============================================================================
