------------------------------ MODULE MCHooks -------------------------------
(* Before the main work, a Job and a plain resource whose names are in the *)
(* other order than their weights; after it, the Job again and a Job that  *)
(* is cleaned up in the end. A teardown has a hook of its own.             *)
EXTENDS Hooks, TLC

CONSTANTS migrate, settings, notify

ThreeHooks == {migrate, settings, notify}
ThreeTypes == (migrate :> {"pre-install", "pre-upgrade", "post-install"})
              @@ (settings :> {"pre-install", "test", "pre-delete"})
              @@ (notify :> {"post-install", "post-delete"})
ThreeListed == (migrate :> {}) @@ (settings :> {"before-hook-creation"})
               @@ (notify :> {"hook-succeeded", "hook-failed"})
ThreeWeight == (migrate :> 1) @@ (settings :> -1) @@ (notify :> 1)
ThreeName == (migrate :> 1) @@ (settings :> 3) @@ (notify :> 2)
ThreeWaitable == {migrate, notify}
=============================================================================
