-------------------------- MODULE MCClientKeysShow --------------------------
(* Two requests at a time and two names.                                     *)
EXTENDS ClientKeys

\* litellm_keys.js:159 of generate(): "a new key must show up immediately".
NewKeyShows == cache.set => confirmed \cap proxy \subseteq cache.keys

=============================================================================
