-------------------------- MODULE MCDocsRsBuilders --------------------------
(* Small instances of DocsRsBuilders for TLC. *)
EXTENDS DocsRsBuilders

\* Two parameters: enough for one to be rotated while the other is fetched.
TwoSecrets == <<"database-url", "github-token">>

=============================================================================
