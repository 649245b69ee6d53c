-------------------------------- MODULE OAuth --------------------------------
(***************************************************************************)
(* The tokens of OAuth2 (http/oauth.rs, start_oauth_flow of app.rs): what  *)
(* is kept in oauth.toml, when a refresh token of it is used, and what an  *)
(* answer of the token endpoint makes of it.                               *)
(*                                                                         *)
(* A configuration is what the fields of the form say: [client, auth,      *)
(* token], the last two being URLs.  A refresh token is known by the       *)
(* client it was given to; {} is none.                                     *)
(***************************************************************************)
EXTENDS Sequences

NoTokens == [refresh |-> {}, client |-> "", access |-> ""]

(* The answers of the token endpoint that hold an access token: with or    *)
(* without a refresh token.                                                *)
Grants(client) == {[access |-> client \o "-access", refresh |-> r] : r \in {{}, {client}}}

Complete(cfg) == "" \notin {cfg.client, cfg.auth, cfg.token}

RefreshableForAny(tokens, cfg) == tokens.refresh # {}

(* A refresh is preferred if there is a token for this client. *)
Refreshable(tokens, cfg) ==
  /\ tokens.refresh # {}
  /\ tokens.client \in {"", cfg.client}

(* What is written: an answer without a refresh token leaves the one there is. *)
Granted(tokens, cfg, grant) ==
  [refresh |-> IF grant.refresh # {} THEN grant.refresh ELSE tokens.refresh,
   client |-> cfg.client, access |-> grant.access]
=============================================================================
