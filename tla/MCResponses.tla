----------------------------- MODULE MCResponses -----------------------------
(* Responses with the account pool before the key pool.                    *)
EXTENDS Responses

MCSources == <<"account", "key">>
MCBars == {{}, {"gone"}}
==============================================================================
