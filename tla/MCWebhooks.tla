---------------------------- MODULE MCWebhooks ----------------------------
(* Constant values for checking Webhooks on small instances.               *)
EXTENDS Webhooks

CONSTANTS h1, w1, w2, a, b

OneFilter == {{a}}
TwoFilters == {{a}, {a, b}}
===========================================================================
