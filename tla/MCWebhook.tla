-------------------------------- MODULE MCWebhook --------------------------------
\* A director who sees both orders and the trigger, and an officer of one project.
EXTENDS WebhookProperties, TLC
CONSTANTS w1, w2, t1
MCScopes == {{w1, w2, t1}, {w1}}
=============================================================================
