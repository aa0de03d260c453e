---- MODULE MCDeploy ----
EXTENDS Deploy
MCWho == {"deploy", "person"}
====
