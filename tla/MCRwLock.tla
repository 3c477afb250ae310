---- MODULE MCRwLock ----
EXTENDS RwLock
====
