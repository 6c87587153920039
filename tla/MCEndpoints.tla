----------------------------- MODULE MCEndpoints -----------------------------
\* Small instances of Endpoints.
EXTENDS Endpoints

\* The two routes that go through most of the steps between them, one of them
\* limited by the counter that is followed.
Calls == {Contact, AdminSave}

\* Calls that wait for everything there is to wait for: pool, rows and provider.
Waits == {Contact, AdminSave, Login}
=============================================================================
