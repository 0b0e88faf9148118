------------------------- MODULE MCOffLimitContacts -------------------------
EXTENDS OffLimitContacts
MCOffLimitModels == <<"enclosure", "enclosure walls", "task_board">>
=============================================================================
