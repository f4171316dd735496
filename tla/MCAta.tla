------------------------------- MODULE MCAta --------------------------------
\* Four sectors, two per command, so that a request of three takes two commands.
EXTENDS Ata

MCKinds == {"floating", "no drive", "no master", "atapi", "no lba", "disk"}
=============================================================================
