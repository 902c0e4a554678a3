---------------------------- MODULE MCVideoUpload ----------------------------
EXTENDS VideoUpload
=============================================================================
