-------------------------- MODULE MCChannelSwitch --------------------------
EXTENDS ChannelSwitch
=============================================================================
